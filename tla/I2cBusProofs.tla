---------------------------- MODULE I2cBusProofs ----------------------------
(***************************************************************************)
(* Proofs about I2cBus, for any number of threads, registers, fields and   *)
(* attempts.  Types and the progress of calls hold always, the exclusion   *)
(* by the lock once the chip has been probed, and what is about the words  *)
(* in the registers in normal operation (Settled).                         *)
(*                                                                         *)
(* The last are not inductive by themselves.  That a word about to         *)
(* be written is fresh rests on three facts kept together below: only the  *)
(* lock holder is past ionopimax_i2c_lock (LockInv), what a read brought   *)
(* is the register as it still is (ReadFresh), and the check byte is added *)
(* and stripped consistently because the cached version never changes      *)
(* (VersionKnown, Framing, VersionBuf).                                    *)
(***************************************************************************)
EXTENDS I2cBus, TLAPS

\* The calls in progress are calls sysfs can make.
OpOK == \A t \in Thread : op[t] \in Request

\* The version register keeps telling the firmware's version.
FwRegOK == (CrcBit \in reg[FwReg]) = McuCrc

\* A transfer is framed exactly when the firmware checks frames.
Framing == \A t \in Thread :
             pc[t] \in {"xfer", "end", "send"} => framed[t] = McuCrc

\* Which reads and writes each kind of call makes.
StageOK == \A t \in Thread :
  /\ pc[t] \in {"begin", "xfer", "end"} /\ stage[t] = "rmw"
       => op[t].kind = "store" /\ ~op[t].masked
  /\ pc[t] \in {"begin", "xfer", "end"} /\ stage[t] = "verify"
       => op[t].kind = "store"
  /\ pc[t] \in {"begin", "xfer", "end"} /\ stage[t] = "fetch"
       => op[t].kind \in {"show", "version"}
  /\ pc[t] \in {"wbegin", "send"} => op[t].kind \in {"store", "poke"}
  /\ pc[t] = "assign" => op[t].kind = "version"

\* What read-modify-write has read is what the register holds.
ReadFresh == \A t \in Thread :
  pc[t] = "end" /\ stage[t] = "rmw" => buf[t] = reg[op[t].reg]

\* A version that was read is the chip's.
VersionBuf == \A t \in Thread :
  (pc[t] \in {"end", "unlock", "assign"} /\ op[t].kind = "version" /\ outcome[t] = "ok")
     => (CrcBit \in buf[t]) = McuCrc

\* The word about to be written asks for the requested field and for nothing else.
WordOK == \A t \in Thread :
  pc[t] \in {"wbegin", "send"} =>
    /\ word[t] \subseteq Bit
    /\ word[t] \cap op[t].mask = op[t].val
    /\ ~op[t].masked => word[t] \ op[t].mask = reg[op[t].reg] \ op[t].mask

Inv ==
  /\ TypeOK /\ LockInv /\ VersionKnown /\ OpOK /\ FwRegOK
  /\ Framing /\ StageOK /\ ReadFresh /\ VersionBuf /\ WordOK

-----------------------------------------------------------------------------
\* What the calls of sysfs look like: they are well typed, a store stays in
\* its field and away from the version register and the MCU's own registers.
LEMMA RequestShape ==
  ASSUME NEW o \in Request
  PROVE  /\ o \in OpType
         /\ o.kind \in {"show", "store", "poke", "version"}
         /\ o.kind = "version" => o.reg = FwReg /\ ~o.masked
         /\ o.kind \in {"store", "poke"} =>
              o.reg # FwReg /\ o.val \subseteq o.mask
         /\ o.kind = "store" => o.reg \notin Volatile
         /\ o.kind = "poke" => o.mask = Bit /\ ~o.masked
<1>1. CASE o \in ShowCalls
  BY <1>1, ConstAssumption DEF ShowCalls, Call, OpType, Kind, Word, FieldType
<1>2. CASE o \in StoreCalls
  <2>1. PICK f \in Writable :
          o \in {Call("store", f.reg, f.mask, f.masked, v) : v \in SUBSET f.mask}
    BY <1>2 DEF StoreCalls
  <2>2. PICK v \in SUBSET f.mask : o = Call("store", f.reg, f.mask, f.masked, v)
    BY <2>1
  <2>3. f.reg \in Reg /\ f.mask \in SUBSET Bit /\ f.masked \in BOOLEAN
    BY ConstAssumption DEF FieldType
  <2>4. v \in SUBSET Bit /\ v \subseteq f.mask
    BY <2>3
  <2>5. f.reg \notin Volatile \cup {FwReg}
    BY ConstAssumption
  <2>6. o.kind = "store" /\ o.reg = f.reg /\ o.mask = f.mask /\ o.val = v
    BY <2>2 DEF Call
  <2>7. o \in OpType
    BY <2>2, <2>3, <2>4 DEF Call, OpType, Kind, Word
  <2> QED
    BY <2>4, <2>5, <2>6, <2>7
<1>3. CASE o \in PokeCalls
  <2>0. PICK r \in RawReg : o \in {Call("poke", r, Bit, FALSE, v) : v \in Word}
    BY <1>3 DEF PokeCalls
  <2>1. PICK v \in Word : o = Call("poke", r, Bit, FALSE, v)
    BY <2>0
  <2>2. r \in Reg /\ r # FwReg /\ v \subseteq Bit /\ Bit \in Word
    BY ConstAssumption DEF Word
  <2>3. o \in OpType
    BY <2>1, <2>2 DEF Call, OpType, Kind
  <2>4. o.kind = "poke" /\ o.reg = r /\ o.mask = Bit /\ o.masked = FALSE /\ o.val = v
    BY <2>1 DEF Call
  <2> QED
    BY <2>2, <2>3, <2>4
<1>4. CASE o = VersionCall
  BY <1>4, ConstAssumption DEF Call, VersionCall, OpType, Kind, Word
<1> QED
  BY <1>1, <1>2, <1>3, <1>4 DEF Request

LEMMA BoundType == Bound \in Nat \ {0} /\ LockTries <= Bound /\ Retries <= Bound
  BY ConstAssumption DEF Bound

-----------------------------------------------------------------------------
(* What holds whether the chip has been probed or not, and whatever the bus  *)
(* does.                                                                     *)

LEMMA InitType == Init => TypeOK
  BY BoundType, ConstAssumption
     DEF Init, TypeOK, PC, Outcome, Received, Word, VersionCall, Call, OpType, Kind

\* A step of a call keeps the types, and makes no attempt beyond the last.
LEMMA StepType ==
  ASSUME TypeOK, NEW t \in Thread, Invoke(t) \/ Probe(t) \/ Step(t)
  PROVE  TypeOK'
<1>0. /\ op[t] \in OpType /\ op[t].reg \in Reg /\ op[t].mask \in Word
      /\ op[t].val \in Word /\ op[t].masked \in BOOLEAN /\ reg[op[t].reg] \in Word
      /\ word[t] \in Received /\ buf[t] \in Received
  BY DEF TypeOK, OpType
<1>1. CASE Invoke(t)
  <2>1. PICK o \in Request : op' = [op EXCEPT ![t] = o]
    BY <1>1 DEF Invoke
  <2>2. o \in OpType
    BY RequestShape
  <2> QED
    BY <1>1, <2>1, <2>2 DEF Invoke, Goto, TypeOK, PC
<1>2. CASE Probe(t)
  <2>1. ProbeCall \in OpType
    BY ConstAssumption DEF ProbeCall, Call, OpType, Kind, Word
  <2> QED
    BY <1>2, <2>1 DEF Probe, Goto, TypeOK, PC
<1>3. CASE LockTaken(t)
  BY <1>3, <1>0, BoundType DEF LockTaken, Goto, TypeOK, PC, Received, Word
<1>4. CASE LockBusy(t)
  BY <1>4, BoundType, ConstAssumption DEF LockBusy, TypeOK, TrylockLeft
<1>5. CASE LockRefused(t)
  BY <1>5 DEF LockRefused, Goto, TypeOK, PC, Outcome, AfterBus
<1>6. CASE Unlock(t)
  BY <1>6 DEF Unlock, Goto, TypeOK, PC, AfterBus
<1>7. CASE ReadBegin(t)
  BY <1>7, BoundType DEF ReadBegin, Goto, TypeOK, PC, Outcome, Fail
<1>8. CASE ReadAccepted(t)
  <2>1. PICK v \in Acceptable(t) : buf' = [buf EXCEPT ![t] = v]
    BY <1>8 DEF ReadAccepted
  <2>2. v \in Received
    BY <2>1, <1>0 DEF Acceptable, Received, Word
  <2> QED
    BY <1>8, <2>1, <2>2 DEF ReadAccepted, Goto, TypeOK, PC
<1>9. CASE ReadRejected(t)
  BY <1>9, BoundType, ConstAssumption
     DEF ReadRejected, Goto, TypeOK, PC, Outcome, AttemptLeft, Fail
<1>10. CASE ReadEnd(t)
  <2>1. Decoded(t) \in Received
    BY <1>0, ConstAssumption DEF Decoded, Received
  <2>2. Merge(Decoded(t), op[t].mask, op[t].val) \in Received
    BY <2>1, <1>0 DEF Merge, Received, Word
  <2> QED
    BY <1>10, <2>1, <2>2 DEF ReadEnd, Goto, TypeOK, PC, Outcome
<1>11. CASE WriteBegin(t)
  BY <1>11, BoundType DEF WriteBegin, Goto, TypeOK, PC, Outcome, Fail
<1>12. CASE WriteAcked(t) \/ WriteFailed(t)
  <2>1. PICK v \in Landing(t) : reg' = [reg EXCEPT ![op[t].reg] = v]
    BY <1>12 DEF WriteAcked, WriteFailed
  <2>2. v \in Word
    BY <1>0 DEF Landing, Written, Merge, Word
  <2>3. reg' \in [Reg -> Word]
    BY <2>1, <2>2 DEF TypeOK
  <2>4. CASE WriteAcked(t)
    BY <2>3, <2>4 DEF WriteAcked, Goto, TypeOK, PC
  <2>5. CASE WriteFailed(t)
    <3>1. tries' \in [Thread -> 0 .. Bound - 1]
      BY <2>5, BoundType, ConstAssumption DEF WriteFailed, AttemptLeft, TypeOK
    <3>2. pc' \in [Thread -> PC] /\ outcome' \in [Thread -> Outcome]
      BY <2>5 DEF WriteFailed, Fail, Goto, TypeOK, PC, Outcome
    <3> QED
      BY <2>3, <2>5, <3>1, <3>2 DEF WriteFailed, TypeOK
  <2> QED
    BY <1>12, <2>4, <2>5
<1>13. CASE AssignVersion(t)
  <2>1. fwCrc' \in BOOLEAN
    <3>1. fwCrc' = (CrcBit \in buf[t]) \/ fwCrc' = fwCrc
      BY <1>13, Zenon DEF AssignVersion
    <3>2. (CrcBit \in buf[t]) \in BOOLEAN
      OBVIOUS
    <3> QED
      BY <3>1, <3>2, Zenon DEF TypeOK
  <2>2. client' \in BOOLEAN
    BY <1>13, Zenon DEF AssignVersion, TypeOK
  <2> QED
    BY <1>13, <2>1, <2>2 DEF AssignVersion, Goto, TypeOK, PC
<1>14. CASE Return(t)
  <2>1. VersionCall \in Request
    BY DEF Request
  <2>2. VersionCall \in OpType
    BY <2>1, RequestShape
  <2> QED
    BY <1>14, <2>2, BoundType DEF Return, Goto, TypeOK, PC, Outcome, Received
<1> QED
  BY <1>1, <1>2, <1>3, <1>4, <1>5, <1>6, <1>7, <1>8, <1>9, <1>10, <1>11, <1>12,
     <1>13, <1>14 DEF Step

LEMMA McuType ==
  ASSUME TypeOK, NEW r \in Reg, McuUpdate(r)
  PROVE  TypeOK'
<1>1. PICK v \in Word : reg' = [reg EXCEPT ![r] = v]
  BY DEF McuUpdate
<1> QED
  BY <1>1 DEF McuUpdate, TypeOK

\* Types, and never more attempts than the loops of the driver allow, also
\* while the chip is probed and without a chip.
THEOREM TypeCorrect == Spec => []TypeOK
<1>1. TypeOK /\ [Next]_vars => TypeOK'
  <2> SUFFICES ASSUME TypeOK, [Next]_vars PROVE TypeOK'
    OBVIOUS
  <2>1. CASE Next
    BY <2>1, StepType, McuType DEF Next
  <2>2. CASE UNCHANGED vars
    BY <2>2 DEF vars, TypeOK
  <2> QED
    BY <2>1, <2>2
<1> QED
  BY <1>1, InitType, PTL DEF Spec

\* Why the lock excludes: the client, once set, is withdrawn by a failed
\* probe only, and then nobody probes.
Excluded ==
  /\ client
  /\ \A t \in Thread : op[t].kind # "probe"
  /\ LockInv

LEMMA StepExcludes ==
  ASSUME TypeOK, Excluded, NEW t \in Thread, Invoke(t) \/ Step(t)
  PROVE  Excluded'
<1> USE DEF Excluded
<1>1. CASE Invoke(t)
  <2>1. PICK o \in Request : op' = [op EXCEPT ![t] = o]
    BY <1>1 DEF Invoke
  <2>2. o.kind # "probe"
    BY RequestShape
  <2>3. \A u \in Thread : op'[u].kind # "probe"
    BY <2>1, <2>2 DEF TypeOK
  <2> QED
    BY <1>1, <2>3 DEF Invoke, Goto, TypeOK, LockInv, Critical
<1>2. CASE LockTaken(t)
  BY <1>2, ConstAssumption DEF LockTaken, Goto, MutexFree, TypeOK, LockInv, Critical
<1>3. CASE Unlock(t)
  BY <1>3, ConstAssumption DEF Unlock, Goto, TypeOK, LockInv, Critical, AfterBus
<1>4. CASE LockBusy(t) \/ LockRefused(t)
  BY <1>4 DEF LockBusy, LockRefused, Goto, TypeOK, LockInv, Critical, AfterBus
<1>5. CASE ReadBegin(t) \/ ReadAccepted(t) \/ ReadRejected(t) \/ ReadEnd(t)
  BY <1>5
     DEF ReadBegin, ReadAccepted, ReadRejected, ReadEnd, Fail, Goto, TypeOK, LockInv, Critical
<1>6. CASE WriteBegin(t) \/ WriteAcked(t) \/ WriteFailed(t)
  BY <1>6 DEF WriteBegin, WriteAcked, WriteFailed, Fail, Goto, TypeOK, LockInv, Critical
<1>7. CASE AssignVersion(t)
  BY <1>7 DEF AssignVersion, Goto, TypeOK, LockInv, Critical
<1>8. CASE Return(t)
  BY <1>8 DEF Return, VersionCall, Call, Goto, TypeOK, LockInv, Critical
<1> QED
  BY <1>1, <1>2, <1>3, <1>4, <1>5, <1>6, <1>7, <1>8 DEF Step

\* update_lock excludes: whoever is between lock and unlock holds it, and it
\* is never left locked behind.  It does not take a firmware that checks
\* frames, nor a true bus, but a chip that has been probed: a probe renews
\* the mutex, and one that fails takes away the pointer to it.
THEOREM MutualExclusion == Spec /\ Probed => []LockInv
<1>1. Init /\ Probed => TypeOK /\ Excluded
  BY InitType, ConstAssumption
     DEF Init, Excluded, VersionCall, Call, LockInv, Critical
<1>2. TypeOK /\ Excluded /\ [Next]_vars => (TypeOK /\ Excluded)'
  <2> SUFFICES ASSUME TypeOK, Excluded, [Next]_vars PROVE TypeOK' /\ Excluded'
    OBVIOUS
  <2>1. CASE \E t \in Thread : Invoke(t) \/ Step(t)
    BY <2>1, StepType, StepExcludes
  <2>2. CASE \E t \in Thread : Probe(t)
    BY <2>2 DEF Probe, Excluded
  <2>3. CASE \E r \in Reg : McuUpdate(r)
    BY <2>3, McuType DEF McuUpdate, Excluded, LockInv
  <2>4. CASE UNCHANGED vars
    BY <2>4 DEF vars, TypeOK, Excluded, LockInv
  <2> QED
    BY <2>1, <2>2, <2>3, <2>4 DEF Next
<1>3. TypeOK /\ Excluded => LockInv
  BY DEF Excluded
<1> QED
  BY <1>1, <1>2, <1>3, PTL DEF Spec

-----------------------------------------------------------------------------
LEMMA StepsLeftType ==
  ASSUME TypeOK, NEW t \in Thread
  PROVE  StepsLeft(t) \in Nat
  BY DEF TypeOK, PC, StepsLeft, StepsAfter

\* A step of a call moves that call on, or spends an attempt.
LEMMA OwnStepAdvances ==
  ASSUME TypeOK, NEW t \in Thread, pc[t] # "idle", Step(t)
  PROVE  \/ StepsLeft(t)' < StepsLeft(t)
         \/ /\ StepsLeft(t)' = StepsLeft(t)
            /\ tries'[t] = tries[t] + 1 /\ tries'[t] < Bound
<1> USE DEF TypeOK, StepsLeft, StepsAfter, Goto
<1>1. CASE LockTaken(t)
  BY <1>1 DEF LockTaken, NeedsRmw
<1>2. CASE LockBusy(t)
  BY <1>2, BoundType, ConstAssumption DEF LockBusy, TrylockLeft
<1>3. CASE LockRefused(t) \/ Unlock(t)
  BY <1>3 DEF LockRefused, Unlock, AfterBus
<1>4. CASE ReadBegin(t) \/ ReadAccepted(t) \/ ReadEnd(t)
  BY <1>4 DEF ReadBegin, ReadAccepted, ReadEnd, Fail
<1>5. CASE ReadRejected(t)
  BY <1>5, BoundType, ConstAssumption DEF ReadRejected, AttemptLeft, Fail
<1>6. CASE WriteBegin(t) \/ WriteAcked(t)
  BY <1>6 DEF WriteBegin, WriteAcked, Fail
<1>7. CASE WriteFailed(t)
  BY <1>7, BoundType, ConstAssumption DEF WriteFailed, AttemptLeft, Fail
<1>8. CASE AssignVersion(t)
  <2>1. pc[t] = "assign" /\ pc' = [pc EXCEPT ![t] = "done"] /\ stage' = stage
    BY <1>8, Zenon DEF AssignVersion
  <2> QED
    BY <2>1
<1>9. CASE Return(t)
  BY <1>9 DEF Return
<1> QED
  BY <1>1, <1>2, <1>3, <1>4, <1>5, <1>6, <1>7, <1>8, <1>9 DEF Step

\* A step of another call, or the start of one, changes nothing of a call.
LEMMA OtherStepLeaves ==
  ASSUME TypeOK, NEW t \in Thread, NEW u \in Thread, u # t,
         Invoke(u) \/ Probe(u) \/ Step(u)
  PROVE  ThreadUnchanged(t)
<1> USE DEF TypeOK, ThreadUnchanged, Goto
<1>1. CASE Invoke(u) \/ Probe(u)
  BY <1>1 DEF Invoke, Probe
<1>2. CASE LockTaken(u) \/ LockBusy(u) \/ LockRefused(u) \/ Unlock(u)
  BY <1>2 DEF LockTaken, LockBusy, LockRefused, Unlock
<1>3. CASE ReadBegin(u) \/ ReadAccepted(u) \/ ReadRejected(u) \/ ReadEnd(u)
  BY <1>3 DEF ReadBegin, ReadAccepted, ReadRejected, ReadEnd, Fail
<1>4. CASE WriteBegin(u) \/ WriteAcked(u) \/ WriteFailed(u)
  BY <1>4 DEF WriteBegin, WriteAcked, WriteFailed, Fail
<1>5. CASE AssignVersion(u) \/ Return(u)
  BY <1>5 DEF AssignVersion, Return
<1> QED
  BY <1>1, <1>2, <1>3, <1>4, <1>5 DEF Step

\* Every call comes closer to its return with each of its steps, and is set
\* back by nobody, also while the chip is probed and without a chip: with
\* StepsLeft a natural number and the attempts below Bound, a call has a
\* limited number of steps.
THEOREM CallsBounded == Spec => CallsAdvance
<1>1. TypeOK /\ [Next]_vars => [AdvancingStep]_vars
  <2> SUFFICES ASSUME TypeOK, Next, NEW t \in Thread, pc[t] # "idle"
               PROVE  \/ ThreadUnchanged(t)
                      \/ StepsLeft(t)' < StepsLeft(t)
                      \/ /\ StepsLeft(t)' = StepsLeft(t)
                         /\ tries'[t] = tries[t] + 1 /\ tries'[t] < Bound
    BY DEF AdvancingStep
  <2>1. CASE Step(t)
    BY <2>1, OwnStepAdvances
  <2>2. CASE \E u \in Thread : (u # t /\ (Invoke(u) \/ Probe(u) \/ Step(u)))
    BY <2>2, OtherStepLeaves
  <2>3. CASE \E r \in Reg : McuUpdate(r)
    BY <2>3 DEF McuUpdate, ThreadUnchanged
  <2> QED
    BY <2>1, <2>2, <2>3 DEF Next, Invoke, Probe
<1>2. Spec => [][AdvancingStep]_vars
  BY <1>1, TypeCorrect, PTL DEF Spec
<1> QED
  BY <1>2 DEF CallsAdvance

-----------------------------------------------------------------------------
LEMMA InitInv == Init /\ Settled => Inv
<1> SUFFICES ASSUME Init, Settled PROVE Inv
  OBVIOUS
<1> USE ConstAssumption DEF Init, Settled
<1>1. TypeOK
  BY InitType
<1>2. LockInv
  BY DEF LockInv, Critical
<1>3. VersionKnown
  BY DEF VersionKnown
<1>4. OpOK
  <2>1. VersionCall \in Request
    BY DEF Request
  <2> QED
    BY <2>1 DEF OpOK
<1>5. FwRegOK
  BY DEF FwRegOK
<1>6. Framing /\ StageOK /\ ReadFresh /\ VersionBuf /\ WordOK
  BY DEF Framing, StageOK, ReadFresh, VersionBuf, WordOK
<1> QED
  BY <1>1, <1>2, <1>3, <1>4, <1>5, <1>6 DEF Inv

-----------------------------------------------------------------------------
\* An attempt at writing leaves the register as it was or with the field
\* set to the requested value, and the rest of the register alone.
SendEffect(t, v) ==
  /\ v \in Word
  /\ v \ op[t].mask = reg[op[t].reg] \ op[t].mask
  /\ \/ v = reg[op[t].reg]
     \/ v \cap op[t].mask = op[t].val

LEMMA SendLands ==
  ASSUME Settled, Inv, NEW t \in Thread, pc[t] = "send", NEW v \in Landing(t)
  PROVE  SendEffect(t, v)
<1>0. /\ op[t].reg \in Reg /\ op[t].mask \in Word /\ op[t].masked \in BOOLEAN
      /\ op[t].val \subseteq op[t].mask /\ reg[op[t].reg] \in Word
  <2>1. op[t] \in Request /\ op[t].kind \in {"store", "poke"}
    BY DEF Inv, OpOK, StageOK
  <2> QED
    BY <2>1, RequestShape DEF Inv, TypeOK, OpType
<1>1. word[t] \subseteq Bit /\ word[t] \cap op[t].mask = op[t].val
      /\ (~op[t].masked => word[t] \ op[t].mask = reg[op[t].reg] \ op[t].mask)
  BY DEF Inv, WordOK
<1>2. v \in {reg[op[t].reg], Written(t)}
  BY DEF Inv, Landing, Settled, Framing
<1>3. CASE v = reg[op[t].reg]
  BY <1>3, <1>0 DEF SendEffect
<1>4. CASE v = Written(t)
  BY <1>4, <1>0, <1>1 DEF SendEffect, Written, Merge, Word
<1> QED
  BY <1>2, <1>3, <1>4

\* Every step of a thread preserves the invariant.
LEMMA StepInv ==
  ASSUME Settled, Inv, NEW t \in Thread, Invoke(t) \/ Step(t)
  PROVE  Inv'
<1> USE DEF Inv
<1>0. /\ op[t] \in OpType /\ op[t].kind \in {"show", "store", "poke", "version"}
      /\ op[t].reg \in Reg /\ op[t].mask \in Word /\ op[t].val \in Word
      /\ op[t].masked \in BOOLEAN
      /\ op[t].kind = "version" => op[t].reg = FwReg /\ ~op[t].masked
      /\ op[t].kind \in {"store", "poke"} =>
            op[t].reg # FwReg /\ op[t].val \subseteq op[t].mask
      /\ op[t].kind = "store" => op[t].reg \notin Volatile
      /\ op[t].kind = "poke" => op[t].mask = Bit /\ ~op[t].masked
  BY RequestShape DEF OpOK, OpType
<1>a. TypeOK' /\ LockInv'
  <2>1. TypeOK'
    BY StepType
  <2>2. Excluded
    BY RequestShape DEF Excluded, VersionKnown, OpOK
  <2> QED
    BY <2>1, <2>2, StepExcludes DEF Excluded
<1>1. CASE Invoke(t)
  <2>1. PICK o \in Request : op' = [op EXCEPT ![t] = o]
    BY <1>1 DEF Invoke
  <2>2. o \in OpType
    BY RequestShape
  <2>3. VersionKnown' /\ FwRegOK'
    BY <1>1 DEF Invoke, Goto, TypeOK, LockInv, Critical, VersionKnown, FwRegOK
  <2>4. OpOK'
    BY <1>1, <2>1 DEF TypeOK, OpOK
  <2>5. (Framing /\ StageOK /\ ReadFresh /\ VersionBuf /\ WordOK)'
    BY <1>1, <2>1 DEF Invoke, Goto, TypeOK, Framing, StageOK, ReadFresh, VersionBuf, WordOK
  <2> QED
    BY <1>a, <2>3, <2>4, <2>5
<1>2. CASE LockTaken(t)
  <2>1. VersionKnown' /\ FwRegOK' /\ OpOK'
    BY <1>2, ConstAssumption
       DEF LockTaken, Goto, MutexFree, TypeOK, LockInv, Critical, VersionKnown, FwRegOK, OpOK
  <2>2. (Framing /\ StageOK /\ ReadFresh /\ VersionBuf)'
    BY <1>2, <1>0
       DEF LockTaken, Goto, NeedsRmw, TypeOK, Framing, StageOK, ReadFresh, VersionBuf
  <2>3. WordOK'
    BY <1>2, <1>0 DEF LockTaken, Goto, NeedsRmw, TypeOK, WordOK, Word
  <2> QED
    BY <1>a, <2>1, <2>2, <2>3
<1>3. CASE LockBusy(t)
  <2>1. VersionKnown' /\ FwRegOK' /\ OpOK'
    BY <1>3, <1>0, ConstAssumption
       DEF LockBusy, Goto, TypeOK, LockInv, Critical, VersionKnown, FwRegOK, OpOK
  <2>2. (Framing /\ StageOK /\ ReadFresh /\ VersionBuf /\ WordOK)'
    BY <1>3, <1>0
       DEF LockBusy, Goto, TypeOK, VersionKnown, Framing, StageOK, ReadFresh, VersionBuf,
           WordOK
  <2> QED
    BY <1>a, <2>1, <2>2
<1>4. CASE LockRefused(t)
  <2>1. VersionKnown' /\ FwRegOK' /\ OpOK'
    BY <1>4, <1>0, ConstAssumption
       DEF LockRefused, Goto, TypeOK, LockInv, Critical, VersionKnown, FwRegOK, OpOK, AfterBus, Admitted, MutexFree
  <2>2. (Framing /\ StageOK /\ ReadFresh /\ VersionBuf /\ WordOK)'
    BY <1>4, <1>0
       DEF LockRefused, Goto, TypeOK, VersionKnown, Framing, StageOK, ReadFresh, VersionBuf,
           WordOK, AfterBus
  <2> QED
    BY <1>a, <2>1, <2>2
<1>5. CASE Unlock(t)
  <2>1. VersionKnown' /\ FwRegOK' /\ OpOK'
    BY <1>5, <1>0, ConstAssumption
       DEF Unlock, Goto, TypeOK, LockInv, Critical, VersionKnown, FwRegOK, OpOK, AfterBus
  <2>2. (Framing /\ StageOK /\ ReadFresh /\ VersionBuf /\ WordOK)'
    BY <1>5, <1>0
       DEF Unlock, Goto, TypeOK, VersionKnown, Framing, StageOK, ReadFresh, VersionBuf,
           WordOK, AfterBus, LockInv, Critical
  <2> QED
    BY <1>a, <2>1, <2>2
<1>6. CASE ReadBegin(t)
  <2>1. VersionKnown' /\ FwRegOK' /\ OpOK'
    BY <1>6, <1>0, ConstAssumption
       DEF ReadBegin, Goto, TypeOK, LockInv, Critical, VersionKnown, FwRegOK, OpOK, Fail
  <2>2. (Framing /\ StageOK /\ ReadFresh /\ VersionBuf /\ WordOK)'
    BY <1>6, <1>0
       DEF ReadBegin, Goto, TypeOK, VersionKnown, Framing, StageOK, ReadFresh, VersionBuf,
           WordOK, Fail
  <2> QED
    BY <1>a, <2>1, <2>2
<1>7. CASE ReadAccepted(t)
  <2>1. VersionKnown' /\ FwRegOK' /\ OpOK'
    BY <1>7, <1>0, ConstAssumption
       DEF ReadAccepted, Goto, TypeOK, LockInv, Critical, VersionKnown, FwRegOK, OpOK
  <2>2. (Framing /\ StageOK /\ ReadFresh /\ VersionBuf /\ WordOK)'
    BY <1>7, <1>0
       DEF ReadAccepted, Goto, TypeOK, VersionKnown, Framing, StageOK, ReadFresh, VersionBuf,
           WordOK, Acceptable, Settled, FwRegOK
  <2> QED
    BY <1>a, <2>1, <2>2
<1>8. CASE ReadRejected(t)
  <2>1. VersionKnown' /\ FwRegOK' /\ OpOK'
    BY <1>8, <1>0, ConstAssumption
       DEF ReadRejected, Goto, TypeOK, LockInv, Critical, VersionKnown, FwRegOK, OpOK, Fail
  <2>2. (Framing /\ StageOK /\ ReadFresh /\ VersionBuf /\ WordOK)'
    BY <1>8, <1>0
       DEF ReadRejected, Goto, TypeOK, VersionKnown, Framing, StageOK, ReadFresh, VersionBuf,
           WordOK, Fail
  <2> QED
    BY <1>a, <2>1, <2>2
<1>9. CASE WriteBegin(t)
  <2>1. VersionKnown' /\ FwRegOK' /\ OpOK'
    BY <1>9, <1>0, ConstAssumption
       DEF WriteBegin, Goto, TypeOK, LockInv, Critical, VersionKnown, FwRegOK, OpOK, Fail
  <2>2. (Framing /\ StageOK /\ ReadFresh /\ VersionBuf /\ WordOK)'
    BY <1>9, <1>0
       DEF WriteBegin, Goto, TypeOK, VersionKnown, Framing, StageOK, ReadFresh, VersionBuf,
           WordOK, Fail
  <2> QED
    BY <1>a, <2>1, <2>2
<1>10. CASE ReadEnd(t)
  <2>1. Decoded(t) = buf[t]
    BY <1>10, ConstAssumption DEF ReadEnd, Decoded, VersionKnown, Framing
  <2>2. Merge(Decoded(t), op[t].mask, op[t].val) \in Received
    BY <2>1, <1>0 DEF TypeOK, Merge, Received, Word
  <2>3. VersionKnown' /\ FwRegOK' /\ OpOK'
    BY <1>10
       DEF ReadEnd, Goto, TypeOK, LockInv, Critical, VersionKnown, FwRegOK, OpOK
  <2>4. (Framing /\ StageOK /\ ReadFresh /\ VersionBuf)'
    BY <1>10, <1>0, <2>1
       DEF ReadEnd, Goto, TypeOK, Framing, StageOK, ReadFresh, VersionBuf
  <2>5. ASSUME NEW u \in Thread, pc'[u] \in {"wbegin", "send"}
        PROVE  /\ word'[u] \subseteq Bit
               /\ word'[u] \cap op'[u].mask = op'[u].val
               /\ ~op'[u].masked =>
                    word'[u] \ op'[u].mask = reg'[op'[u].reg] \ op'[u].mask
    <3>1. op' = op /\ reg' = reg
      BY <1>10 DEF ReadEnd
    <3>2. CASE u # t
      BY <1>10, <2>5, <3>1, <3>2 DEF ReadEnd, Goto, TypeOK, WordOK
    <3>3. CASE u = t
      <4>1. /\ stage[t] = "rmw"
            /\ word'[t] = Merge(Decoded(t), op[t].mask, op[t].val)
        BY <1>10, <2>5, <3>3 DEF ReadEnd, Goto, TypeOK
      <4>2. buf[t] = reg[op[t].reg] /\ op[t].kind = "store"
        BY <4>1, <1>10 DEF ReadEnd, ReadFresh, StageOK
      <4>3. reg[op[t].reg] \subseteq Bit
        BY <1>0 DEF TypeOK, Word
      <4>4. /\ Merge(reg[op[t].reg], op[t].mask, op[t].val) \subseteq Bit
            /\ Merge(reg[op[t].reg], op[t].mask, op[t].val) \cap op[t].mask = op[t].val
            /\ Merge(reg[op[t].reg], op[t].mask, op[t].val) \ op[t].mask
                 = reg[op[t].reg] \ op[t].mask
        BY <1>0, <4>2, <4>3 DEF Merge, Word
      <4> QED
        BY <3>1, <3>3, <2>1, <4>1, <4>2, <4>4
    <3> QED
      BY <3>2, <3>3
  <2>6. WordOK'
    BY <2>5 DEF WordOK
  <2> QED
    BY <1>a, <2>3, <2>4, <2>6
<1>11. CASE WriteAcked(t)
  <2>1. PICK v \in Landing(t) : reg' = [reg EXCEPT ![op[t].reg] = v]
    BY <1>11 DEF WriteAcked
  <2>2. reg' = [reg EXCEPT ![op[t].reg] = v] /\ SendEffect(t, v)
    BY <1>0, <1>11, <2>1, SendLands DEF WriteAcked
  <2>3. VersionKnown' /\ FwRegOK' /\ OpOK'
    BY <1>11, <1>0, <2>1, ConstAssumption
       DEF WriteAcked, Goto, TypeOK, LockInv, Critical, VersionKnown, FwRegOK, OpOK,
           StageOK
  <2>4. (Framing /\ StageOK /\ VersionBuf)'
    BY <1>11, <1>0
       DEF WriteAcked, Goto, TypeOK, Framing, StageOK, VersionBuf
  <2>5. (ReadFresh /\ WordOK)'
    BY <1>11, <2>2
       DEF WriteAcked, Goto, TypeOK, LockInv, Critical, ReadFresh, WordOK
  <2> QED
    BY <1>a, <2>3, <2>4, <2>5
<1>12. CASE WriteFailed(t)
  <2>1. PICK v \in Landing(t) : reg' = [reg EXCEPT ![op[t].reg] = v]
    BY <1>12 DEF WriteFailed
  <2>2. reg' = [reg EXCEPT ![op[t].reg] = v] /\ SendEffect(t, v)
    BY <1>0, <1>12, <2>1, SendLands DEF WriteFailed
  <2>3. VersionKnown' /\ FwRegOK' /\ OpOK'
    BY <1>12, <1>0, <2>1, ConstAssumption
       DEF WriteFailed, Fail, Goto, TypeOK, LockInv, Critical, VersionKnown, FwRegOK,
           OpOK, StageOK
  <2>4. (Framing /\ StageOK /\ VersionBuf)'
    BY <1>12, <1>0
       DEF WriteFailed, Fail, Goto, TypeOK, Framing, StageOK, VersionBuf
  <2>5. ASSUME NEW u \in Thread, pc'[u] = "end", stage'[u] = "rmw"
        PROVE  buf'[u] = reg'[op'[u].reg]
    <3>1. u # t /\ pc[u] = "end"
      BY <1>12, <2>5 DEF WriteFailed, Fail, Goto, TypeOK
    <3> QED
      BY <1>12, <3>1 DEF WriteFailed, LockInv, Critical
  <2>6. ASSUME NEW u \in Thread, pc'[u] \in {"wbegin", "send"}
        PROVE  /\ word'[u] \subseteq Bit
               /\ word'[u] \cap op'[u].mask = op'[u].val
               /\ ~op'[u].masked =>
                    word'[u] \ op'[u].mask = reg'[op'[u].reg] \ op'[u].mask
    <3>1. pc[u] \in {"wbegin", "send"} /\ op' = op /\ word' = word
      BY <1>12, <2>6 DEF WriteFailed, Fail, Goto, TypeOK
    <3>2. u = t
      BY <1>12, <3>1 DEF WriteFailed, LockInv, Critical
    <3> QED
      BY <3>1, <3>2, <2>2, <1>0 DEF WordOK, SendEffect, TypeOK
  <2>7. ReadFresh' /\ WordOK'
    BY <2>5, <2>6 DEF ReadFresh, WordOK
  <2> QED
    BY <1>a, <2>3, <2>4, <2>7
<1>13. CASE AssignVersion(t)
  <2>1. op[t].kind = "version"
    BY <1>13 DEF AssignVersion, StageOK
  <2>2. client' = client
    BY <1>13, <2>1 DEF AssignVersion
  <2>3. fwCrc' = fwCrc
    <3>1. CASE outcome[t] = "ok"
      <4>1. fwCrc' = (CrcBit \in buf[t])
        BY <1>13, <3>1, Zenon DEF AssignVersion
      <4>2. (CrcBit \in buf[t]) = McuCrc
        BY <1>13, <2>1, <3>1 DEF AssignVersion, VersionBuf
      <4>3. fwCrc = McuCrc
        BY DEF VersionKnown
      <4> QED
        BY <4>1, <4>2, <4>3, Zenon
    <3>2. CASE outcome[t] # "ok"
      BY <1>13, <3>2, Zenon DEF AssignVersion
    <3> QED
      BY <3>1, <3>2
  <2>4. VersionKnown' /\ FwRegOK' /\ OpOK'
    BY <1>13, <2>2, <2>3
       DEF AssignVersion, Goto, TypeOK, PC, LockInv, Critical, VersionKnown, FwRegOK, OpOK
  <2>5. (Framing /\ StageOK /\ ReadFresh /\ VersionBuf /\ WordOK)'
    BY <1>13
       DEF AssignVersion, Goto, TypeOK, Framing, StageOK, ReadFresh, VersionBuf, WordOK
  <2> QED
    BY <2>4, <2>5, <1>a
<1>14. CASE Return(t)
  <2>1. VersionCall \in Request /\ VersionCall \in OpType
    <3>1. VersionCall \in Request
      BY DEF Request
    <3> QED
      BY <3>1, RequestShape
  <2>2. VersionKnown' /\ FwRegOK' /\ OpOK'
    BY <1>14, <2>1
       DEF Return, Goto, TypeOK, LockInv, Critical, VersionKnown, FwRegOK, OpOK
  <2>3. (Framing /\ StageOK /\ ReadFresh /\ VersionBuf /\ WordOK)'
    BY <1>14, ZenonT(60) DEF Return, Goto, TypeOK, Framing, StageOK, ReadFresh, VersionBuf, WordOK
  <2> QED
    BY <1>a, <2>2, <2>3
<1> QED
  BY <1>1, <1>2, <1>3, <1>4, <1>5, <1>6, <1>7, <1>8, <1>9, <1>10, <1>11, <1>12,
     <1>13, <1>14 DEF Step

\* The MCU rewriting one of its own registers disturbs no call.
LEMMA McuInv ==
  ASSUME Settled, Inv, NEW r \in Reg, McuUpdate(r)
  PROVE  Inv'
<1> USE DEF Inv
<1>1. PICK v \in Word : reg' = [reg EXCEPT ![r] = v]
  BY DEF McuUpdate
<1>2. r \in Volatile /\ r # FwReg
  BY ConstAssumption DEF McuUpdate
<1>3. TypeOK' /\ LockInv' /\ VersionKnown' /\ OpOK' /\ FwRegOK'
  BY <1>1, <1>2, ConstAssumption
     DEF McuUpdate, TypeOK, LockInv, VersionKnown, OpOK, FwRegOK
<1>4. (Framing /\ StageOK /\ VersionBuf)'
  BY DEF McuUpdate, Framing, StageOK, VersionBuf
<1>5. ReadFresh'
  <2> SUFFICES ASSUME NEW t \in Thread, pc[t] = "end", stage[t] = "rmw"
               PROVE  buf[t] = reg'[op[t].reg]
    BY DEF McuUpdate, ReadFresh
  <2>1. op[t] \in Request /\ op[t].kind = "store"
    BY DEF OpOK, StageOK
  <2>2. op[t].reg \notin Volatile
    BY <2>1, RequestShape
  <2> QED
    BY <1>1, <1>2, <2>2 DEF ReadFresh, TypeOK
<1>6. WordOK'
  <2> SUFFICES ASSUME NEW t \in Thread, pc[t] \in {"wbegin", "send"}, ~op[t].masked
               PROVE  word[t] \ op[t].mask = reg'[op[t].reg] \ op[t].mask
    BY DEF McuUpdate, WordOK
  <2>1. CASE op[t].kind = "store"
    <3>1. op[t].reg \notin Volatile
      BY <2>1, RequestShape DEF OpOK
    <3> QED
      BY <1>1, <1>2, <3>1 DEF WordOK, TypeOK
  <2>2. CASE op[t].kind = "poke"
    <3>1. op[t].mask = Bit /\ op[t].reg \in Reg
      BY <2>2, RequestShape DEF OpOK, OpType
    <3>2. word[t] \subseteq Bit /\ reg'[op[t].reg] \subseteq Bit
      BY <1>3, <3>1 DEF WordOK, TypeOK, Word
    <3> QED
      BY <3>1, <3>2
  <2> QED
    BY <2>1, <2>2 DEF StageOK
<1> QED
  BY <1>3, <1>4, <1>5, <1>6

\* Inv is inductive; the bus core has nothing to probe while the client is set.
THEOREM Invariance == Spec /\ Settled => []Inv
<1>1. Inv /\ Settled /\ [Next]_vars => Inv'
  <2> SUFFICES ASSUME Inv, Settled, [Next]_vars PROVE Inv'
    OBVIOUS
  <2>1. CASE \E t \in Thread : Invoke(t) \/ Step(t)
    BY <2>1, StepInv
  <2>2. CASE \E t \in Thread : Probe(t)
    BY <2>2 DEF Probe, Inv, VersionKnown
  <2>3. CASE \E r \in Reg : McuUpdate(r)
    BY <2>3, McuInv
  <2>4. CASE UNCHANGED vars
    BY <2>4
       DEF vars, Inv, TypeOK, LockInv, VersionKnown, OpOK, FwRegOK, Framing, StageOK,
           ReadFresh, VersionBuf, WordOK
  <2> QED
    BY <2>1, <2>2, <2>3, <2>4 DEF Next
<1>2. Settled => []Settled
  <2>1. Settled => Settled'
    BY DEF Settled
  <2> QED
    BY <2>1, PTL
<1> QED
  BY <1>1, <1>2, InitInv, PTL DEF Spec

-----------------------------------------------------------------------------
\* The version every transfer relies on stays the chip's, whatever calls read
\* it again and whatever the bus makes of the answer.
THEOREM VersionStays == Spec /\ Settled => []VersionKnown
<1>1. Inv => VersionKnown
  BY DEF Inv
<1> QED
  BY <1>1, Invariance, PTL

\* write_segment never writes a word built on a stale read.
THEOREM FreshRmw == Spec /\ Settled => []RmwFresh
<1>1. Inv => RmwFresh
  BY DEF Inv, RmwFresh, WordOK
<1> QED
  BY <1>1, Invariance, PTL

\* A bit of a configuration register changes only by a call on a field that
\* has it, and to the value that call asked for.
THEOREM Isolation == Spec /\ Settled => FieldIsolation
<1>1. Inv /\ Settled /\ [Next]_vars => [IsolatedStep]_vars
  <2> SUFFICES ASSUME Inv, Settled, [Next]_vars,
                      NEW r \in Reg \ Volatile, NEW b \in Bit,
                      ~((b \in reg'[r]) <=> (b \in reg[r]))
               PROVE  \E t \in Thread : /\ pc[t] = "send"
                                        /\ op[t].reg = r
                                        /\ b \in op[t].mask
                                        /\ (b \in reg'[r]) <=> (b \in op[t].val)
    BY DEF IsolatedStep
  <2>1. reg' # reg
    OBVIOUS
  <2>2. ~ \E m \in Reg : McuUpdate(m)
    BY DEF McuUpdate, Inv, TypeOK
  <2>3. PICK t \in Thread : WriteAcked(t) \/ WriteFailed(t)
    BY <2>1, <2>2
       DEF Next, vars, Step, Invoke, Probe, LockTaken, LockBusy, LockRefused, Unlock,
           ReadBegin, ReadAccepted, ReadRejected, ReadEnd, WriteBegin, AssignVersion, Return
  <2>4. PICK v \in Landing(t) : reg' = [reg EXCEPT ![op[t].reg] = v]
    BY <2>3 DEF WriteAcked, WriteFailed
  <2>5. pc[t] = "send" /\ SendEffect(t, v)
    BY <2>3, <2>4, SendLands DEF WriteAcked, WriteFailed
  <2>6. op[t].reg = r /\ reg'[r] = v
    BY <2>4, <2>1 DEF Inv, TypeOK
  <2>7. b \in op[t].mask /\ ((b \in v) <=> (b \in op[t].val))
    BY <2>5, <2>6 DEF SendEffect
  <2> QED
    BY <2>5, <2>6, <2>7
<1>2. Settled => []Settled
  <2>1. Settled => Settled'
    BY DEF Settled
  <2> QED
    BY <2>1, PTL
<1>3. Spec /\ Settled => [][IsolatedStep]_vars
  BY <1>1, <1>2, Invariance, PTL DEF Spec
<1> QED
  BY <1>3 DEF FieldIsolation
=============================================================================
