-------------------------- MODULE I2cBusRefinement --------------------------
(***************************************************************************)
(* I2cBus implements RegisterBank: for any number of threads, registers,   *)
(* fields and attempts, the calls of a driver in normal operation          *)
(* (Settled) are those of a bank whose fields change one at a time.        *)
(*                                                                         *)
(* A step of a thread moves the refined variables of that thread only      *)
(* (Moves, Mapped); what it does to them is a call of the bank or nothing  *)
(* (BankStays, BankCloses, BankUpdates).                                   *)
(***************************************************************************)
EXTENDS I2cBusProofs

Phases == [t \in Thread |-> BankPhase(t)]
Outcomes == [t \in Thread |-> BankOutcome(t)]
Results == [t \in Thread |-> BankResult(t)]

\* A call that goes on has not failed, and what is compared after a write is
\* what was asked for.
Linked == \A t \in Thread :
  /\ pc[t] \notin {"unlock", "assign", "done"} => outcome[t] = "ok"
  /\ (pc[t] \in {"begin", "xfer", "end"} /\ stage[t] = "verify")
       => word[t] \cap op[t].mask = op[t].val

Moves(t) ==
  /\ fwCrc' = fwCrc
  /\ \A u \in Thread \ {t} :
       /\ pc'[u] = pc[u] /\ stage'[u] = stage[u] /\ op'[u] = op[u]
       /\ framed'[u] = framed[u] /\ word'[u] = word[u] /\ buf'[u] = buf[u]
       /\ outcome'[u] = outcome[u]

-----------------------------------------------------------------------------
LEMMA MovesOne ==
  ASSUME Inv, Inv', NEW t \in Thread, Invoke(t) \/ Step(t)
  PROVE  Moves(t)
<1>1. TypeOK /\ fwCrc' = fwCrc
  BY DEF Inv, VersionKnown
<1>2. CASE Invoke(t) \/ LockTaken(t) \/ LockBusy(t) \/ LockRefused(t) \/ Unlock(t)
  BY <1>1, <1>2 DEF Moves, TypeOK, Invoke, LockTaken, LockBusy, LockRefused, Unlock, Goto
<1>3. CASE ReadBegin(t) \/ ReadAccepted(t) \/ ReadRejected(t) \/ ReadEnd(t)
  BY <1>1, <1>3 DEF Moves, TypeOK, ReadBegin, ReadAccepted, ReadRejected, ReadEnd, Fail, Goto
<1>4. CASE WriteBegin(t) \/ WriteAcked(t) \/ WriteFailed(t)
  BY <1>1, <1>4 DEF Moves, TypeOK, WriteBegin, WriteAcked, WriteFailed, Fail, Goto
<1>5. CASE AssignVersion(t) \/ Return(t)
  BY <1>1, <1>5 DEF Moves, TypeOK, AssignVersion, Return, Goto
<1> QED
  BY <1>2, <1>3, <1>4, <1>5 DEF Step

LEMMA LinkedStep ==
  ASSUME Inv, Inv', Linked, NEW t \in Thread, Invoke(t) \/ Step(t)
  PROVE  Linked'
<1>1. Moves(t)
  BY MovesOne
<1>2. SUFFICES /\ pc'[t] \notin {"unlock", "assign", "done"} => outcome'[t] = "ok"
               /\ (pc'[t] \in {"begin", "xfer", "end"} /\ stage'[t] = "verify")
                     => word'[t] \cap op'[t].mask = op'[t].val
  BY <1>1 DEF Linked, Moves
<1>3. TypeOK /\ WordOK /\ client
  BY DEF Inv, VersionKnown
<1>4. CASE Invoke(t) \/ LockTaken(t) \/ LockBusy(t) \/ LockRefused(t) \/ Unlock(t)
  BY <1>3, <1>4 DEF Linked, TypeOK, Invoke, LockTaken, LockBusy, LockRefused, Unlock, Goto, AfterBus
<1>5. CASE ReadBegin(t) \/ ReadAccepted(t) \/ ReadRejected(t) \/ ReadEnd(t)
  BY <1>3, <1>5 DEF Linked, TypeOK, ReadBegin, ReadAccepted, ReadRejected, ReadEnd, Fail, Goto
<1>6. CASE WriteBegin(t) \/ WriteAcked(t) \/ WriteFailed(t)
  BY <1>3, <1>6 DEF Linked, TypeOK, WordOK, WriteBegin, WriteAcked, WriteFailed, Fail, Goto
<1>7. CASE AssignVersion(t) \/ Return(t)
  BY <1>3, <1>7 DEF Linked, TypeOK, AssignVersion, Return, Goto
<1> QED
  BY <1>4, <1>5, <1>6, <1>7 DEF Step

-----------------------------------------------------------------------------
\* The refined variables follow the thread that moves.
LEMMA Mapped ==
  ASSUME NEW t \in Thread, Moves(t)
  PROVE  /\ Phases' = [Phases EXCEPT ![t] = BankPhase(t)']
         /\ Outcomes' = [Outcomes EXCEPT ![t] = BankOutcome(t)']
         /\ Results' = [Results EXCEPT ![t] = BankResult(t)']
<1>1. ASSUME NEW u \in Thread, u # t
      PROVE  /\ BankPhase(u)' = BankPhase(u) /\ BankOutcome(u)' = BankOutcome(u)
             /\ BankResult(u)' = BankResult(u)
  BY <1>1 DEF Moves, BankPhase, BankOutcome, BankResult, Decided, Verified, Decoded
<1> QED
  BY <1>1 DEF Phases, Outcomes, Results

LEMMA BankStays ==
  ASSUME NEW t \in Thread, Moves(t), reg' = reg, op' = op,
         BankPhase(t)' = BankPhase(t), BankOutcome(t)' = BankOutcome(t),
         BankResult(t)' = BankResult(t)
  PROVE  UNCHANGED Bank!bankVars
<1>1. Phases' = Phases /\ Outcomes' = Outcomes /\ Results' = Results
  BY Mapped DEF Phases, Outcomes, Results
<1> QED
  BY <1>1 DEF Bank!bankVars, Phases, Outcomes, Results

LEMMA BankCloses ==
  ASSUME NEW t \in Thread, Moves(t), reg' = reg, op' = op,
         BankPhase(t) = "open", BankPhase(t)' = "closed",
         BankOutcome(t)' \in Outcome,
         (op[t].kind = "store" /\ BankOutcome(t)' = "ok")
           => reg[op[t].reg] \cap op[t].mask = op[t].val,
         BankResult(t)' = IF op[t].kind = "show" /\ BankOutcome(t)' = "ok"
                            THEN reg[op[t].reg] \cap op[t].mask ELSE BankResult(t)
  PROVE  Bank!Close(t)
<1>1. Phases' = [Phases EXCEPT ![t] = "closed"] /\ Phases[t] = "open"
  BY Mapped DEF Phases
<1>2. Outcomes' = [Outcomes EXCEPT ![t] = BankOutcome(t)']
  BY Mapped
<1>3. Results' = IF op[t].kind = "show" /\ BankOutcome(t)' = "ok"
                   THEN [Results EXCEPT ![t] = reg[op[t].reg] \cap op[t].mask] ELSE Results
  BY Mapped DEF Results
<1>4. BankOutcome(t)' \in Bank!Error \cup {"ok"}
  BY DEF Outcome, Bank!Error
<1> QED
  BY <1>1, <1>2, <1>3, <1>4 DEF Bank!Close, Phases, Outcomes, Results

\* An attempt that has reached the register, while the call goes on or at its
\* end.
LEMMA BankUpdates ==
  ASSUME NEW t \in Thread, Moves(t), op' = op, op[t].kind \in {"store", "poke"},
         reg' = [reg EXCEPT ![op[t].reg] = Bank!Merge(@, op[t].mask, op[t].val)],
         BankPhase(t) = "open", BankResult(t)' = BankResult(t),
         \/ BankPhase(t)' = "open" /\ BankOutcome(t)' = BankOutcome(t)
         \/ /\ BankPhase(t)' = "closed"
            /\ BankOutcome(t)' \in IF op[t].kind = "poke" THEN {"ok", "EIO"} ELSE {"EIO"}
  PROVE  Bank!Update(t) \/ Bank!UpdateAndClose(t)
<1>1. Phases[t] = "open" /\ Phases' = [Phases EXCEPT ![t] = BankPhase(t)'] /\ Results' = Results
  BY Mapped DEF Phases, Results
<1>2. Outcomes' = [Outcomes EXCEPT ![t] = BankOutcome(t)']
  BY Mapped
<1>3. CASE BankPhase(t)' = "open" /\ BankOutcome(t)' = BankOutcome(t)
  <2>1. Phases' = Phases /\ Outcomes' = Outcomes
    BY <1>1, <1>2, <1>3 DEF Phases, Outcomes
  <2> QED
    BY <1>1, <2>1 DEF Bank!Update, Phases, Outcomes, Results
<1>4. CASE /\ BankPhase(t)' = "closed"
           /\ BankOutcome(t)' \in IF op[t].kind = "poke" THEN {"ok", "EIO"} ELSE {"EIO"}
  BY <1>1, <1>2, <1>4 DEF Bank!UpdateAndClose, Phases, Outcomes, Results
<1> QED
  BY <1>3, <1>4

-----------------------------------------------------------------------------
\* The initial bank.
LEMMA InitMaps ==
  ASSUME Init
  PROVE  Bank!BankInit /\ Linked
<1>1. Bank!BankInit
  BY DEF Init, Bank!BankInit, BankPhase, BankOutcome, BankResult, Decided, Word
<1>2. Linked
  BY DEF Init, Linked
<1> QED
  BY <1>1, <1>2

\* What a thread decodes is what it has read.
LEMMA DecodedIsRead ==
  ASSUME Inv, NEW t \in Thread, pc[t] = "end"
  PROVE  Decoded(t) = buf[t]
BY DEF Inv, Decoded, VersionKnown, Framing, TypeOK

BankStep(t) ==
  \/ \E o \in Request \cup {ProbeCall} : Bank!Open(t, o)
  \/ Bank!Update(t) \/ Bank!Close(t) \/ Bank!UpdateAndClose(t) \/ Bank!Reply(t)

\* Getting the lock, or not.
LEMMA LockMaps ==
  ASSUME Inv, Inv', Linked, NEW t \in Thread,
         Invoke(t) \/ LockTaken(t) \/ LockBusy(t) \/ LockRefused(t) \/ Unlock(t)
  PROVE  BankStep(t) \/ UNCHANGED Bank!bankVars
<1>1. Moves(t) /\ TypeOK
  BY MovesOne DEF Step, Inv
<1> USE DEF BankPhase, BankOutcome, BankResult, Decided
<1>2. CASE Invoke(t)
  <2>1. PICK o \in Request : op' = [op EXCEPT ![t] = o]
    BY <1>2 DEF Invoke
  <2>2. /\ pc[t] = "idle" /\ pc'[t] = "lock" /\ reg' = reg /\ outcome' = outcome
    BY <1>1, <1>2 DEF Invoke, Goto, TypeOK
  <2>3. /\ Phases[t] = "idle" /\ Phases' = [Phases EXCEPT ![t] = "open"]
        /\ Outcomes' = [Outcomes EXCEPT ![t] = outcome[t]] /\ Results' = [Results EXCEPT ![t] = {}]
    BY <1>1, <2>2, Mapped DEF Phases
  <2>4. Outcomes[t] = outcome[t] /\ Results[t] = {}
    BY <2>2 DEF Outcomes, Results
  <2>5. Outcomes' = Outcomes /\ Results' = Results
    BY <2>3, <2>4 DEF Outcomes, Results
  <2>6. Bank!Open(t, o)
    BY <2>1, <2>2, <2>3, <2>5 DEF Bank!Open, Phases, Outcomes, Results
  <2> QED
    BY <2>6 DEF BankStep
<1>3. CASE LockTaken(t) \/ LockBusy(t)
  <2>1. /\ pc[t] = "lock" /\ pc'[t] \in {"lock", "begin", "wbegin"}
        /\ reg' = reg /\ op' = op /\ outcome' = outcome
    BY <1>1, <1>3 DEF LockTaken, LockBusy, Goto, TypeOK
  <2> QED
    BY <1>1, <2>1, BankStays
<1>4. CASE LockRefused(t)
  <2>1. /\ pc[t] = "lock" /\ pc'[t] \in {"assign", "done"}
        /\ reg' = reg /\ op' = op /\ outcome'[t] = "EBUSY"
    BY <1>1, <1>4 DEF LockRefused, Goto, AfterBus, TypeOK
  <2>2. Bank!Close(t)
    BY <1>1, <2>1, BankCloses DEF Outcome
  <2> QED
    BY <2>2 DEF BankStep
<1>5. CASE Unlock(t)
  <2>1. /\ pc[t] = "unlock" /\ pc'[t] \in {"assign", "done"}
        /\ reg' = reg /\ op' = op /\ outcome' = outcome /\ buf' = buf
    BY <1>1, <1>5 DEF Unlock, Goto, AfterBus, TypeOK
  <2> QED
    BY <1>1, <2>1, BankStays
<1> QED
  BY <1>2, <1>3, <1>4, <1>5

\* A read: the bank's call closes when its transfer is accepted.
LEMMA ReadMaps ==
  ASSUME Settled, Inv, Inv', Linked, NEW t \in Thread,
         ReadBegin(t) \/ ReadAccepted(t) \/ ReadRejected(t) \/ ReadEnd(t)
  PROVE  BankStep(t) \/ UNCHANGED Bank!bankVars
<1>1. Moves(t) /\ TypeOK /\ client
  BY MovesOne DEF Step, Inv, VersionKnown
<1>2. CASE ReadBegin(t)
  <2>1. /\ pc[t] = "begin" /\ pc'[t] = "xfer" /\ reg' = reg /\ op' = op /\ outcome' = outcome
    BY <1>1, <1>2 DEF ReadBegin, Goto, TypeOK
  <2> QED
    BY <1>1, <2>1, BankStays DEF BankPhase, BankOutcome, BankResult, Decided
<1>3. CASE ReadAccepted(t)
  <2>1. /\ pc[t] = "xfer" /\ pc'[t] = "end" /\ reg' = reg /\ op' = op /\ outcome' = outcome
        /\ stage' = stage /\ word' = word /\ outcome[t] = "ok"
    BY <1>1, <1>3 DEF ReadAccepted, Goto, TypeOK, Linked
  <2>2. buf'[t] = reg[op[t].reg]
    BY <1>1, <1>3 DEF ReadAccepted, Acceptable, Inv, Settled, VersionKnown, Framing, TypeOK
  <2>3. CASE stage[t] = "rmw"
    BY <1>1, <2>1, <2>3, BankStays DEF BankPhase, BankOutcome, BankResult, Decided
  <2>4. CASE stage[t] # "rmw"
    <3>1. BankPhase(t) = "open" /\ BankPhase(t)' = "closed" /\ BankResult(t) = {}
      BY <2>1, <2>4 DEF BankPhase, BankResult, Decided
    <3>2. Decoded(t)' = buf'[t]
      BY <2>1, DecodedIsRead DEF Inv, Decoded, VersionKnown, Framing, TypeOK
    <3>3. BankOutcome(t)' = IF stage[t] = "verify" /\ ~Verified(t, Decoded(t))' THEN "EPERM" ELSE "ok"
      BY <2>1 DEF BankOutcome
    <3>4. BankResult(t)' = IF op[t].kind = "show" THEN reg[op[t].reg] \cap op[t].mask ELSE {}
      BY <2>1, <2>2, <2>4 DEF BankResult, Decided
    <3>5. stage[t] \in {"verify", "fetch"} /\ (op[t].kind = "store" <=> stage[t] = "verify")
      BY <2>1, <2>4 DEF Inv, TypeOK, StageOK
    <3>6. (op[t].kind = "store" /\ BankOutcome(t)' = "ok") => reg[op[t].reg] \cap op[t].mask = op[t].val
      <4> SUFFICES ASSUME stage[t] = "verify", Verified(t, Decoded(t))'
                   PROVE  reg[op[t].reg] \cap op[t].mask = op[t].val
        BY <3>3, <3>5
      <4>1. word[t] \cap op[t].mask = op[t].val
        BY <2>1 DEF Linked
      <4>2. reg[op[t].reg] \cap op[t].mask = word[t] \cap op[t].mask
        BY <2>1, <2>2, <3>2 DEF Verified
      <4> QED
        BY <4>1, <4>2
    <3>7. Bank!Close(t)
      <4>1. BankOutcome(t)' \in Outcome
        BY <3>3 DEF Outcome
      <4>2. op[t].kind = "show" => BankOutcome(t)' = "ok"
        BY <3>3, <3>5
      <4> QED
        BY <1>1, <2>1, <3>1, <3>4, <3>6, <4>1, <4>2, BankCloses
    <3> QED
      BY <3>7 DEF BankStep
  <2> QED
    BY <2>3, <2>4
<1>4. CASE ReadRejected(t)
  <2>1. /\ pc[t] = "xfer" /\ reg' = reg /\ op' = op
        /\ \/ pc' = pc /\ outcome' = outcome
           \/ pc'[t] = "unlock" /\ outcome'[t] = "EIO"
    BY <1>1, <1>4 DEF ReadRejected, Fail, Goto, TypeOK
  <2>2. CASE pc' = pc /\ outcome' = outcome
    BY <1>1, <2>1, <2>2, BankStays DEF BankPhase, BankOutcome, BankResult, Decided
  <2>3. CASE pc'[t] = "unlock" /\ outcome'[t] = "EIO"
    <3>1. Bank!Close(t)
      BY <1>1, <2>1, <2>3, BankCloses DEF BankPhase, BankOutcome, BankResult, Decided, Outcome
    <3> QED
      BY <3>1 DEF BankStep
  <2> QED
    BY <2>1, <2>2, <2>3
<1>5. CASE ReadEnd(t)
  <2>1. /\ pc[t] = "end" /\ reg' = reg /\ op' = op /\ stage' = stage
        /\ buf'[t] = buf[t] /\ outcome[t] = "ok"
    BY <1>1, <1>5, DecodedIsRead DEF ReadEnd, TypeOK, Linked
  <2>2. CASE stage[t] = "rmw"
    <3>1. pc'[t] = "wbegin" /\ outcome' = outcome
      BY <1>1, <1>5, <2>2 DEF ReadEnd, Goto, TypeOK
    <3> QED
      BY <1>1, <2>1, <2>2, <3>1, BankStays DEF BankPhase, BankOutcome, BankResult, Decided
  <2>3. CASE stage[t] = "verify"
    <3>1. pc'[t] = "unlock" /\ outcome'[t] = BankOutcome(t) /\ op[t].kind = "store"
      BY <1>1, <1>5, <2>1, <2>3 DEF ReadEnd, Goto, BankOutcome, TypeOK, Inv, StageOK
    <3>2. BankOutcome(t)' = outcome'[t]
      BY <3>1 DEF BankOutcome
    <3> QED
      BY <1>1, <2>1, <2>3, <3>1, <3>2, BankStays DEF BankPhase, BankResult, Decided
  <2>4. CASE stage[t] = "fetch"
    <3>1. pc'[t] = "unlock" /\ outcome' = outcome
      BY <1>1, <1>5, <2>4 DEF ReadEnd, Goto, TypeOK
    <3> QED
      BY <1>1, <2>1, <2>4, <3>1, BankStays DEF BankPhase, BankOutcome, BankResult, Decided
  <2> QED
    BY <1>1, <2>2, <2>3, <2>4 DEF TypeOK
<1> QED
  BY <1>2, <1>3, <1>4, <1>5

\* A write: each attempt that reaches the register is an update of the bank.
LEMMA WriteMaps ==
  ASSUME Settled, Inv, Inv', Linked, NEW t \in Thread,
         WriteBegin(t) \/ WriteAcked(t) \/ WriteFailed(t)
  PROVE  BankStep(t) \/ UNCHANGED Bank!bankVars
<1>1. Moves(t) /\ TypeOK /\ client
  BY MovesOne DEF Step, Inv, VersionKnown
<1>2. CASE WriteBegin(t)
  <2>1. /\ pc[t] = "wbegin" /\ pc'[t] = "send" /\ reg' = reg /\ op' = op /\ outcome' = outcome
    BY <1>1, <1>2 DEF WriteBegin, Goto, TypeOK
  <2> QED
    BY <1>1, <2>1, BankStays DEF BankPhase, BankOutcome, BankResult, Decided
<1>3. CASE WriteAcked(t) \/ WriteFailed(t)
  <2>1. /\ pc[t] = "send" /\ op' = op /\ outcome[t] = "ok" /\ op[t].kind \in {"store", "poke"}
    BY <1>1, <1>3 DEF WriteAcked, WriteFailed, Linked, Inv, StageOK
  <2>2. \/ reg' = reg
        \/ reg' = [reg EXCEPT ![op[t].reg] = Bank!Merge(@, op[t].mask, op[t].val)]
    <3>1. PICK v \in Landing(t) : reg' = [reg EXCEPT ![op[t].reg] = v]
      BY <1>3 DEF WriteAcked, WriteFailed
    <3>2. SendEffect(t, v)
      BY <2>1, <3>1, SendLands
    <3>3. op[t].val \subseteq op[t].mask
      BY <2>1, RequestShape DEF Inv, OpOK
    <3>4. v = reg[op[t].reg] \/ v = Bank!Merge(reg[op[t].reg], op[t].mask, op[t].val)
      BY <3>2, <3>3 DEF SendEffect, Bank!Merge
    <3> QED
      BY <1>1, <3>1, <3>4 DEF TypeOK
  <2>3. BankPhase(t) = "open" /\ BankOutcome(t) = "ok" /\ BankResult(t) = {}
    BY <2>1 DEF BankPhase, BankOutcome, BankResult, Decided
  <2>4. BankResult(t)' = {}
    BY <2>1 DEF BankResult
  <2>5. \/ BankPhase(t)' = "open" /\ BankOutcome(t)' = "ok"
        \/ BankPhase(t)' = "closed" /\ BankOutcome(t)' = "EIO"
        \/ BankPhase(t)' = "closed" /\ BankOutcome(t)' = "ok" /\ op[t].kind = "poke"
    <3>1. \/ pc'[t] \in {"begin", "send"} /\ outcome'[t] = "ok"
          \/ pc'[t] = "unlock" /\ outcome'[t] = "EIO"
          \/ pc'[t] = "unlock" /\ outcome'[t] = "ok" /\ op[t].kind = "poke"
      BY <1>1, <1>3, <2>1 DEF WriteAcked, WriteFailed, Fail, Goto, TypeOK
    <3> QED
      BY <3>1 DEF BankPhase, BankOutcome, Decided
  <2>6. CASE reg' = [reg EXCEPT ![op[t].reg] = Bank!Merge(@, op[t].mask, op[t].val)]
    <3>1. Bank!Update(t) \/ Bank!UpdateAndClose(t)
      BY <1>1, <2>1, <2>3, <2>4, <2>5, <2>6, BankUpdates
    <3> QED
      BY <3>1 DEF BankStep
  <2>7. CASE reg' = reg /\ BankPhase(t)' = "open"
    BY <1>1, <2>1, <2>3, <2>4, <2>5, <2>7, BankStays
  <2>8. CASE reg' = reg /\ BankPhase(t)' = "closed"
    <3>1. Bank!Close(t)
      BY <1>1, <2>1, <2>3, <2>4, <2>5, <2>8, BankCloses DEF Outcome
    <3> QED
      BY <3>1 DEF BankStep
  <2> QED
    BY <2>2, <2>5, <2>6, <2>7, <2>8
<1> QED
  BY <1>2, <1>3

\* Assigning the version and returning.
LEMMA ReturnMaps ==
  ASSUME Inv, Inv', Linked, NEW t \in Thread, AssignVersion(t) \/ Return(t)
  PROVE  BankStep(t) \/ UNCHANGED Bank!bankVars
<1>1. Moves(t) /\ TypeOK
  BY MovesOne DEF Step, Inv
<1>2. CASE AssignVersion(t)
  <2>1. /\ pc[t] = "assign" /\ pc'[t] = "done" /\ reg' = reg /\ op' = op /\ outcome' = outcome
        /\ buf' = buf
    BY <1>1, <1>2 DEF AssignVersion, Goto, TypeOK
  <2> QED
    BY <1>1, <2>1, BankStays DEF BankPhase, BankOutcome, BankResult, Decided
<1>3. CASE Return(t)
  <2>1. /\ pc[t] = "done" /\ pc'[t] = "idle" /\ reg' = reg /\ op' = [op EXCEPT ![t] = VersionCall]
        /\ outcome'[t] = "ok"
    BY <1>1, <1>3 DEF Return, Goto, TypeOK
  <2>2. BankPhase(t) = "closed" /\ BankPhase(t)' = "idle" /\ BankOutcome(t)' = "ok" /\ BankResult(t)' = {}
    BY <2>1 DEF BankPhase, BankOutcome, BankResult, Decided
  <2>3. /\ Phases[t] = "closed" /\ Phases' = [Phases EXCEPT ![t] = "idle"]
        /\ Outcomes' = [Outcomes EXCEPT ![t] = "ok"] /\ Results' = [Results EXCEPT ![t] = {}]
    BY <1>1, <2>2, Mapped DEF Phases
  <2>4. Bank!Reply(t)
    BY <2>1, <2>3 DEF Bank!Reply, Phases, Outcomes, Results
  <2> QED
    BY <2>4 DEF BankStep
<1> QED
  BY <1>2, <1>3

\* The MCU rewriting a register is the bank's drift.
LEMMA McuMaps ==
  ASSUME NEW r \in Reg, McuUpdate(r)
  PROVE  Bank!Drift(r) /\ (Linked => Linked')
<1>1. /\ UNCHANGED <<fwCrc, pc, stage, op, framed, word, buf, outcome>>
      /\ r \in Volatile /\ \E v \in SUBSET Bit : reg' = [reg EXCEPT ![r] = v]
  BY DEF McuUpdate, Word
<1>2. Phases' = Phases /\ Outcomes' = Outcomes /\ Results' = Results
  BY <1>1 DEF Phases, Outcomes, Results, BankPhase, BankOutcome, BankResult, Decided, Verified, Decoded
<1> QED
  BY <1>1, <1>2 DEF Bank!Drift, Phases, Outcomes, Results, Linked

\* Every step is a step of the bank or changes nothing there.
LEMMA StepMaps ==
  ASSUME Settled, Inv, Inv', Linked, [Next]_vars
  PROVE  [Bank!BankNext]_Bank!bankVars /\ Linked'
<1>1. CASE \E t \in Thread : Invoke(t) \/ Step(t)
  <2>1. PICK t \in Thread : Invoke(t) \/ Step(t)
    BY <1>1
  <2>2. BankStep(t) \/ UNCHANGED Bank!bankVars
    BY <2>1, LockMaps, ReadMaps, WriteMaps, ReturnMaps DEF Step
  <2>3. Linked'
    BY <2>1, LinkedStep
  <2> QED
    BY <2>2, <2>3 DEF BankStep, Bank!BankNext
<1>2. CASE \E t \in Thread : Probe(t)
  BY <1>2 DEF Probe, Inv, VersionKnown
<1>3. CASE \E r \in Reg : McuUpdate(r)
  BY <1>3, McuMaps DEF Bank!BankNext
<1>4. CASE UNCHANGED vars
  <2>1. UNCHANGED <<reg, fwCrc, pc, stage, op, framed, word, buf, outcome>>
    BY <1>4 DEF vars
  <2>2. Phases' = Phases /\ Outcomes' = Outcomes /\ Results' = Results
    BY <2>1 DEF Phases, Outcomes, Results, BankPhase, BankOutcome, BankResult, Decided, Verified, Decoded
  <2>3. Linked'
    BY <2>1 DEF Linked
  <2> QED
    BY <2>1, <2>2, <2>3 DEF Bank!bankVars, Phases, Outcomes, Results
<1> QED
  BY <1>1, <1>2, <1>3, <1>4 DEF Next

\* The calls of the driver are those of a bank of registers whose fields
\* change one at a time: a store that succeeds has its value in the register,
\* a show returns what its field was during the call, and no call touches
\* anything else, whatever the bus does.
THEOREM Implements == Spec /\ Settled => BankSpec
<1>1. Settled => []Settled
  <2>1. Settled => Settled'
    BY DEF Settled
  <2> QED
    BY <2>1, PTL
<1>2. Init => Bank!BankInit /\ Linked
  BY InitMaps
<1>3. Settled /\ Inv /\ Inv' /\ Linked /\ [Next]_vars => [Bank!BankNext]_Bank!bankVars /\ Linked'
  BY StepMaps
<1>4. Spec /\ Settled => Bank!BankInit /\ [][Bank!BankNext]_Bank!bankVars
  BY <1>1, <1>2, <1>3, Invariance, PTL DEF Spec
<1> QED
  BY <1>4 DEF BankSpec, Bank!BankSpec
=============================================================================
