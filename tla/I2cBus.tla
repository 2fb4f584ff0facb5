------------------------------- MODULE I2cBus -------------------------------
(***************************************************************************)
(* The MCU register access of src/module.c: the driver-wide mutex taken by *)
(* bounded trylock, the framed (CRC) or bare block transfers and their     *)
(* three attempts, the read-modify-write and read-back of a register       *)
(* field, and the cached firmware version every transfer consults.         *)
(*                                                                         *)
(* Threads are processes inside a sysfs show or store function, and the    *)
(* bus core probing the chip.  One action is one step between two points   *)
(* where another thread, the MCU or the bus may intervene: a trylock, one  *)
(* transfer, one test of the version outside the lock, the unlock.         *)
(*                                                                         *)
(* A register is the set of its bits that are 1.  The version register is  *)
(* reduced to the answer to "at least 1.4?" (bit CrcBit); the check byte   *)
(* is taken to detect every corruption.                                    *)
(***************************************************************************)
EXTENDS Integers

CONSTANTS
  Thread,      \* processes in the driver
  NoThread,    \* the mutex is free
  Prober,      \* the thread on which the bus core probes the chip
  Reg,         \* MCU registers
  Bit,         \* bits of a register, two bytes
  LowBit,      \* those of the first byte on the wire
  Tail,        \* stands for a third byte taken into the value
  FwReg,       \* the version register (1)
  CrcBit,      \* set in FwReg when the firmware is at least 1.4
  Volatile,    \* registers the MCU rewrites by itself
  Field,       \* fields that can be read: [reg, mask, masked]
  Writable,    \* those that can be stored
  RawReg,      \* registers written whole and not verified (5, mcu/i2c_write)
  LockTries,   \* trylock attempts (20)
  Retries,     \* transfer attempts (3)
  McuCrc,      \* the chip's firmware is at least 1.4
  Corruption,  \* the bus may alter a transfer
  Probed       \* the chip has been probed already, version read right

FieldType == [reg : Reg, mask : SUBSET Bit, masked : BOOLEAN]

ASSUME ConstAssumption ==
  /\ NoThread \notin Thread
  /\ FwReg \in Reg \ (Volatile \cup RawReg)
  /\ LowBit \subseteq Bit /\ CrcBit \in LowBit /\ Tail \notin Bit
  /\ Volatile \subseteq Reg /\ RawReg \subseteq Reg
  /\ Field \subseteq FieldType /\ Writable \subseteq Field
  /\ \A f \in Writable : f.reg \notin Volatile \cup {FwReg}
  /\ LockTries \in Nat \ {0} /\ Retries \in Nat \ {0}
  /\ McuCrc \in BOOLEAN /\ Corruption \in BOOLEAN /\ Probed \in BOOLEAN

Word == SUBSET Bit
Received == SUBSET (Bit \cup {Tail})

Kind == {"show", "store", "poke", "version", "probe"}
OpType == [kind : Kind, reg : Reg, mask : Word, masked : BOOLEAN, val : Word]

Call(kind, r, mask, masked, val) ==
  [kind |-> kind, reg |-> r, mask |-> mask, masked |-> masked, val |-> val]

VersionCall == Call("version", FwReg, Bit, FALSE, {})
ProbeCall == Call("probe", FwReg, Bit, FALSE, {})

\* The calls sysfs can make.  A stored value is cut to its field first:
\* (val & mask) << shift.
ShowCalls == {Call("show", f.reg, f.mask, f.masked, {}) : f \in Field}
StoreCalls == UNION {{Call("store", f.reg, f.mask, f.masked, v) :
                        v \in SUBSET f.mask} : f \in Writable}
PokeCalls == UNION {{Call("poke", r, Bit, FALSE, v) : v \in Word} : r \in RawReg}
Request == ShowCalls \cup StoreCalls \cup PokeCalls \cup {VersionCall}

VARIABLES
  reg,      \* the MCU's registers
  client,   \* ionopimax_i2c_client is set
  lock,     \* holder of update_lock
  fwCrc,    \* fwVerMajor > 1 || fwVerMinor >= 4
  pc,       \* where each thread is
  stage,    \* which read of the call is under way: "rmw", "verify", "fetch"
  op,       \* the call of each thread
  tries,    \* trylock or transfer attempts made
  framed,   \* the current transfer carries a check byte (len was incremented)
  word,     \* the value to write
  buf,      \* the value read
  outcome   \* what the call returns

threadVars == <<pc, stage, op, tries, framed, word, buf, outcome>>
vars == <<reg, client, lock, fwCrc, pc, stage, op, tries, framed, word, buf, outcome>>

PC == {"idle", "lock", "begin", "xfer", "end", "wbegin", "send", "unlock",
       "assign", "done"}
Critical == {"begin", "xfer", "end", "wbegin", "send", "unlock"}
Outcome == {"ok", "EBUSY", "EIO", "EPERM"}

Init ==
  /\ reg \in [Reg -> Word]
  /\ reg[FwReg] = IF McuCrc THEN {CrcBit} ELSE {}
  /\ client = Probed
  /\ lock = NoThread
  /\ fwCrc = (Probed /\ McuCrc)
  /\ pc = [t \in Thread |-> "idle"]
  /\ stage = [t \in Thread |-> "fetch"]
  /\ op = [t \in Thread |-> VersionCall]
  /\ tries = [t \in Thread |-> 0]
  /\ framed = [t \in Thread |-> FALSE]
  /\ word = [t \in Thread |-> {}]
  /\ buf = [t \in Thread |-> {}]
  /\ outcome = [t \in Thread |-> "ok"]

\* The larger of the two attempt bounds.
Bound == IF LockTries > Retries THEN LockTries ELSE Retries

Goto(t, label) == pc' = [pc EXCEPT ![t] = label]

-----------------------------------------------------------------------------
(* Entering and leaving the driver.                                        *)

Invoke(t) ==
  /\ pc[t] = "idle"
  /\ \E o \in Request : op' = [op EXCEPT ![t] = o]
  /\ Goto(t, "lock")
  /\ UNCHANGED <<reg, client, lock, fwCrc, stage, tries, framed, word, buf, outcome>>

\* ionopimax_i2c_probe: a new mutex, the client published, then the version.
Probe(t) ==
  /\ t = Prober
  /\ pc[t] = "idle"
  /\ ~client
  /\ client' = TRUE
  /\ lock' = NoThread
  /\ op' = [op EXCEPT ![t] = ProbeCall]
  /\ Goto(t, "lock")
  /\ UNCHANGED <<reg, fwCrc, stage, tries, framed, word, buf, outcome>>

\* Where a call goes once its bus work is over.
AfterBus(t) == IF op[t].kind \in {"version", "probe"} THEN "assign" ELSE "done"

\* getFwVersion after ionopimax_i2c_read has returned: the cached version is
\* assigned with no lock held; a failed probe withdraws the client.
AssignVersion(t) ==
  /\ pc[t] = "assign"
  /\ fwCrc' = IF outcome[t] = "ok" THEN CrcBit \in buf[t] ELSE fwCrc
  /\ client' = IF op[t].kind = "probe" /\ outcome[t] # "ok" THEN FALSE ELSE client
  /\ Goto(t, "done")
  /\ UNCHANGED <<reg, lock, stage, op, tries, framed, word, buf, outcome>>

Return(t) ==
  /\ pc[t] = "done"
  /\ Goto(t, "idle")
  /\ stage' = [stage EXCEPT ![t] = "fetch"]
  /\ op' = [op EXCEPT ![t] = VersionCall]
  /\ tries' = [tries EXCEPT ![t] = 0]
  /\ framed' = [framed EXCEPT ![t] = FALSE]
  /\ word' = [word EXCEPT ![t] = {}]
  /\ buf' = [buf EXCEPT ![t] = {}]
  /\ outcome' = [outcome EXCEPT ![t] = "ok"]
  /\ UNCHANGED <<reg, client, lock, fwCrc>>

-----------------------------------------------------------------------------
(* ionopimax_i2c_lock and ionopimax_i2c_unlock.                            *)

\* Mutant: callers no longer exclude each other.
NoMutex == TRUE

\* trylock fails while anybody holds the mutex.
MutexFree == lock = NoThread

\* Mutant: the other fields of the register are not read first.
NeverRmw(o) == FALSE

\* A store of a whole or a masked register needs no read first.
NeedsRmw(o) == o.kind = "store" /\ ~o.masked /\ o.mask # Bit

TrylockLeft(t) == tries[t] + 1 < LockTries

\* The client is looked at before the first attempt only.
Admitted(t) == client \/ tries[t] > 0

LockTaken(t) ==
  /\ pc[t] = "lock"
  /\ Admitted(t) /\ MutexFree
  /\ lock' = t
  /\ tries' = [tries EXCEPT ![t] = 0]
  /\ IF op[t].kind \in {"store", "poke"} /\ ~NeedsRmw(op[t])
       THEN Goto(t, "wbegin") ELSE Goto(t, "begin")
  /\ stage' = [stage EXCEPT ![t] = IF NeedsRmw(op[t]) THEN "rmw" ELSE "fetch"]
  /\ word' = [word EXCEPT ![t] = op[t].val]
  /\ UNCHANGED <<reg, client, fwCrc, op, framed, buf, outcome>>

\* Mutant: the attempts are not counted.
LockBusyForever(t) ==
  /\ pc[t] = "lock"
  /\ Admitted(t) /\ ~MutexFree
  /\ TrylockLeft(t)
  /\ UNCHANGED vars

LockBusy(t) ==
  /\ pc[t] = "lock"
  /\ Admitted(t) /\ ~MutexFree
  /\ TrylockLeft(t)
  /\ tries' = [tries EXCEPT ![t] = @ + 1]
  /\ UNCHANGED <<reg, client, lock, fwCrc, pc, stage, op, framed, word, buf, outcome>>

LockRefused(t) ==
  /\ pc[t] = "lock"
  /\ ~Admitted(t) \/ (~MutexFree /\ ~TrylockLeft(t))
  /\ outcome' = [outcome EXCEPT ![t] = "EBUSY"]
  /\ Goto(t, AfterBus(t))
  /\ UNCHANGED <<reg, client, lock, fwCrc, stage, op, tries, framed, word, buf>>

Unlock(t) ==
  /\ pc[t] = "unlock"
  /\ lock' = IF client THEN NoThread ELSE lock
  /\ Goto(t, AfterBus(t))
  /\ UNCHANGED <<reg, client, fwCrc, stage, op, tries, framed, word, buf, outcome>>

\* Mutant: a failed transfer returns without unlocking.
FailLocked(t, error) ==
  /\ outcome' = [outcome EXCEPT ![t] = error]
  /\ Goto(t, AfterBus(t))

\* Mutant: a failed transfer is begun again.
FailAgain(t, error) ==
  /\ outcome' = [outcome EXCEPT ![t] = error]
  /\ Goto(t, "begin")

\* The rest of the call is skipped.
Fail(t, error) ==
  /\ outcome' = [outcome EXCEPT ![t] = error]
  /\ Goto(t, "unlock")

-----------------------------------------------------------------------------
(* ionopimax_i2c_read_no_lock: the version is looked at once to size the   *)
(* transfer, once per attempt to check it and once more to strip the check *)
(* byte.                                                                   *)

ReadBegin(t) ==
  /\ pc[t] = "begin"
  /\ IF client
       THEN /\ framed' = [framed EXCEPT ![t] = fwCrc]
            /\ tries' = [tries EXCEPT ![t] = 0]
            /\ Goto(t, "xfer")
            /\ UNCHANGED outcome
       ELSE /\ Fail(t, "EIO")
            /\ UNCHANGED <<framed, tries>>
  /\ UNCHANGED <<reg, client, lock, fwCrc, stage, op, word, buf>>

\* Mutant: one attempt too many.
AttemptTooMany(t) == tries[t] + 1 <= Bound

\* for (i = 0; i < 3; i++)
AttemptLeft(t) == tries[t] + 1 < Retries

\* Mutant: the check byte is not compared.
AcceptAnything(t) ==
  IF framed[t] = fwCrc THEN Word ELSE {}

\* What one read may bring and have accepted.
Acceptable(t) ==
  IF fwCrc
    THEN IF framed[t] /\ McuCrc THEN {reg[op[t].reg]} ELSE {}
    ELSE IF Corruption THEN Word ELSE {reg[op[t].reg]}

ReadAccepted(t) ==
  /\ pc[t] = "xfer"
  /\ \E v \in Acceptable(t) : buf' = [buf EXCEPT ![t] = v]
  /\ Goto(t, "end")
  /\ UNCHANGED <<reg, client, lock, fwCrc, stage, op, tries, framed, word, outcome>>

ReadRejected(t) ==
  /\ pc[t] = "xfer"
  /\ IF AttemptLeft(t)
       THEN /\ tries' = [tries EXCEPT ![t] = @ + 1]
            /\ UNCHANGED <<pc, outcome>>
       ELSE /\ Fail(t, "EIO")
            /\ UNCHANGED tries
  /\ UNCHANGED <<reg, client, lock, fwCrc, stage, op, framed, word, buf>>

\* len-- takes back a len++ that may not have been made, or the reverse.
Decoded(t) ==
  CASE fwCrc /\ ~framed[t] -> buf[t] \cap LowBit
    [] ~fwCrc /\ framed[t] -> buf[t] \cup {Tail}
    [] OTHER -> buf[t]

\* The field of a word replaced by val, the other bits kept.
Merge(w, mask, val) == (w \ mask) \cup (val \cap mask)

\* Mutant: the value read back is not compared.
NotVerified(t, got) == TRUE

\* The value that was read back compared with the value that was written.
Verified(t, got) ==
  IF op[t].masked
    THEN got \cap op[t].mask = word[t] \cap op[t].mask
    ELSE got = word[t]

ReadEnd(t) ==
  /\ pc[t] = "end"
  /\ buf' = [buf EXCEPT ![t] = Decoded(t)]
  /\ \/ /\ stage[t] = "rmw"
        /\ word' = [word EXCEPT ![t] = Merge(Decoded(t), op[t].mask, op[t].val)]
        /\ Goto(t, "wbegin")
        /\ UNCHANGED outcome
     \/ /\ stage[t] = "verify"
        /\ outcome' = [outcome EXCEPT ![t] =
                         IF Verified(t, Decoded(t)) THEN "ok" ELSE "EPERM"]
        /\ Goto(t, "unlock")
        /\ UNCHANGED word
     \/ /\ stage[t] = "fetch"
        /\ Goto(t, "unlock")
        /\ UNCHANGED <<word, outcome>>
  /\ UNCHANGED <<reg, client, lock, fwCrc, stage, op, tries, framed>>

-----------------------------------------------------------------------------
(* ionopimax_i2c_write_no_lock.                                            *)

WriteBegin(t) ==
  /\ pc[t] = "wbegin"
  /\ IF client
       THEN /\ framed' = [framed EXCEPT ![t] = fwCrc]
            /\ tries' = [tries EXCEPT ![t] = 0]
            /\ Goto(t, "send")
            /\ UNCHANGED outcome
       ELSE /\ Fail(t, "EIO")
            /\ UNCHANGED <<framed, tries>>
  /\ UNCHANGED <<reg, client, lock, fwCrc, stage, op, word, buf>>

\* Mutant: the second byte of a masked register selects every bit.
WrittenWhole(t) == word[t] \cap Bit

\* What the MCU makes of the two bytes: a masked register takes the bits its
\* second byte selects, any other register takes the word.
Written(t) ==
  IF op[t].masked
    THEN Merge(reg[op[t].reg], op[t].mask, word[t])
    ELSE word[t] \cap Bit

\* What the register may hold after one attempt, acknowledged or not: the
\* MCU may have ignored it, and an unframed word may arrive altered.
Landing(t) ==
  {reg[op[t].reg], Written(t)}
    \cup IF Corruption /\ ~framed[t] THEN Word ELSE {}

WriteAcked(t) ==
  /\ pc[t] = "send"
  /\ \E v \in Landing(t) : reg' = [reg EXCEPT ![op[t].reg] = v]
  /\ IF op[t].kind = "store"
       THEN /\ stage' = [stage EXCEPT ![t] = "verify"]
            /\ Goto(t, "begin")
       ELSE /\ Goto(t, "unlock")
            /\ UNCHANGED stage
  /\ UNCHANGED <<client, lock, fwCrc, op, tries, framed, word, buf, outcome>>

WriteFailed(t) ==
  /\ pc[t] = "send"
  /\ \E v \in Landing(t) : reg' = [reg EXCEPT ![op[t].reg] = v]
  /\ IF AttemptLeft(t)
       THEN /\ tries' = [tries EXCEPT ![t] = @ + 1]
            /\ UNCHANGED <<pc, outcome>>
       ELSE /\ Fail(t, "EIO")
            /\ UNCHANGED tries
  /\ UNCHANGED <<client, lock, fwCrc, stage, op, framed, word, buf>>

-----------------------------------------------------------------------------
\* The MCU updates an input or a status register.
McuUpdate(r) ==
  /\ r \in Volatile
  /\ \E v \in Word : reg' = [reg EXCEPT ![r] = v]
  /\ UNCHANGED <<client, lock, fwCrc, pc, stage, op, tries, framed, word, buf, outcome>>

Step(t) ==
  \/ LockTaken(t) \/ LockBusy(t) \/ LockRefused(t) \/ Unlock(t)
  \/ ReadBegin(t) \/ ReadAccepted(t) \/ ReadRejected(t) \/ ReadEnd(t)
  \/ WriteBegin(t) \/ WriteAcked(t) \/ WriteFailed(t)
  \/ AssignVersion(t) \/ Return(t)

Next ==
  \/ \E t \in Thread : Invoke(t) \/ Probe(t) \/ Step(t)
  \/ \E r \in Reg : McuUpdate(r)

\* A process inside the driver keeps running: it sleeps for bounded times
\* and the bus adapter ends every transfer.  Nobody has to make a call.
Fairness == \A t \in Thread : WF_vars(Step(t))

Spec == Init /\ [][Next]_vars
FairSpec == Spec /\ Fairness

-----------------------------------------------------------------------------

\* The types, and no more attempts than the loops allow.
TypeOK ==
  /\ reg \in [Reg -> Word]
  /\ client \in BOOLEAN
  /\ lock \in Thread \cup {NoThread}
  /\ fwCrc \in BOOLEAN
  /\ pc \in [Thread -> PC]
  /\ stage \in [Thread -> {"rmw", "verify", "fetch"}]
  /\ op \in [Thread -> OpType]
  /\ tries \in [Thread -> 0 .. Bound - 1]
  /\ framed \in [Thread -> BOOLEAN]
  /\ word \in [Thread -> Received]
  /\ buf \in [Thread -> Received]
  /\ outcome \in [Thread -> Outcome]

\* The driver in normal operation: the version is known, and if the bus can
\* alter a transfer the firmware is one that detects it.
Settled == Probed /\ (Corruption => McuCrc)

\* Only the holder of update_lock is between a successful
\* ionopimax_i2c_lock and its ionopimax_i2c_unlock, and the mutex is never
\* left locked by a thread that has gone.
LockInv == \A t \in Thread : (lock = t) <=> (pc[t] \in Critical)

\* write_segment: when the word built from an earlier read is about to be
\* written, the bits outside the field are still those of the register, so
\* the write cannot undo another store that completed in between.
RmwFresh ==
  \A t \in Thread :
    (pc[t] \in {"wbegin", "send"} /\ op[t].kind = "store" /\ ~op[t].masked)
      => word[t] \ op[t].mask = reg[op[t].reg] \ op[t].mask

\* The version every transfer relies on is the one the chip has, whichever
\* calls have re-read it since.
VersionKnown == client /\ fwCrc = McuCrc

IsolatedStep ==
  \A r \in Reg \ Volatile, b \in Bit :
    (b \in reg'[r]) # (b \in reg[r])
      => \E t \in Thread : /\ pc[t] = "send"
                           /\ op[t].reg = r
                           /\ b \in op[t].mask
                           /\ (b \in reg'[r]) = (b \in op[t].val)

\* A step that changes a bit of a register the MCU does not change itself
\* is a step of a thread writing a field with that bit, and the bit takes
\* the value that thread asked for.
FieldIsolation == [][IsolatedStep]_vars

\* Every call returns, also when the chip is silent, the bus fails or the
\* other threads keep the mutex busy.
CallsReturn == \A t \in Thread : (pc[t] = "lock") ~> (pc[t] = "idle")

\* The steps between a thread and its return, attempts not counted.
StepsAfter == [lock |-> 12, wbegin |-> 8, send |-> 7, begin |-> 6, xfer |-> 5,
               end |-> 4, unlock |-> 3, assign |-> 2, done |-> 1, idle |-> 0]

\* The read of a read-modify-write has the write and the verification ahead.
StepsLeft(t) ==
  StepsAfter[pc[t]]
    + IF stage[t] = "rmw" /\ pc[t] \in {"begin", "xfer", "end"} THEN 5 ELSE 0

ThreadUnchanged(t) ==
  UNCHANGED <<pc[t], stage[t], op[t], tries[t], framed[t], word[t], buf[t], outcome[t]>>

AdvancingStep ==
  \A t \in Thread : pc[t] # "idle" =>
    \/ ThreadUnchanged(t)
    \/ StepsLeft(t)' < StepsLeft(t)
    \/ /\ StepsLeft(t)' = StepsLeft(t)
       /\ tries'[t] = tries[t] + 1 /\ tries'[t] < Bound

\* What makes calls return: a step of a call brings it closer to its end or
\* uses up one of its attempts, of which it has a limited number in each
\* place, and nothing that other calls, the probe, the MCU or the bus do
\* sets it back.
CallsAdvance == [][AdvancingStep]_vars

-----------------------------------------------------------------------------
(* The refinement: a call is decided when its last transfer is accepted,   *)
(* when it gives up, or when the mutex is refused.                         *)

Decided(t) == pc[t] \in {"unlock", "assign", "done"}
                \/ (pc[t] = "end" /\ stage[t] # "rmw")

BankPhase(t) ==
  IF pc[t] = "idle" THEN "idle" ELSE IF Decided(t) THEN "closed" ELSE "open"

BankOutcome(t) ==
  IF pc[t] = "end" /\ stage[t] = "verify" /\ ~Verified(t, Decoded(t))
    THEN "EPERM" ELSE outcome[t]

BankResult(t) ==
  IF Decided(t) /\ op[t].kind = "show" /\ outcome[t] = "ok"
    THEN buf[t] \cap op[t].mask ELSE {}

Bank == INSTANCE RegisterBank WITH
  Op <- Request \cup {ProbeCall}, IdleOp <- VersionCall,
  phase <- [t \in Thread |-> BankPhase(t)],
  outcome <- [t \in Thread |-> BankOutcome(t)],
  result <- [t \in Thread |-> BankResult(t)]

\* The attributes behave as a bank whose fields are updated one at a time:
\* calls that interleave on one register do not disturb each other, a store
\* that reports success is in the register, a show returns a value the
\* field had while the call was open.
BankSpec == Bank!BankSpec

\* README: "CRC validation is used when supported by the installed firmware
\* (>= 1.4)": once the probe is over and no call is in progress the driver
\* knows that the chip supports it.
CrcUsedWhenSupported ==
  (client /\ McuCrc /\ \A t \in Thread : pc[t] = "idle") => fwCrc
=============================================================================
