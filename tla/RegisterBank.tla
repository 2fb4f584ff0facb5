---------------------------- MODULE RegisterBank ----------------------------
(***************************************************************************)
(* What the I2C attributes of module.c promise to the processes that read  *)
(* and write the sysfs files, whatever the bus does: a bank of registers   *)
(* whose fields are updated one field at a time.                           *)
(*                                                                         *)
(* A register is the set of its bits that are 1.  A call is open from its  *)
(* invocation to the moment its fate is decided, and closed until it       *)
(* returns.  Only an open call touches the bank, and it touches its own    *)
(* field only; a call that closes with "ok" has its value in the bank at   *)
(* that moment; a call that closes with an error promises nothing about    *)
(* its own field and still nothing else has been touched.                  *)
(***************************************************************************)
CONSTANTS
  Thread,    \* processes in a sysfs show or store function
  Reg,       \* MCU registers
  Bit,       \* bits of a register
  Volatile,  \* registers the MCU rewrites by itself (inputs, status)
  Op,        \* calls
  IdleOp     \* placeholder for the call of an idle thread

Error == {"EBUSY", "EIO", "EPERM"}

VARIABLES
  reg,      \* contents of the registers
  op,       \* the call of each thread
  phase,    \* "idle", "open" or "closed"
  outcome,  \* how the call closed
  result    \* the field a call that reads closed with

bankVars == <<reg, op, phase, outcome, result>>

\* The field of a word replaced by val, the other bits kept.
Merge(word, mask, val) == (word \ mask) \cup (val \cap mask)

BankInit ==
  /\ reg \in [Reg -> SUBSET Bit]
  /\ op = [t \in Thread |-> IdleOp]
  /\ phase = [t \in Thread |-> "idle"]
  /\ outcome = [t \in Thread |-> "ok"]
  /\ result = [t \in Thread |-> {}]

Open(t, o) ==
  /\ phase[t] = "idle"
  /\ phase' = [phase EXCEPT ![t] = "open"]
  /\ op' = [op EXCEPT ![t] = o]
  /\ UNCHANGED <<reg, outcome, result>>

Update(t) ==
  /\ phase[t] = "open"
  /\ op[t].kind \in {"store", "poke"}
  /\ reg' = [reg EXCEPT ![op[t].reg] = Merge(@, op[t].mask, op[t].val)]
  /\ UNCHANGED <<op, phase, outcome, result>>

Close(t) ==
  /\ phase[t] = "open"
  /\ phase' = [phase EXCEPT ![t] = "closed"]
  /\ \E o \in Error \cup {"ok"} :
       /\ outcome' = [outcome EXCEPT ![t] = o]
       /\ (op[t].kind = "store" /\ o = "ok")
            => reg[op[t].reg] \cap op[t].mask = op[t].val
       /\ IF op[t].kind = "show" /\ o = "ok"
            THEN result' = [result EXCEPT ![t] = reg[op[t].reg] \cap op[t].mask]
            ELSE UNCHANGED result
  /\ UNCHANGED <<reg, op>>

\* A write that is not verified is decided by the transfer that carries it.
UpdateAndClose(t) ==
  /\ phase[t] = "open"
  /\ op[t].kind \in {"store", "poke"}
  /\ reg' = [reg EXCEPT ![op[t].reg] = Merge(@, op[t].mask, op[t].val)]
  /\ phase' = [phase EXCEPT ![t] = "closed"]
  /\ \E o \in IF op[t].kind = "poke" THEN {"ok", "EIO"} ELSE {"EIO"} :
       outcome' = [outcome EXCEPT ![t] = o]
  /\ UNCHANGED <<op, result>>

Reply(t) ==
  /\ phase[t] = "closed"
  /\ phase' = [phase EXCEPT ![t] = "idle"]
  /\ op' = [op EXCEPT ![t] = IdleOp]
  /\ outcome' = [outcome EXCEPT ![t] = "ok"]
  /\ result' = [result EXCEPT ![t] = {}]
  /\ UNCHANGED reg

Drift(r) ==
  /\ r \in Volatile
  /\ \E v \in SUBSET Bit : reg' = [reg EXCEPT ![r] = v]
  /\ UNCHANGED <<op, phase, outcome, result>>

BankNext ==
  \/ \E t \in Thread :
       \/ \E o \in Op : Open(t, o)
       \/ Update(t) \/ Close(t) \/ UpdateAndClose(t) \/ Reply(t)
  \/ \E r \in Reg : Drift(r)

BankSpec == BankInit /\ [][BankNext]_bankVars
=============================================================================
