----------------------------- MODULE Attributes -----------------------------
(***************************************************************************)
(* The show and store functions of the I2C attributes of src/module.c over *)
(* the tables of AttrTables: texts converted to values, values cut to      *)
(* their field, fields packed into registers that several attributes, and  *)
(* several devices, share.                                                 *)
(*                                                                         *)
(* The bus is the bank of fields I2cBus implements: each field write is    *)
(* one step here.  A call that makes two writes holds no lock between      *)
(* them: other stores come in between, to the same attribute too, and it   *)
(* may fail at either.  A behaviour is about one group of registers; no    *)
(* attribute has bits in two groups.                                       *)
(*                                                                         *)
(* What the MCU does with its registers by itself is external, and taken   *)
(* from the README: it reports the state of its outputs and their faults,  *)
(* and it stores 1 to watchdog/sd_switch while the watchdog is not always  *)
(* enabled.                                                                *)
(***************************************************************************)
EXTENDS AttrTables

CONSTANTS
  Groups,      \* sets of registers
  Contents,    \* words the registers of a group may hold at the start
  Unexpected,  \* numbers no document lists, stored all the same
  Stored,      \* the attributes that are stored to
  Firmware,    \* values of fwDisable to consider
  MaxOpen      \* stores that are between two writes at a time

ASSUME StoredAssumption ==
  /\ Stored \subseteq Attrs /\ Firmware \subseteq BOOLEAN /\ MaxOpen \in Nat
  /\ Contents \subseteq SUBSET Word16

VARIABLES
  group,      \* the registers of this behaviour
  fwDisable,  \* fwVerMajor > 1 || fwVerMinor >= 3
  regs,       \* contents of the registers
  open,       \* the stores between two writes: [attr, rest (the writes left)]
  last        \* history: the texts each attribute may show, of the stores that
              \* overlapped when it was last stored to

vars == <<group, fwDisable, regs, open, last>>

\* The attributes in a group of registers.  (An analog input is disabled by
\* its bit in the register that follows the one with its mode.)
AttrsOf(g) ==
  {a \in Attrs :
     LET e == Specs(a)
     IN  {e.reg, e.storeReg} \cup (IF e.codec = "ax" THEN {e.reg + 1} ELSE {}) \subseteq g}

-----------------------------------------------------------------------------
(* Reading.                                                                *)

\* (res >> shift) & mask
Segment(word, mask, shift) == {i \in mask : i + shift \in word}

SignExtended(bits, width) ==
  IF (width - 1) \in bits THEN NumOf(bits) - 2^width ELSE NumOf(bits)

\* devAttrI2c_show
ShowPlain(e, r) ==
  LET bits == Segment(r[e.reg], e.mask, e.shift)
      n == NumOf(bits)
  IN  IF e.vals = Digits
        THEN IF e.sign THEN SignExtended(bits, Cardinality(e.mask)) ELSE n
        ELSE IF n >= Len(e.vals) THEN "EFAULT" ELSE e.vals[n + 1]

\* devAttrAxMode_show
ShowAxMode(e, r) ==
  IF fwDisable /\ Segment(r[e.reg + 1], e.mask, e.shift - 4) = {} THEN "0"
    ELSE IF Segment(r[e.reg], e.mask, e.shift) = {} THEN "U" ELSE "B"

\* devAttrSdEnabled_show: SDX is at shift 0, SD1 at shift 1.
ShowSdEnabled(e, r) ==
  LET bits == Segment(r[e.reg], e.mask, e.shift)
  IN  IF 8 \notin bits THEN NumOf(bits)
        ELSE IF e.shift = 0 THEN IF 0 \in bits THEN 1 ELSE 2
                            ELSE IF 0 \in bits THEN 2 ELSE 0

\* devAttrUpsBatteryV_show
ShowBatteryV(e, r) == IF ShowPlain(e, r) = 1 THEN 24000 ELSE 12000

\* Register code of each baud rate and parity.
BaudRate == <<0, 1200, 2400, 4800, 9600, 19200, 38400, 57600, 115200>>
Parity == <<"N", "O", "E">>

\* devAttrSerialRs232Rs485Inv_show; -22 is EINVAL.
ShowSerialInv(e, r) ==
  LET word == r[e.reg]
      baud == NumOf(Segment(word, Ones(4), 8))
      parity == NumOf(Segment(word, Ones(2), 12))
  IN  CASE 0 \notin word -> <<0>>
        [] 0 \in word /\ 1 \notin word -> <<1>>
        [] OTHER ->
             IF baud \in 2 .. 9 /\ parity \in 0 .. 2
               THEN <<BaudRate[baud], IF 14 \in word THEN 8 ELSE 7, Parity[parity + 1],
                      IF 15 \in word THEN 2 ELSE 1>>
               ELSE <<-22>>

\* Every mode of an analog input is in two registers, anything else in one.
ShowSingle(e, r) ==
  CASE e.codec = "plain" -> ShowPlain(e, r)
    [] e.codec = "sd" -> ShowSdEnabled(e, r)
    [] e.codec = "batteryV" -> ShowBatteryV(e, r)
    [] e.codec = "serial" -> ShowSerialInv(e, r)

Show(a, r) ==
  LET e == Specs(a)
  IN  IF e.codec = "ax" THEN ShowAxMode(e, r) ELSE ShowSingle(e, r)

\* An output has a bit for its state and one for its fault.
Healthy(a, r) ==
  LET e == Specs(a)
  IN  IF e.masked THEN [r EXCEPT ![e.reg] = @ \ {e.shift + 1}] ELSE r

\* What an attribute shows, the fault of an output left out: F, a fault while
\* open, is 0 and S, a fault while closed, is 1.
State(a, r) == Show(a, Healthy(a, r))

-----------------------------------------------------------------------------
(* Writing: the field writes a store makes, none when the text is refused. *)

Write(r, mask, shift, value) ==
  [reg |-> r, mask |-> mask, shift |-> shift, value |-> value]

\* (uint16_t) val, for a number that is not negative.
StorePlain(e, v) ==
  IF e.storeVals = Digits
    THEN IF v < 0 THEN <<>>
           ELSE <<Write(e.storeReg, e.storeMask, e.storeShift, BitsOf(v % 2^16))>>
    ELSE LET found == {i \in DOMAIN e.storeVals : e.storeVals[i] = v}
         IN  IF found = {} THEN <<>>
               ELSE <<Write(e.storeReg, e.storeMask, e.storeShift, BitsOf(Min(found) - 1))>>

\* Mutant: the enable bit is left as it is.
StoreAxModeOnly(e, v) ==
  IF v = "0" THEN <<>>
    ELSE <<Write(e.reg, e.mask, e.shift, IF v = "B" THEN {0} ELSE {})>>

\* devAttrAxMode_store: first the enable bit, then the mode.
StoreAxMode(e, v) ==
  LET enable(bit) == Write(e.reg + 1, e.mask, e.shift - 4, bit)
      mode == Write(e.reg, e.mask, e.shift, IF v = "B" THEN {0} ELSE {})
  IN  IF fwDisable
        THEN IF v = "0" THEN <<enable({})>> ELSE <<enable({0}), mode>>
        ELSE IF v = "0" THEN <<>> ELSE <<mode>>

\* devAttrSdEnabled_store
StoreSdEnabled(e, v) ==
  IF v \notin 0 .. 2 THEN <<>>
    ELSE <<Write(e.storeReg, e.storeMask, e.storeShift,
                 IF v = 2 THEN IF e.storeShift = 0 THEN {8} ELSE {0, 8}
                          ELSE BitsOf(v))>>

\* devAttrUpsBatteryV_store
StoreBatteryV(e, v) ==
  IF v \notin {12000, 24000} THEN <<>> ELSE StorePlain(e, IF v = 24000 THEN 1 ELSE 0)

\* devAttrSerialRs232Rs485Inv_store
StoreSerialInv(e, v) ==
  IF Len(v) = 1 THEN StorePlain(e, v[1])
    ELSE LET baud == CHOOSE i \in DOMAIN BaudRate : BaudRate[i] = v[1]
             parity == CHOOSE i \in DOMAIN Parity : Parity[i] = v[3]
         IN  StorePlain(e, 3 + 2^8 * baud + (IF v[2] = 8 THEN 2^14 ELSE 0)
                             + 2^12 * (parity - 1) + (IF v[4] = 2 THEN 2^15 ELSE 0))

StoreSingle(e, v) ==
  CASE e.codec = "plain" -> StorePlain(e, v)
    [] e.codec = "sd" -> StoreSdEnabled(e, v)
    [] e.codec = "batteryV" -> StoreBatteryV(e, v)
    [] e.codec = "serial" -> StoreSerialInv(e, v)

Writes(a, v) ==
  LET e == Specs(a)
  IN  IF e.codec = "ax" THEN StoreAxMode(e, v) ELSE StoreSingle(e, v)

\* Mutant: the value is shifted and not cut to its field.
FieldValueUncut(w) == {i + w.shift : i \in w.value}

\* val = (val & mask) << shift
FieldValue(w) == {i + w.shift : i \in w.value \cap w.mask}
FieldBits(w) == {i + w.shift : i \in w.mask}

\* The MCU reports an output it switches in the status register that follows,
\* without a fault: that comes later, if it does (Fault).
Reported(a, r) ==
  LET e == Specs(a)
  IN  IF ~e.masked THEN r
        ELSE [r EXCEPT ![e.reg] =
                (@ \ {i + e.shift : i \in e.mask})
                  \cup (IF e.storeShift \in r[e.storeReg] THEN {e.shift} ELSE {})]

\* Mutant: the word is not cut to two bytes, and the value not to its field.
WrittenLong(r, w) ==
  [r EXCEPT ![w.reg] = (@ \ FieldBits(w)) \cup {i + w.shift : i \in w.value}]

\* ionopimax_i2c_write_segment: a word of two bytes.
Written(r, w) ==
  [r EXCEPT ![w.reg] = Word16 \cap ((@ \ FieldBits(w)) \cup FieldValue(w))]

Land(r, a, w) == Reported(a, Written(r, w))

-----------------------------------------------------------------------------
(* What the tables of the driver have to be, for stores and shows to       *)
(* agree.  They are constants: each fact is a finite one.                  *)

Writable(a) == Specs(a).documented # ReadOnly

\* The bits that an attribute is kept in: <<register, bit>>.
Cells(a) ==
  LET e == Specs(a)
      field(reg, mask, shift) == {reg} \X {i + shift : i \in mask}
  IN  field(e.reg, e.mask, e.shift)
        \cup field(e.storeReg, e.storeMask, e.storeShift)
        \cup IF e.codec = "ax" THEN field(e.reg + 1, e.mask, e.shift - 4) ELSE {}

\* No attribute is kept where a store to another one writes.
ASSUME CellsDisjoint ==
  \A a, b \in Attrs : a # b /\ Writable(a) => Cells(a) \cap Cells(b) = {}

\* A store writes what the show reads, or the one bit whose state it reads.
ASSUME EntriesFit ==
  \A a \in Attrs :
    LET e == Specs(a)
    IN  /\ e.codec \in {"plain", "ax", "sd", "batteryV", "serial"}
        /\ e.codec = "ax" => /\ e.mask = {0} /\ e.documented = {"0", "U", "B"}
                             /\ ~e.masked
        /\ e.codec = "serial" => e.mask = Word16 /\ e.shift = 0
        /\ e.masked => Writable(a)
        /\ e.reg \in Nat /\ e.shift \in Nat /\ e.mask \subseteq Nat
        /\ Writable(a) =>
             /\ \A c \in Cells(a) : c[2] \in Word16
             /\ IF e.masked THEN e.storeMask = {0} /\ e.storeReg # e.reg /\ {0, 1} \subseteq e.mask
                            /\ e.storeShift \in Nat
                ELSE e.storeReg = e.reg /\ e.storeMask = e.mask /\ e.storeShift = e.shift

\* Registers that hold nothing but a documented text give it back.
ASSUME RoundTrip ==
  \A a \in Attrs : Specs(a).codec # "ax" =>
    LET e == Specs(a)
        blank == [reg \in {e.reg, e.storeReg} |-> {}]
    IN  \A v \in e.documented :
          /\ StoreSingle(e, v) # <<>>
          /\ ShowSingle(e, Land(blank, a, Head(StoreSingle(e, v)))) = v

-----------------------------------------------------------------------------
Init ==
  /\ group \in Groups
  /\ fwDisable \in Firmware
  /\ regs \in [group -> Contents]
  /\ open = {}
  /\ last = [a \in AttrsOf(group) |-> {State(a, regs)}]

EnableMode == <<"watchdog", "enable_mode">>
SdSwitch == <<"watchdog", "sd_switch">>

\* The numbers a store is tried with besides the documented texts.
Texts(a) ==
  LET e == Specs(a)
  IN  IF ~Writable(a) THEN {}
        ELSE e.documented
               \cup IF e.codec = "plain" /\ e.storeVals = Digits THEN Unexpected ELSE {}

\* The number the MCU stores is one of them.
ASSUME SwitchFits ==
  SdSwitch \in Attrs /\ Specs(SdSwitch).codec = "plain" /\ 1 \in Specs(SdSwitch).documented

InStore(a) == \E c \in open : c.attr = a

\* The text a store of v leaves: a number that is not documented is cut to the
\* field, and the attribute shows what that leaves.
Left(a, v, r) == IF v \in Specs(a).documented THEN v ELSE State(a, r)

\* The first write of a store, or its only one.
Store(a, v, ws) ==
  /\ regs' = Land(regs, a, Head(ws))
  /\ IF Len(ws) = 1 THEN UNCHANGED open
       ELSE /\ Cardinality(open) < MaxOpen
            /\ open' = open \cup {[attr |-> a, rest |-> Tail(ws)]}
  /\ last' = [last EXCEPT ![a] =
                (IF InStore(a) THEN @ ELSE {}) \cup {Left(a, v, regs')}]
  /\ UNCHANGED <<group, fwDisable>>

\* The second write of devAttrAxMode_store.
StoreGoesOn(c) ==
  /\ regs' = Land(regs, c.attr, Head(c.rest))
  /\ open' = open \ {c}
  /\ UNCHANGED <<group, fwDisable, last>>

\* A write that fails has reached the MCU or it has not.  When it is the only
\* one, the store has been made, or nothing has changed: both are steps above.
\* An analog mode is left with whatever it shows when the stores to it are
\* over.
ModeLost(a) ==
  last' = [last EXCEPT ![a] =
             IF \E c \in open' : c.attr = a THEN @ \cup Specs(a).documented
                                            ELSE {State(a, regs')}]

\* The first write of devAttrAxMode_store reaches the MCU, and fails.
StoreFails(a, ws) ==
  /\ Specs(a).codec = "ax"
  /\ regs' = Land(regs, a, Head(ws))
  /\ UNCHANGED <<group, fwDisable, open>>
  /\ ModeLost(a)

\* The second one fails, and may have reached it too.
StoreGoesOnFails(c) ==
  /\ regs' \in {regs, Land(regs, c.attr, Head(c.rest))}
  /\ open' = open \ {c}
  /\ ModeLost(c.attr)
  /\ UNCHANGED <<group, fwDisable>>

\* The MCU finds a fault of an output, or finds it gone.
Fault(a) ==
  LET e == Specs(a)
  IN  /\ e.masked
      /\ regs' = [regs EXCEPT ![e.reg] = SymDiff(@, {e.shift + 1})]
      /\ UNCHANGED <<group, fwDisable, open, last>>

\* With watchdog/enable_mode set to D the MCU sets sd_switch to 1.
SwitchSet ==
  /\ {EnableMode, SdSwitch} \subseteq DOMAIN last
  /\ Show(EnableMode, regs) = "D"
  /\ Store(SdSwitch, 1, Writes(SdSwitch, 1))

Next ==
  \/ \E a \in DOMAIN last \cap Stored : \E v \in Texts(a) :
       LET ws == Writes(a, v)
       IN  ws # <<>> /\ (Store(a, v, ws) \/ StoreFails(a, ws))
  \/ \E c \in open : StoreGoesOn(c) \/ StoreGoesOnFails(c)
  \/ \E a \in DOMAIN last : Fault(a)
  \/ SwitchSet

Spec == Init /\ [][Next]_vars

-----------------------------------------------------------------------------
TypeOK ==
  /\ group \in Groups /\ fwDisable \in Firmware
  /\ DOMAIN last = AttrsOf(group)
  /\ regs \in [group -> SUBSET (0 .. 23)]
  /\ \A a \in DOMAIN last : Writable(a) => regs[Specs(a).storeReg] \subseteq Word16
  /\ \A c \in open : c.attr \in DOMAIN last /\ Len(c.rest) = 1

\* Every attribute shows the documented text that was last stored to it, by a
\* process or, for sd_switch, by the MCU itself; an output shows that text or
\* the fault of that state.  Whatever has been stored since, successfully or
\* not, to the attributes that share its register: no text is read back as
\* another one and no store reaches a bit that is not its own.  When stores to
\* it have overlapped, it shows the text of one of them, never a mixture of
\* two.  (Of an analog mode whose store has failed half way nothing is said,
\* until the next store to it: it shows the mode it had.)
ShownAsStored == \A a \in DOMAIN last : InStore(a) \/ State(a, regs) \in last[a]
=============================================================================
