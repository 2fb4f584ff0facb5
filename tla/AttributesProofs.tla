-------------------------- MODULE AttributesProofs --------------------------
(***************************************************************************)
(* Theorems about Attributes, for any groups of registers, any contents    *)
(* they start with, any numbers stored and any number of stores that       *)
(* overlap.  What has to be known of the tables are the four facts that    *)
(* Attributes assumes of them and TLC evaluates.  The rest is about the    *)
(* order of things: stores to neighbours, two writes with others between   *)
(* them, failures.                                                         *)
(***************************************************************************)
EXTENDS Attributes, TLAPS

\* The two writes of devAttrAxMode_store.
EnableWrite(e, bit) == Write(e.reg + 1, e.mask, e.shift - 4, bit)
ModeWrite(e, v) == Write(e.reg, e.mask, e.shift, IF v = "B" THEN {0} ELSE {})

\* A store that is open is that of a mode, with the mode still to be written.
\* Its input may be shown as disabled only if that was stored meanwhile.
ModeOpen(c) ==
  LET e == Specs(c.attr)
  IN  /\ fwDisable /\ e.codec = "ax"
      /\ \E v \in {"U", "B"} \cap last[c.attr] : c.rest = <<ModeWrite(e, v)>>
      /\ Segment(regs[e.reg + 1], e.mask, e.shift - 4) = {} => "0" \in last[c.attr]

Own(a) ==
  /\ InStore(a) \/ State(a, regs) \in last[a]
  /\ \A c \in open : c.attr = a => ModeOpen(c)

Bounded == regs \in [group -> SUBSET Word16]

IInv ==
  /\ group \in Groups /\ fwDisable \in Firmware
  /\ DOMAIN last = AttrsOf(group)
  /\ Bounded
  /\ \A c \in open : c.attr \in DOMAIN last
  /\ \A a \in DOMAIN last : Own(a)

-----------------------------------------------------------------------------
(* Facts about one entry.                                                  *)

LEMMA EntryFacts ==
  ASSUME NEW a \in Attrs
  PROVE  LET e == Specs(a)
         IN  /\ e.codec \in {"plain", "ax", "sd", "batteryV", "serial"}
             /\ e.codec = "ax" => e.mask = {0} /\ e.documented = {"0", "U", "B"} /\ ~e.masked
             /\ e.codec = "serial" => e.mask = Word16 /\ e.shift = 0
             /\ e.masked => Writable(a)
             /\ e.reg \in Nat /\ e.shift \in Nat /\ e.mask \subseteq Nat
             /\ Writable(a) =>
                  /\ \A c \in Cells(a) : c[2] \in Word16
                  /\ e.masked => /\ e.storeMask = {0} /\ e.storeReg # e.reg /\ {0, 1} \subseteq e.mask
                                 /\ e.storeShift \in Nat
                  /\ ~e.masked => /\ e.storeReg = e.reg /\ e.storeMask = e.mask
                                  /\ e.storeShift = e.shift
BY EntriesFit

LEMMA CellFacts ==
  ASSUME NEW a \in Attrs
  PROVE  LET e == Specs(a)
         IN  /\ \A i \in e.mask : <<e.reg, i + e.shift>> \in Cells(a)
             /\ \A i \in e.storeMask : <<e.storeReg, i + e.storeShift>> \in Cells(a)
             /\ e.codec = "ax" => \A i \in e.mask : <<e.reg + 1, i + (e.shift - 4)>> \in Cells(a)
BY DEF Cells

\* The registers of an attribute are in its group.
LEMMA CellsInGroup ==
  ASSUME NEW g, NEW a \in AttrsOf(g)
  PROVE  /\ a \in Attrs /\ Specs(a).reg \in g /\ Specs(a).storeReg \in g
         /\ Specs(a).codec = "ax" => Specs(a).reg + 1 \in g
         /\ \A c \in Cells(a) : c = <<c[1], c[2]>> /\ c[1] \in g
<1>1. /\ a \in Attrs /\ Specs(a).reg \in g /\ Specs(a).storeReg \in g
      /\ Specs(a).codec = "ax" => Specs(a).reg + 1 \in g
  BY DEF AttrsOf
<1> QED
  BY <1>1 DEF Cells

-----------------------------------------------------------------------------
(* A show depends on the bits of its attribute only.                       *)

Alike(a, r, s) == \A c \in Cells(a) : c[2] \in r[c[1]] <=> c[2] \in s[c[1]]

LEMMA SegmentAlike ==
  ASSUME NEW x, NEW y, NEW mask, NEW shift, \A i \in mask : i + shift \in x <=> i + shift \in y
  PROVE  Segment(x, mask, shift) = Segment(y, mask, shift)
BY DEF Segment

LEMMA SingleAlike ==
  ASSUME NEW a \in Attrs, Specs(a).codec # "ax", NEW r, NEW s,
         \A i \in Specs(a).mask : i + Specs(a).shift \in r[Specs(a).reg]
                                    <=> i + Specs(a).shift \in s[Specs(a).reg]
  PROVE  ShowSingle(Specs(a), r) = ShowSingle(Specs(a), s)
<1> DEFINE e == Specs(a)
<1>1. Segment(r[e.reg], e.mask, e.shift) = Segment(s[e.reg], e.mask, e.shift)
  BY SegmentAlike
<1>2. ShowPlain(e, r) = ShowPlain(e, s)
  BY <1>1, Zenon DEF ShowPlain
<1>3. ShowSdEnabled(e, r) = ShowSdEnabled(e, s)
  BY <1>1, Zenon DEF ShowSdEnabled
<1>4. ShowBatteryV(e, r) = ShowBatteryV(e, s)
  BY <1>2 DEF ShowBatteryV
<1>5. ASSUME e.codec = "serial" PROVE ShowSerialInv(e, r) = ShowSerialInv(e, s)
  <2>1. \A i \in Word16 : i \in r[e.reg] <=> i \in s[e.reg]
    BY <1>5, EntryFacts DEF Word16
  <2>2. /\ Segment(r[e.reg], Ones(4), 8) = Segment(s[e.reg], Ones(4), 8)
        /\ Segment(r[e.reg], Ones(2), 12) = Segment(s[e.reg], Ones(2), 12)
    BY <2>1 DEF Segment, Ones, Word16
  <2>3. \A i \in {0, 1, 14, 15} : i \in r[e.reg] <=> i \in s[e.reg]
    BY <2>1 DEF Word16
  <2> QED
    BY <2>2, <2>3, Zenon DEF ShowSerialInv
<1> QED
  BY <1>2, <1>3, <1>4, <1>5, EntryFacts DEF ShowSingle

LEMMA ShowAlike ==
  ASSUME NEW a \in Attrs, NEW r, NEW s, Alike(a, r, s)
  PROVE  Show(a, r) = Show(a, s)
<1> DEFINE e == Specs(a)
<1>1. \A i \in e.mask : i + e.shift \in r[e.reg] <=> i + e.shift \in s[e.reg]
  BY CellFacts DEF Alike
<1>2. CASE e.codec # "ax"
  BY <1>1, <1>2, SingleAlike DEF Show
<1>3. CASE e.codec = "ax"
  <2>1. \A i \in e.mask : i + (e.shift - 4) \in r[e.reg + 1] <=> i + (e.shift - 4) \in s[e.reg + 1]
    BY <1>3, CellFacts DEF Alike
  <2>2. /\ Segment(r[e.reg], e.mask, e.shift) = Segment(s[e.reg], e.mask, e.shift)
        /\ Segment(r[e.reg + 1], e.mask, e.shift - 4) = Segment(s[e.reg + 1], e.mask, e.shift - 4)
    BY <1>1, <2>1, SegmentAlike
  <2> QED
    BY <1>3, <2>2, Zenon DEF Show, ShowAxMode
<1> QED
  BY <1>2, <1>3

\* Nor does what it shows without the fault.
LEMMA StateAlike ==
  ASSUME NEW g, NEW a \in AttrsOf(g), NEW r \in [g -> SUBSET Word16],
         NEW s \in [g -> SUBSET Word16], Alike(a, r, s)
  PROVE  State(a, r) = State(a, s)
<1> DEFINE e == Specs(a)
<1> USE CellsInGroup
<1>1. CASE ~e.masked
  <2>1. Healthy(a, r) = r /\ Healthy(a, s) = s
    BY <1>1, Zenon DEF Healthy
  <2> QED
    BY <2>1, ShowAlike DEF State
<1>2. CASE e.masked
  <2>1. /\ Healthy(a, r) = [r EXCEPT ![e.reg] = @ \ {e.shift + 1}]
        /\ Healthy(a, s) = [s EXCEPT ![e.reg] = @ \ {e.shift + 1}]
    BY <1>2 DEF Healthy
  <2>2. ASSUME NEW c \in Cells(a)
        PROVE  c[2] \in Healthy(a, r)[c[1]] <=> c[2] \in Healthy(a, s)[c[1]]
    <3>1. c[2] \in r[c[1]] <=> c[2] \in s[c[1]]
      BY DEF Alike
    <3>2. CASE c[1] = e.reg
      BY <2>1, <3>1, <3>2
    <3>3. CASE c[1] # e.reg
      BY <2>1, <3>1, <3>3
    <3> QED
      BY <3>2, <3>3
  <2>3. Alike(a, Healthy(a, r), Healthy(a, s))
    BY <2>2 DEF Alike
  <2> QED
    BY <2>3, ShowAlike DEF State
<1> QED
  BY <1>1, <1>2

-----------------------------------------------------------------------------
(* What a write changes.                                                   *)

LEMMA LandTypes ==
  ASSUME NEW D, NEW r \in [D -> SUBSET Word16], NEW a \in Attrs, NEW w,
         Writable(a)
  PROVE  /\ Written(r, w) \in [D -> SUBSET Word16]
         /\ Land(r, a, w) \in [D -> SUBSET Word16]
<1> DEFINE e == Specs(a)
           s == Written(r, w)
<1>1. s \in [D -> SUBSET Word16]
  BY DEF Written
<1>2. CASE ~e.masked
  BY <1>1, <1>2 DEF Land, Reported
<1>3. CASE e.masked
  <2>1. e.shift \in Word16
    <3>1. 0 \in e.mask /\ e.shift \in Nat /\ \A c \in Cells(a) : c[2] \in Word16
      BY <1>3, EntryFacts
    <3>2. <<e.reg, 0 + e.shift>> \in Cells(a)
      BY <3>1, CellFacts
    <3>3. 0 + e.shift \in Word16
      BY <3>1, <3>2
    <3> QED
      BY <3>1, <3>3
  <2> DEFINE field == (s[e.reg] \ {i + e.shift : i \in e.mask})
                        \cup (IF e.storeShift \in s[e.storeReg] THEN {e.shift} ELSE {})
  <2>2. Land(r, a, w) = [s EXCEPT ![e.reg] = field]
    BY <1>3, Zenon DEF Land, Reported
  <2>3. e.reg \in D => field \subseteq Word16
    BY <1>1, <2>1
  <2> HIDE DEF field
  <2> QED
    BY <1>1, <2>2, <2>3
<1> QED
  BY <1>1, <1>2, <1>3

\* A write to an attribute's own bits leaves the other attributes alone.
LEMMA LandOthers ==
  ASSUME NEW g, NEW r \in [g -> SUBSET Word16], NEW a \in AttrsOf(g), NEW b \in AttrsOf(g),
         a # b, Writable(a), NEW w, \A i \in w.mask : <<w.reg, i + w.shift>> \in Cells(a)
  PROVE  Alike(b, r, Land(r, a, w))
<1> DEFINE e == Specs(a)
           s == Written(r, w)
<1>1. a \in Attrs /\ b \in Attrs
  BY CellsInGroup
<1> SUFFICES ASSUME NEW c \in Cells(b)
             PROVE  c[2] \in r[c[1]] <=> c[2] \in Land(r, a, w)[c[1]]
  BY DEF Alike
<1>2. c = <<c[1], c[2]>> /\ c[1] \in g
  BY CellsInGroup
<1>3. c \notin Cells(a)
  BY <1>1, CellsDisjoint
<1>4. s \in [g -> SUBSET Word16]
  BY <1>1, LandTypes
<1>5. c[2] \in r[c[1]] <=> c[2] \in s[c[1]]
  <2>1. CASE c[1] # w.reg
    BY <1>2, <2>1 DEF Written
  <2>2. CASE c[1] = w.reg
    <3>1. c[2] \notin FieldBits(w) /\ c[2] \notin FieldValue(w)
      BY <1>2, <1>3, <2>2 DEF FieldBits, FieldValue
    <3>2. s[c[1]] = Word16 \cap ((r[c[1]] \ FieldBits(w)) \cup FieldValue(w))
      BY <1>2, <2>2 DEF Written
    <3>3. r[c[1]] \subseteq Word16
      BY <1>2
    <3> QED
      BY <3>1, <3>2, <3>3
  <2> QED
    BY <2>1, <2>2
<1>6. CASE ~e.masked
  BY <1>5, <1>6 DEF Land, Reported
<1>7. CASE e.masked
  <2> DEFINE state == IF e.storeShift \in s[e.storeReg] THEN {e.shift} ELSE {}
  <2>1. Land(r, a, w) = [s EXCEPT ![e.reg] = (@ \ {i + e.shift : i \in e.mask}) \cup state]
    BY <1>7, Zenon DEF Land, Reported
  <2>2. CASE c[1] # e.reg
    <3> HIDE DEF state
    <3> QED
      BY <1>2, <1>4, <1>5, <2>1, <2>2
  <2>3. CASE c[1] = e.reg
    <3>1. \A i \in e.mask : c[2] # i + e.shift
      BY <1>1, <1>2, <1>3, <2>3, CellFacts
    <3>2. c[2] # e.shift
      <4>1. 0 \in e.mask /\ 0 + e.shift = e.shift
        BY <1>1, <1>7, EntryFacts
      <4> QED
        BY <3>1, <4>1
    <3>3. c[2] \notin state
      BY <3>2
    <3>4. Land(r, a, w)[c[1]] = (s[c[1]] \ {i + e.shift : i \in e.mask}) \cup state
      <4> HIDE DEF state
      <4> QED
        BY <1>2, <1>4, <2>1, <2>3
    <3> HIDE DEF state
    <3> QED
      BY <1>5, <3>1, <3>3, <3>4
  <2> QED
    BY <2>2, <2>3
<1> QED
  BY <1>6, <1>7

\* A store that has been made is reported without a fault.
LEMMA StateLand ==
  ASSUME NEW g, NEW r \in [g -> SUBSET Word16], NEW a \in AttrsOf(g), Writable(a), NEW w
  PROVE  State(a, Land(r, a, w)) = Show(a, Land(r, a, w))
<1> DEFINE e == Specs(a)
           s == Written(r, w)
           t == Land(r, a, w)
<1>1. a \in Attrs /\ e.reg \in g
  BY CellsInGroup
<1>2. CASE ~e.masked
  BY <1>2, Zenon DEF State, Healthy
<1>3. CASE e.masked
  <2>1. s \in [g -> SUBSET Word16] /\ t \in [g -> SUBSET Word16]
    BY <1>1, LandTypes
  <2> DEFINE bits == {i + e.shift : i \in e.mask}
             state == IF e.storeShift \in s[e.storeReg] THEN {e.shift} ELSE {}
  <2>2. t = [s EXCEPT ![e.reg] = (@ \ bits) \cup state]
    BY <1>3, Zenon DEF Land, Reported
  <2>3. e.shift + 1 \in bits /\ e.shift + 1 \notin state
    <3>1. 1 \in e.mask /\ e.shift \in Nat
      BY <1>1, <1>3, EntryFacts
    <3>2. 1 + e.shift = e.shift + 1
      BY <3>1
    <3>3. 1 + e.shift \in bits
      BY <3>1
    <3> QED
      BY <3>1, <3>2, <3>3
  <2> HIDE DEF bits, state
  <2>4. e.shift + 1 \notin t[e.reg]
    BY <1>1, <2>1, <2>2, <2>3
  <2> HIDE DEF t
  <2>5. [t EXCEPT ![e.reg] = @ \ {e.shift + 1}] = t
    BY <2>1, <2>4
  <2>6. Healthy(a, t) = t
    BY <1>3, <2>5, Zenon DEF Healthy
  <2> QED
    BY <2>6 DEF State, t
<1> QED
  BY <1>2, <1>3

LEMMA StateUnmasked ==
  ASSUME NEW a, ~Specs(a).masked, NEW r
  PROVE  State(a, r) = Show(a, r)
BY Zenon DEF State, Healthy

-----------------------------------------------------------------------------
(* The writes of a store.                                                  *)

LEMMA PlainWrites ==
  ASSUME NEW e, NEW v
  PROVE  \/ StorePlain(e, v) = <<>>
         \/ \E x : StorePlain(e, v) = <<Write(e.storeReg, e.storeMask, e.storeShift, x)>>
BY Zenon DEF StorePlain

\* Every store but that of an analog mode makes one write, to its field.
LEMMA SingleWrites ==
  ASSUME NEW e, NEW v, e.codec \in {"plain", "sd", "batteryV", "serial"}
  PROVE  \/ StoreSingle(e, v) = <<>>
         \/ \E x : StoreSingle(e, v) = <<Write(e.storeReg, e.storeMask, e.storeShift, x)>>
<1>1. CASE e.codec = "plain"
  BY <1>1, PlainWrites DEF StoreSingle
<1>2. CASE e.codec = "sd"
  <2>1. StoreSingle(e, v) = StoreSdEnabled(e, v)
    BY <1>2 DEF StoreSingle
  <2> QED
    BY <2>1, Zenon DEF StoreSdEnabled
<1>3. CASE e.codec = "batteryV"
  <2>1. StoreSingle(e, v) = StoreBatteryV(e, v)
    BY <1>3 DEF StoreSingle
  <2>2. StoreBatteryV(e, v) = <<>> \/ \E n : StoreBatteryV(e, v) = StorePlain(e, n)
    BY DEF StoreBatteryV
  <2> QED
    BY <2>1, <2>2, PlainWrites
<1>4. CASE e.codec = "serial"
  <2>1. StoreSingle(e, v) = StoreSerialInv(e, v)
    BY <1>4 DEF StoreSingle
  <2>2. \E n : StoreSerialInv(e, v) = StorePlain(e, n)
    BY Zenon DEF StoreSerialInv
  <2> QED
    BY <2>1, <2>2, PlainWrites
<1> QED
  BY <1>1, <1>2, <1>3, <1>4

LEMMA TextFacts ==
  ASSUME NEW a \in Attrs, NEW v \in Texts(a)
  PROVE  /\ Writable(a)
         /\ Specs(a).codec = "ax" => v \in {"0", "U", "B"}
BY EntryFacts DEF Texts

\* The writes of a store: to the field, or to the enable bit and the mode.
LEMMA WriteFacts ==
  ASSUME NEW a \in Attrs, NEW v \in Texts(a), NEW ws, ws = Writes(a, v), ws # <<>>
  PROVE  LET e == Specs(a)
         IN  /\ e.codec # "ax" =>
                  /\ ws = StoreSingle(e, v)
                  /\ \E x : ws = <<Write(e.storeReg, e.storeMask, e.storeShift, x)>>
             /\ e.codec = "ax" =>
                  \/ fwDisable /\ v = "0" /\ ws = <<EnableWrite(e, {})>>
                  \/ fwDisable /\ v \in {"U", "B"} /\ ws = <<EnableWrite(e, {0}), ModeWrite(e, v)>>
                  \/ ~fwDisable /\ v \in {"U", "B"} /\ ws = <<ModeWrite(e, v)>>
<1>1. CASE Specs(a).codec # "ax"
  <2>1. ws = StoreSingle(Specs(a), v)
    BY <1>1 DEF Writes
  <2> QED
    BY <1>1, <2>1, SingleWrites, EntryFacts
<1>2. CASE Specs(a).codec = "ax"
  <2>1. ws = StoreAxMode(Specs(a), v) /\ v \in {"0", "U", "B"}
    BY <1>2, TextFacts DEF Writes
  <2> QED
    BY <1>2, <2>1 DEF StoreAxMode, EnableWrite, ModeWrite
<1> QED
  BY <1>1, <1>2

\* No write of a store leaves the bits of its attribute.
LEMMA WritesOwn ==
  ASSUME NEW a \in Attrs, NEW v \in Texts(a), NEW ws, ws = Writes(a, v), ws # <<>>
  PROVE  \A i \in Head(ws).mask : <<Head(ws).reg, i + Head(ws).shift>> \in Cells(a)
<1> DEFINE e == Specs(a)
<1>1. CASE e.codec # "ax"
  <2>1. \E x : ws = <<Write(e.storeReg, e.storeMask, e.storeShift, x)>>
    BY <1>1, WriteFacts, Zenon
  <2>2. PICK x : Head(ws) = Write(e.storeReg, e.storeMask, e.storeShift, x)
    BY <2>1
  <2>3. /\ Head(ws).reg = e.storeReg /\ Head(ws).mask = e.storeMask
        /\ Head(ws).shift = e.storeShift
    BY <2>2 DEF Write
  <2>4. \A i \in e.storeMask : <<e.storeReg, i + e.storeShift>> \in Cells(a)
    BY CellFacts
  <2> QED
    BY <2>3, <2>4
<1>2. CASE e.codec = "ax"
  <2>1. (\E x : Head(ws) = EnableWrite(e, x)) \/ Head(ws) = ModeWrite(e, v)
    BY <1>2, WriteFacts
  <2>2. CASE \E x : Head(ws) = EnableWrite(e, x)
    <3>1. Head(ws).reg = e.reg + 1 /\ Head(ws).mask = e.mask /\ Head(ws).shift = e.shift - 4
      BY <2>2 DEF Write, EnableWrite
    <3> QED
      BY <1>2, <3>1, CellFacts
  <2>3. CASE Head(ws) = ModeWrite(e, v)
    <3>1. Head(ws).reg = e.reg /\ Head(ws).mask = e.mask /\ Head(ws).shift = e.shift
      BY <2>3 DEF Write, ModeWrite
    <3> QED
      BY <3>1, CellFacts
  <2> QED
    BY <2>1, <2>2, <2>3
<1> QED
  BY <1>1, <1>2

\* What a single write leaves in the bits its attribute is read from does not
\* depend on what was there.
LEMMA LandAlike ==
  ASSUME NEW a \in Attrs, Specs(a).codec # "ax", Writable(a), NEW x, NEW r, NEW s,
         r \in [DOMAIN r -> SUBSET Word16], s \in [DOMAIN s -> SUBSET Word16],
         {Specs(a).reg, Specs(a).storeReg} \subseteq DOMAIN r \cap DOMAIN s,
         NEW w, w = Write(Specs(a).storeReg, Specs(a).storeMask, Specs(a).storeShift, x)
  PROVE  \A i \in Specs(a).mask : i + Specs(a).shift \in Land(r, a, w)[Specs(a).reg]
                                     <=> i + Specs(a).shift \in Land(s, a, w)[Specs(a).reg]
<1> DEFINE e == Specs(a)
<1>1. \A i \in e.storeMask : /\ i + e.storeShift \in Written(r, w)[e.storeReg]
                                  <=> i + e.storeShift \in Word16 \cap FieldValue(w)
                             /\ i + e.storeShift \in Written(s, w)[e.storeReg]
                                  <=> i + e.storeShift \in Word16 \cap FieldValue(w)
  <2>1. \A i \in e.storeMask : i + e.storeShift \in FieldBits(w)
    BY DEF FieldBits, Write
  <2>2. /\ Written(r, w)[e.storeReg]
             = Word16 \cap ((r[e.storeReg] \ FieldBits(w)) \cup FieldValue(w))
        /\ Written(s, w)[e.storeReg]
             = Word16 \cap ((s[e.storeReg] \ FieldBits(w)) \cup FieldValue(w))
    BY DEF Written, Write
  <2> QED
    BY <2>1, <2>2
<1>2. CASE ~e.masked
  <2>1. e.storeReg = e.reg /\ e.storeMask = e.mask /\ e.storeShift = e.shift
    BY <1>2, EntryFacts
  <2> QED
    BY <1>1, <1>2, <2>1 DEF Land, Reported
<1>3. CASE e.masked
  <2>1. e.storeMask = {0} /\ e.storeShift \in Nat
    BY <1>3, EntryFacts
  <2>2. e.storeShift \in Written(r, w)[e.storeReg] <=> e.storeShift \in Written(s, w)[e.storeReg]
    BY <1>1, <2>1
  <2>3. /\ Written(r, w) \in [DOMAIN r -> SUBSET Word16]
        /\ Written(s, w) \in [DOMAIN s -> SUBSET Word16]
    BY LandTypes
  <2> DEFINE state == IF e.storeShift \in Written(r, w)[e.storeReg] THEN {e.shift} ELSE {}
             bits == {i + e.shift : i \in e.mask}
  <2>4. /\ Land(r, a, w) = [Written(r, w) EXCEPT ![e.reg] = (@ \ bits) \cup state]
        /\ Land(s, a, w) = [Written(s, w) EXCEPT ![e.reg] = (@ \ bits) \cup state]
    BY <1>3, <2>2, Zenon DEF Land, Reported
  <2>5. \A i \in e.mask : i + e.shift \in bits
    OBVIOUS
  <2> HIDE DEF state, bits
  <2>6. /\ Land(r, a, w)[e.reg] = (Written(r, w)[e.reg] \ bits) \cup state
        /\ Land(s, a, w)[e.reg] = (Written(s, w)[e.reg] \ bits) \cup state
    BY <2>3, <2>4
  <2> QED
    BY <2>5, <2>6
<1> QED
  BY <1>2, <1>3

\* A documented text that one write stores is shown.
LEMMA SingleShown ==
  ASSUME NEW g, NEW r \in [g -> SUBSET Word16], NEW a \in AttrsOf(g), Specs(a).codec # "ax",
         NEW v \in Specs(a).documented
  PROVE  Show(a, Land(r, a, Head(StoreSingle(Specs(a), v)))) = v
<1> DEFINE e == Specs(a)
           blank == [reg \in {e.reg, e.storeReg} |-> {}]
           w == Head(StoreSingle(e, v))
<1>1. a \in Attrs /\ Writable(a) /\ e.reg \in g /\ e.storeReg \in g
  BY CellsInGroup DEF Writable, ReadOnly
<1>2. StoreSingle(e, v) # <<>> /\ ShowSingle(e, Land(blank, a, w)) = v
  BY <1>1, RoundTrip
<1>3. PICK x : w = Write(e.storeReg, e.storeMask, e.storeShift, x)
  BY <1>1, <1>2, SingleWrites, EntryFacts
<1>4. blank \in [{e.reg, e.storeReg} -> SUBSET Word16]
  OBVIOUS
<1> HIDE DEF w, blank
<1>5. \A i \in e.mask : i + e.shift \in Land(r, a, w)[e.reg]
                          <=> i + e.shift \in Land(blank, a, w)[e.reg]
  <2>1. /\ r \in [DOMAIN r -> SUBSET Word16] /\ blank \in [DOMAIN blank -> SUBSET Word16]
        /\ {e.reg, e.storeReg} \subseteq DOMAIN r \cap DOMAIN blank
    BY <1>1, <1>4
  <2> QED
    BY <1>1, <1>3, <2>1, LandAlike
<1>6. ShowSingle(e, Land(r, a, w)) = v
  BY <1>1, <1>2, <1>5, SingleAlike
<1> QED
  BY <1>6 DEF Show, w

-----------------------------------------------------------------------------
(* The two bits of an analog mode.                                         *)

LEMMA BitWritten ==
  ASSUME NEW g, NEW r \in [g -> SUBSET Word16], NEW w,
         w.reg \in g, w.mask = {0}, w.value \in {{}, {0}}, w.shift \in Word16
  PROVE  /\ Segment(Written(r, w)[w.reg], {0}, w.shift) = w.value
         /\ \A reg \in g : reg # w.reg => Written(r, w)[reg] = r[reg]
<1>1. FieldBits(w) = {w.shift} /\ FieldValue(w) = {w.shift : i \in w.value}
  BY DEF FieldBits, FieldValue, Word16
<1>2. Written(r, w)[w.reg] = Word16 \cap ((r[w.reg] \ FieldBits(w)) \cup FieldValue(w))
  BY DEF Written
<1>3. w.shift \in Written(r, w)[w.reg] <=> w.value = {0}
  BY <1>1, <1>2
<1>4. 0 + w.shift = w.shift
  BY DEF Word16
<1>5. Segment(Written(r, w)[w.reg], {0}, w.shift) = w.value
  BY <1>3, <1>4 DEF Segment
<1>6. \A reg \in g : reg # w.reg => Written(r, w)[reg] = r[reg]
  BY DEF Written
<1> QED
  BY <1>5, <1>6

LEMMA AxFacts ==
  ASSUME NEW g, NEW a \in AttrsOf(g), Specs(a).codec = "ax"
  PROVE  LET e == Specs(a)
         IN  /\ a \in Attrs /\ Writable(a) /\ ~e.masked /\ e.mask = {0}
             /\ e.documented = {"0", "U", "B"}
             /\ e.reg \in g /\ e.reg + 1 \in g /\ e.reg + 1 # e.reg
             /\ e.shift \in Word16 /\ e.shift - 4 \in Word16
<1> DEFINE e == Specs(a)
<1>1. /\ a \in Attrs /\ ~e.masked /\ e.mask = {0} /\ e.documented = {"0", "U", "B"}
      /\ e.reg \in g /\ e.reg + 1 \in g /\ e.reg \in Nat /\ e.shift \in Nat
  BY CellsInGroup, EntryFacts
<1>2. Writable(a)
  BY <1>1 DEF Writable, ReadOnly
<1>3. 0 + e.shift \in Word16 /\ 0 + (e.shift - 4) \in Word16
  <2>1. <<e.reg, 0 + e.shift>> \in Cells(a) /\ <<e.reg + 1, 0 + (e.shift - 4)>> \in Cells(a)
    BY <1>1, CellFacts
  <2> QED
    BY <1>1, <1>2, <2>1, EntryFacts
<1>4. e.shift \in Word16 /\ e.shift - 4 \in Word16
  BY <1>1, <1>3
<1> QED
  BY <1>1, <1>2, <1>4

\* What an analog mode shows, of its two bits.
LEMMA AxShown ==
  ASSUME NEW a \in Attrs, Specs(a).codec = "ax", NEW r
  PROVE  LET e == Specs(a)
         IN  Show(a, r) = IF fwDisable /\ Segment(r[e.reg + 1], e.mask, e.shift - 4) = {} THEN "0"
                          ELSE IF Segment(r[e.reg], e.mask, e.shift) = {} THEN "U" ELSE "B"
BY Zenon DEF Show, ShowAxMode

LEMMA EnableLands ==
  ASSUME NEW g, NEW r \in [g -> SUBSET Word16], NEW a \in AttrsOf(g), Specs(a).codec = "ax",
         NEW bit \in {{}, {0}}, NEW s, s = Land(r, a, EnableWrite(Specs(a), bit))
  PROVE  LET e == Specs(a)
         IN  /\ Segment(s[e.reg + 1], e.mask, e.shift - 4) = bit
             /\ s[e.reg] = r[e.reg]
<1> DEFINE e == Specs(a)
           w == EnableWrite(e, bit)
<1>1. /\ e.mask = {0} /\ ~e.masked /\ e.reg \in g /\ e.reg + 1 \in g /\ e.reg + 1 # e.reg
      /\ e.shift - 4 \in Word16
  BY AxFacts
<1>2. w.reg = e.reg + 1 /\ w.mask = e.mask /\ w.shift = e.shift - 4 /\ w.value = bit
  BY DEF EnableWrite, Write
<1>3. s = Written(r, w)
  BY <1>1 DEF Land, Reported
<1> HIDE DEF w
<1> QED
  BY <1>1, <1>2, <1>3, BitWritten

\* The mode that was written is shown, unless the input is disabled.
LEMMA ModeLands ==
  ASSUME NEW g, NEW r \in [g -> SUBSET Word16], NEW a \in AttrsOf(g), Specs(a).codec = "ax",
         NEW v \in {"U", "B"}, NEW s, s = Land(r, a, ModeWrite(Specs(a), v))
  PROVE  LET e == Specs(a)
         IN  /\ s[e.reg + 1] = r[e.reg + 1]
             /\ Show(a, s) = IF fwDisable /\ Segment(r[e.reg + 1], e.mask, e.shift - 4) = {}
                               THEN "0" ELSE v
<1> DEFINE e == Specs(a)
           w == ModeWrite(e, v)
<1>1. /\ e.mask = {0} /\ ~e.masked /\ e.reg \in g /\ e.reg + 1 \in g /\ e.reg + 1 # e.reg
      /\ e.shift \in Word16 /\ a \in Attrs
  BY AxFacts
<1>2. /\ w.reg = e.reg /\ w.mask = e.mask /\ w.shift = e.shift
      /\ w.value = IF v = "B" THEN {0} ELSE {}
  BY DEF ModeWrite, Write
<1>3. s = Written(r, w)
  BY <1>1 DEF Land, Reported
<1> HIDE DEF w
<1>4. /\ Segment(s[e.reg], e.mask, e.shift) = IF v = "B" THEN {0} ELSE {}
      /\ s[e.reg + 1] = r[e.reg + 1]
  BY <1>1, <1>2, <1>3, BitWritten
<1> QED
  BY <1>1, <1>4, AxShown

-----------------------------------------------------------------------------
(* The invariant.                                                          *)

LEMMA OpenFacts ==
  ASSUME IInv, NEW a \in DOMAIN last
  PROVE  /\ a \in AttrsOf(group) /\ a \in Attrs /\ Own(a)
         /\ regs \in [group -> SUBSET Word16]
BY CellsInGroup DEF IInv, Bounded

\* A show in the next state, when the firmware is the same.
LEMMA ShowNext ==
  ASSUME UNCHANGED fwDisable, NEW a
  PROVE  Show(a, regs)' = Show(a, regs') /\ State(a, regs)' = State(a, regs')
BY DEF State, Healthy, Show, ShowAxMode

\* A step that concerns one attribute: the others keep what they have.
LEMMA OneChange ==
  ASSUME IInv, NEW a \in DOMAIN last,
         Bounded', \A b \in DOMAIN last : b # a => Alike(b, regs, regs'),
         UNCHANGED <<group, fwDisable>>, DOMAIN last' = DOMAIN last,
         \A b \in DOMAIN last : b # a => last'[b] = last[b],
         \A c : c.attr # a => (c \in open' <=> c \in open),
         \A c \in open' : c.attr \in DOMAIN last,
         Own(a)'
  PROVE  IInv'
<1>1. regs \in [group -> SUBSET Word16] /\ regs' \in [group -> SUBSET Word16]
  BY OpenFacts DEF Bounded
<1>2. ASSUME NEW b \in DOMAIN last, b # a PROVE Own(b)'
  <2> DEFINE e == Specs(b)
  <2>1. b \in AttrsOf(group) /\ b \in Attrs /\ Own(b)
    BY OpenFacts
  <2>2. Alike(b, regs, regs')
    BY <1>2
  <2>3. State(b, regs)' = State(b, regs)
    BY <1>1, <2>1, <2>2, StateAlike, ShowNext
  <2>4. (InStore(b) => InStore(b)') /\ last'[b] = last[b]
    BY <1>2 DEF InStore
  <2>5. ASSUME NEW c \in open', c.attr = b PROVE ModeOpen(c)'
    <3>1. c \in open /\ ModeOpen(c)
      BY <1>2, <2>1, <2>5 DEF Own
    <3>2. e.codec = "ax" /\ fwDisable
      BY <2>5, <3>1 DEF ModeOpen
    <3>3. \A i \in e.mask : i + (e.shift - 4) \in regs'[e.reg + 1] <=> i + (e.shift - 4) \in regs[e.reg + 1]
      BY <2>1, <2>2, <3>2, CellFacts DEF Alike
    <3>4. Segment(regs'[e.reg + 1], e.mask, e.shift - 4) = Segment(regs[e.reg + 1], e.mask, e.shift - 4)
      BY <3>3, SegmentAlike
    <3> QED
      BY <2>4, <2>5, <3>1, <3>4 DEF ModeOpen
  <2> QED
    BY <2>1, <2>3, <2>4, <2>5 DEF Own
<1> QED
  BY <1>2 DEF IInv

\* A step of a store.
LEMMA OneStore ==
  ASSUME IInv, NEW a \in DOMAIN last, Writable(a), NEW w,
         \A i \in w.mask : <<w.reg, i + w.shift>> \in Cells(a),
         regs' \in {regs, Land(regs, a, w)}, UNCHANGED <<group, fwDisable>>,
         DOMAIN last' = DOMAIN last,
         \A b \in DOMAIN last : b # a => last'[b] = last[b],
         \A c : c.attr # a => (c \in open' <=> c \in open),
         \A c \in open' : c.attr \in DOMAIN last,
         Own(a)'
  PROVE  IInv'
<1>1. a \in AttrsOf(group) /\ a \in Attrs /\ regs \in [group -> SUBSET Word16]
  BY OpenFacts
<1>2. Bounded'
  BY <1>1, LandTypes DEF Bounded
<1>3. ASSUME NEW b \in DOMAIN last, b # a PROVE Alike(b, regs, regs')
  <2>1. Alike(b, regs, regs)
    BY DEF Alike
  <2>2. Alike(b, regs, Land(regs, a, w))
    BY <1>1, <1>3, OpenFacts, LandOthers
  <2> QED
    BY <2>1, <2>2
<1> QED
  BY <1>2, <1>3, OneChange

LEMMA InitInv == Init => IInv
<1> SUFFICES ASSUME Init PROVE IInv
  OBVIOUS
<1>1. regs \in [group -> SUBSET Word16]
  BY StoredAssumption DEF Init
<1>2. \A a \in AttrsOf(group) : Own(a)
  BY DEF Init, Own, InStore
<1> QED
  BY <1>1, <1>2 DEF Init, IInv, Bounded

\* The first write of a store.
LEMMA StoreKeeps ==
  ASSUME IInv, NEW a \in DOMAIN last, NEW v \in Texts(a), NEW ws, ws = Writes(a, v), ws # <<>>,
         Store(a, v, ws)
  PROVE  IInv'
<1> DEFINE e == Specs(a)
           text == Left(a, v, regs')
<1>1. /\ a \in AttrsOf(group) /\ a \in Attrs /\ Own(a) /\ regs \in [group -> SUBSET Word16]
      /\ Writable(a)
      /\ e.codec = "ax" => v \in {"0", "U", "B"} /\ v \in e.documented
  BY OpenFacts, TextFacts, AxFacts
<1>2. /\ regs' = Land(regs, a, Head(ws)) /\ UNCHANGED <<group, fwDisable>>
      /\ DOMAIN last' = DOMAIN last
      /\ \A b \in DOMAIN last : b # a => last'[b] = last[b]
      /\ last'[a] = (IF InStore(a) THEN last[a] ELSE {}) \cup {text}
  BY DEF Store
<1>3. /\ Len(ws) = 1 => open' = open
      /\ Len(ws) # 1 => open' = open \cup {[attr |-> a, rest |-> Tail(ws)]}
  BY DEF Store
<1>4. /\ \A c : c.attr # a => (c \in open' <=> c \in open)
      /\ \A c \in open' : c.attr \in DOMAIN last
  BY <1>3 DEF IInv
<1>5. \A i \in Head(ws).mask : <<Head(ws).reg, i + Head(ws).shift>> \in Cells(a)
  BY <1>1, WritesOwn
<1>6. State(a, regs)' = State(a, regs') /\ State(a, regs') = Show(a, regs')
  BY <1>1, <1>2, ShowNext, StateLand
<1>7. ASSUME NEW c \in open, c.attr = a
      PROVE  /\ fwDisable /\ e.codec = "ax" /\ InStore(a)
             /\ \E u \in {"U", "B"} \cap last[a] : c.rest = <<ModeWrite(e, u)>>
             /\ Segment(regs[e.reg + 1], e.mask, e.shift - 4) = {} => "0" \in last[a]
  BY <1>1, <1>7 DEF Own, ModeOpen, InStore
<1>8. ASSUME e.codec # "ax" PROVE Own(a)'
  <2>1. Len(ws) = 1 /\ ws = StoreSingle(e, v)
    BY <1>1, <1>8, WriteFacts
  <2>2. v \in e.documented => Show(a, regs') = v
    BY <1>1, <1>2, <1>8, <2>1, SingleShown
  <2>3. State(a, regs') \in last'[a]
    BY <1>2, <1>6, <2>2 DEF Left
  <2>4. \A c \in open' : c.attr # a
    BY <1>3, <1>7, <1>8, <2>1
  <2> QED
    BY <1>6, <2>3, <2>4 DEF Own
<1>9. ASSUME e.codec = "ax" PROVE Own(a)'
  <2>1. v \in last'[a]
    BY <1>1, <1>2, <1>9 DEF Left
  <2>2. ASSUME NEW c \in open, c.attr = a,
               Segment(regs'[e.reg + 1], e.mask, e.shift - 4) = {} => "0" \in last'[a]
        PROVE  ModeOpen(c)'
    BY <1>2, <1>7, <2>2 DEF ModeOpen
  <2>3. CASE fwDisable /\ v = "0" /\ ws = <<EnableWrite(e, {})>>
    <3>1. Segment(regs'[e.reg + 1], e.mask, e.shift - 4) = {}
      <4>1. regs' = Land(regs, a, EnableWrite(e, {})) /\ {} \in {{}, {0}}
        BY <1>2, <2>3
      <4> QED
        BY <1>1, <1>9, <4>1, EnableLands, Zenon
    <3>2. Show(a, regs') = "0"
      BY <1>1, <1>9, <2>3, <3>1, AxShown
    <3>3. open' = open
      BY <1>3, <2>3
    <3>4. \A c \in open' : c.attr = a => ModeOpen(c)'
      BY <2>1, <2>2, <2>3, <3>3
    <3> QED
      BY <1>6, <2>1, <2>3, <3>2, <3>4 DEF Own
  <2>4. CASE fwDisable /\ v \in {"U", "B"} /\ ws = <<EnableWrite(e, {0}), ModeWrite(e, v)>>
    <3> DEFINE d == [attr |-> a, rest |-> <<ModeWrite(e, v)>>]
    <3>1. Segment(regs'[e.reg + 1], e.mask, e.shift - 4) = {0}
      BY <1>1, <1>2, <1>9, <2>4, EnableLands
    <3>2. open' = open \cup {d}
      BY <1>3, <2>4
    <3>3. InStore(a)'
      <4>1. d \in open' /\ d.attr = a
        BY <3>2
      <4> QED
        BY <4>1, Zenon DEF InStore
    <3>4. ModeOpen(d)'
      BY <1>2, <1>9, <2>1, <2>4, <3>1 DEF ModeOpen
    <3>5. ASSUME NEW c \in open', c.attr = a PROVE ModeOpen(c)'
      BY <2>2, <3>1, <3>2, <3>4, <3>5
    <3> QED
      BY <3>3, <3>5 DEF Own
  <2>5. CASE ~fwDisable /\ v \in {"U", "B"} /\ ws = <<ModeWrite(e, v)>>
    <3>1. Show(a, regs') = v
      BY <1>1, <1>2, <1>9, <2>5, ModeLands
    <3>2. \A c \in open' : c.attr # a
      BY <1>3, <1>7, <2>5
    <3> QED
      BY <1>6, <2>1, <3>1, <3>2 DEF Own
  <2> QED
    BY <1>1, <1>9, <2>3, <2>4, <2>5, WriteFacts
<1> QED
  BY <1>1, <1>2, <1>4, <1>5, <1>8, <1>9, OneStore

\* The store that an open record is of.
LEMMA OpenStore ==
  ASSUME IInv, NEW c \in open
  PROVE  /\ c.attr \in DOMAIN last /\ c.attr \in AttrsOf(group) /\ c.attr \in Attrs
         /\ Specs(c.attr).codec = "ax" /\ Writable(c.attr) /\ ModeOpen(c)
         /\ \A i \in Head(c.rest).mask : <<Head(c.rest).reg, i + Head(c.rest).shift>> \in Cells(c.attr)
<1> DEFINE a == c.attr
           e == Specs(a)
<1>1. a \in DOMAIN last /\ a \in AttrsOf(group) /\ a \in Attrs /\ ModeOpen(c)
  <2>1. a \in DOMAIN last
    BY DEF IInv
  <2> QED
    BY <2>1, OpenFacts DEF Own
<1>2. e.codec = "ax" /\ \E v : c.rest = <<ModeWrite(e, v)>>
  BY <1>1 DEF ModeOpen
<1>3. Head(c.rest).reg = e.reg /\ Head(c.rest).mask = e.mask /\ Head(c.rest).shift = e.shift
  BY <1>2 DEF ModeWrite, Write
<1> QED
  BY <1>1, <1>2, <1>3, AxFacts, CellFacts

\* The second write of a mode.
LEMMA GoesOnKeeps ==
  ASSUME IInv, NEW c \in open, StoreGoesOn(c)
  PROVE  IInv'
<1> DEFINE a == c.attr
           e == Specs(a)
<1>1. /\ a \in DOMAIN last /\ a \in AttrsOf(group) /\ a \in Attrs
      /\ e.codec = "ax" /\ Writable(a) /\ ModeOpen(c)
      /\ regs \in [group -> SUBSET Word16] /\ Own(a)
  BY OpenStore, OpenFacts
<1>2. /\ regs' = Land(regs, a, Head(c.rest)) /\ open' = open \ {c}
      /\ UNCHANGED <<group, fwDisable, last>>
  BY DEF StoreGoesOn
<1>3. PICK v \in {"U", "B"} \cap last[a] : c.rest = <<ModeWrite(e, v)>>
  BY <1>1 DEF ModeOpen
<1>4. regs' = Land(regs, a, ModeWrite(e, v))
  BY <1>2, <1>3
<1>5. /\ regs'[e.reg + 1] = regs[e.reg + 1]
      /\ Show(a, regs') = IF fwDisable /\ Segment(regs[e.reg + 1], e.mask, e.shift - 4) = {}
                            THEN "0" ELSE v
  BY <1>1, <1>4, ModeLands
<1>6. Segment(regs[e.reg + 1], e.mask, e.shift - 4) = {} => "0" \in last[a]
  BY <1>1 DEF ModeOpen
<1>7. State(a, regs)' \in last'[a]
  BY <1>1, <1>2, <1>3, <1>5, <1>6, AxFacts, ShowNext, StateUnmasked
<1>8. \A d \in open' : d.attr = a => ModeOpen(d)'
  BY <1>1, <1>2, <1>5 DEF Own, ModeOpen
<1>9. Own(a)'
  BY <1>7, <1>8 DEF Own
<1>10. /\ \A d : d.attr # a => (d \in open' <=> d \in open)
       /\ \A d \in open' : d.attr \in DOMAIN last
  BY <1>2 DEF IInv
<1> QED
  BY <1>1, <1>2, <1>9, <1>10, OpenStore, OneStore

\* A write of a mode that fails, the first one or the second.
LEMMA FailKeeps ==
  ASSUME IInv, NEW a \in DOMAIN last, Specs(a).codec = "ax", NEW w,
         \A i \in w.mask : <<w.reg, i + w.shift>> \in Cells(a),
         regs' \in {regs, Land(regs, a, w)}, UNCHANGED <<group, fwDisable>>,
         open' \subseteq open, \A c \in open : c.attr # a => c \in open',
         ModeLost(a)
  PROVE  IInv'
<1> DEFINE e == Specs(a)
<1>1. a \in AttrsOf(group) /\ a \in Attrs /\ Own(a) /\ Writable(a)
  BY OpenFacts, AxFacts
<1>2. /\ DOMAIN last' = DOMAIN last
      /\ \A b \in DOMAIN last : b # a => last'[b] = last[b]
      /\ last'[a] = IF \E c \in open' : c.attr = a THEN last[a] \cup e.documented
                                                  ELSE {State(a, regs')}
  BY DEF ModeLost
<1>3. ASSUME NEW c \in open', c.attr = a PROVE ModeOpen(c)' /\ InStore(a)'
  <2>1. c \in open /\ ModeOpen(c)
    BY <1>1, <1>3 DEF Own
  <2>2. fwDisable
    BY <2>1 DEF ModeOpen
  <2>3. last'[a] = last[a] \cup {"0", "U", "B"}
    BY <1>1, <1>2, <1>3, AxFacts
  <2>4. \E u \in {"U", "B"} \cap last[a] : c.rest = <<ModeWrite(e, u)>>
    BY <1>3, <2>1 DEF ModeOpen
  <2>5. ModeOpen(c)'
    BY <1>3, <2>2, <2>3, <2>4 DEF ModeOpen
  <2> QED
    BY <1>3, <2>5 DEF InStore
<1>4. Own(a)'
  <2>1. CASE \A c \in open' : c.attr # a
    <3>1. State(a, regs)' \in last'[a]
      BY <1>2, <2>1, ShowNext
    <3> QED
      BY <2>1, <3>1 DEF Own
  <2>2. CASE \E c \in open' : c.attr = a
    BY <1>3, <2>2 DEF Own
  <2> QED
    BY <2>1, <2>2
<1> QED
  BY <1>1, <1>2, <1>4, OneStore DEF IInv

\* A fault is a bit of its output that the state does not depend on.
LEMMA FaultKeeps ==
  ASSUME IInv, NEW a \in DOMAIN last, Fault(a)
  PROVE  IInv'
<1> DEFINE e == Specs(a)
           bit == e.shift + 1
<1>1. /\ a \in AttrsOf(group) /\ a \in Attrs /\ Own(a)
      /\ regs \in [group -> SUBSET Word16] /\ e.reg \in group
  BY OpenFacts, CellsInGroup
<1>2. /\ regs' = [regs EXCEPT ![e.reg] = SymDiff(@, {bit})]
      /\ e.masked /\ UNCHANGED <<group, fwDisable, open, last>>
  BY DEF Fault
<1>3. <<e.reg, bit>> \in Cells(a) /\ bit \in Word16 /\ e.codec # "ax"
  <2>1. 1 \in e.mask /\ e.shift \in Nat /\ e.codec # "ax"
    BY <1>1, <1>2, EntryFacts
  <2>2. 1 + e.shift = bit /\ <<e.reg, 1 + e.shift>> \in Cells(a)
    BY <1>1, <2>1, CellFacts
  <2>3. \A c \in Cells(a) : c[2] \in Word16
    BY <1>1, <1>2, EntryFacts
  <2> QED
    BY <2>1, <2>2, <2>3
<1> HIDE DEF bit
<1>4. regs' \in [group -> SUBSET Word16]
  BY <1>1, <1>2, <1>3 DEF SymDiff
<1>5. ASSUME NEW b \in DOMAIN last, b # a PROVE Alike(b, regs, regs')
  <2>1. b \in AttrsOf(group) /\ b \in Attrs
    BY OpenFacts
  <2>2. ASSUME NEW c \in Cells(b) PROVE c[2] \in regs[c[1]] <=> c[2] \in regs'[c[1]]
    <3>1. c = <<c[1], c[2]>> /\ c[1] \in group /\ c # <<e.reg, bit>>
      <4>1. Cells(a) \cap Cells(b) = {}
        BY <1>1, <1>2, <1>5, <2>1, EntryFacts, CellsDisjoint
      <4> QED
        BY <1>3, <2>1, <4>1, CellsInGroup
    <3>2. CASE c[1] # e.reg
      BY <1>1, <1>2, <3>1, <3>2
    <3>3. CASE c[1] = e.reg /\ c[2] # bit
      <4>1. regs'[c[1]] = SymDiff(regs[c[1]], {bit})
        BY <1>1, <1>2, <3>3
      <4> QED
        BY <3>3, <4>1 DEF SymDiff
    <3> QED
      BY <3>1, <3>2, <3>3
  <2> QED
    BY <2>2 DEF Alike
<1>6. State(a, regs)' = State(a, regs)
  <2>1. /\ Healthy(a, regs) = [regs EXCEPT ![e.reg] = @ \ {bit}]
        /\ Healthy(a, regs') = [regs' EXCEPT ![e.reg] = @ \ {bit}]
    BY <1>2 DEF Healthy, bit
  <2>2. Healthy(a, regs') = Healthy(a, regs)
    <3>1. regs'[e.reg] \ {bit} = regs[e.reg] \ {bit}
      BY <1>1, <1>2 DEF SymDiff
    <3>2. \A x \in group : x # e.reg => regs'[x] = regs[x]
      BY <1>1, <1>2
    <3> QED
      BY <1>1, <1>4, <2>1, <3>1, <3>2, ZenonT(60)
  <2>3. State(a, regs') = State(a, regs)
    BY <2>2 DEF State
  <2> QED
    BY <1>2, <2>3, ShowNext
<1>7. Own(a)'
  <2>1. \A c \in open : c.attr # a
    BY <1>1, <1>3 DEF Own, ModeOpen
  <2> QED
    BY <1>1, <1>2, <1>6, <2>1 DEF Own, InStore
<1> QED
  BY <1>2, <1>4, <1>5, <1>7, OneChange DEF IInv, Bounded

\* The MCU's own store is one of those above.
LEMMA SwitchKeeps == IInv /\ SwitchSet => IInv'
<1> SUFFICES ASSUME IInv, SwitchSet PROVE IInv'
  OBVIOUS
<1> DEFINE a == SdSwitch
<1>1. a \in DOMAIN last /\ Store(a, 1, Writes(a, 1))
  BY DEF SwitchSet
<1>2. a \in Attrs /\ Specs(a).codec = "plain" /\ 1 \in Specs(a).documented
  BY SwitchFits
<1>3. 1 \in Texts(a)
  BY <1>2 DEF Texts, Writable, ReadOnly
<1>4. Writes(a, 1) # <<>>
  <2>1. StoreSingle(Specs(a), 1) # <<>>
    BY <1>2, RoundTrip
  <2> QED
    BY <1>2, <2>1 DEF Writes
<1> HIDE DEF a
<1> QED
  BY <1>1, <1>3, <1>4, StoreKeeps

LEMMA Inductive == IInv /\ [Next]_vars => IInv'
<1> SUFFICES ASSUME IInv, [Next]_vars PROVE IInv'
  OBVIOUS
<1>1. ASSUME NEW a \in DOMAIN last \cap Stored, NEW v \in Texts(a), Writes(a, v) # <<>>
      PROVE  /\ Store(a, v, Writes(a, v)) => IInv'
             /\ StoreFails(a, Writes(a, v)) => IInv'
  <2>1. a \in Attrs /\ Writable(a)
    BY OpenFacts, TextFacts
  <2>2. \A i \in Head(Writes(a, v)).mask :
           <<Head(Writes(a, v)).reg, i + Head(Writes(a, v)).shift>> \in Cells(a)
    BY <1>1, <2>1, WritesOwn
  <2>3. StoreFails(a, Writes(a, v)) => IInv'
    BY <2>2, FailKeeps DEF StoreFails
  <2> QED
    BY <1>1, <2>3, StoreKeeps
<1>2. ASSUME NEW c \in open, StoreGoesOn(c) \/ StoreGoesOnFails(c) PROVE IInv'
  <2>1. ASSUME StoreGoesOnFails(c) PROVE IInv'
    <3>1. /\ regs' \in {regs, Land(regs, c.attr, Head(c.rest))}
          /\ open' = open \ {c} /\ ModeLost(c.attr) /\ UNCHANGED <<group, fwDisable>>
      BY <2>1 DEF StoreGoesOnFails
    <3> QED
      BY <3>1, OpenStore, FailKeeps
  <2> QED
    BY <1>2, <2>1, GoesOnKeeps
<1>3. CASE UNCHANGED vars
  <2>1. \A a : State(a, regs)' = State(a, regs) /\ InStore(a)' = InStore(a)
    BY <1>3, ShowNext DEF vars, InStore
  <2>2. \A c : ModeOpen(c)' = ModeOpen(c)
    BY <1>3 DEF vars, ModeOpen
  <2>3. \A a \in DOMAIN last : Own(a)'
    BY <1>3, <2>1, <2>2, OpenFacts DEF vars, Own
  <2> QED
    BY <1>3, <2>3 DEF vars, IInv, Bounded
<1> QED
  BY <1>1, <1>2, <1>3, FaultKeeps, SwitchKeeps DEF Next

-----------------------------------------------------------------------------
LEMMA Types == IInv => TypeOK
<1> SUFFICES ASSUME IInv PROVE TypeOK
  OBVIOUS
<1>1. regs \in [group -> SUBSET Word16] /\ regs \in [group -> SUBSET (0 .. 23)]
  BY DEF IInv, Bounded, Word16
<1>2. \A a \in DOMAIN last : regs[Specs(a).storeReg] \subseteq Word16
  BY <1>1, OpenFacts, CellsInGroup
<1>3. ASSUME NEW c \in open PROVE c.attr \in DOMAIN last /\ Len(c.rest) = 1
  <2>1. ModeOpen(c) /\ c.attr \in DOMAIN last
    BY OpenStore
  <2>2. PICK v : c.rest = <<ModeWrite(Specs(c.attr), v)>>
    BY <2>1 DEF ModeOpen
  <2> QED
    BY <2>1, <2>2
<1> QED
  BY <1>1, <1>2, <1>3 DEF IInv, TypeOK

\* The registers stay words, those that are stored to of two bytes, and a
\* store that is open has one write left, whatever the stores and failures.
THEOREM TypeCorrect == Spec => []TypeOK
<1>1. Spec => []IInv
  BY InitInv, Inductive, PTL DEF Spec
<1> QED
  BY <1>1, Types, PTL

\* An attribute shows the text last stored to it, by a process or by the MCU,
\* or one of those whose stores overlapped, for any groups of registers, any
\* contents at the start, any numbers stored and any number of stores between
\* two writes: the stores to other attributes, complete or half done, and the
\* faults of outputs never reach its bits.
THEOREM StoredIsShown == Spec => []ShownAsStored
<1>1. Spec => []IInv
  BY InitInv, Inductive, PTL DEF Spec
<1>2. IInv => ShownAsStored
  BY DEF IInv, Own, ShownAsStored
<1> QED
  BY <1>1, <1>2, PTL
=============================================================================
