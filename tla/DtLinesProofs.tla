---------------------------- MODULE DtLinesProofs ----------------------------
(***************************************************************************)
(* Proofs about DtLines, for any number of lines, interfaces and processes *)
(* and any overlapping of their calls.                                     *)
(*                                                                         *)
(* The inductive invariant says what each call may rely on at each of its  *)
(* steps (AgentInv) and what is left when none is under way (LineRest,     *)
(* BeanRest), of lines that are not contended and of interfaces that have  *)
(* one (Fine): two calls that have a line in common have all their lines   *)
(* contended (Apart).  A step of a call touches only the lines and the     *)
(* interface the call is on (Local), so that every other call keeps what   *)
(* it relies on (Others).                                                  *)
(***************************************************************************)
EXTENDS DtLines, TLAPS

Unheld(l) == requested[l] = "no" /\ desc[l] # "held"
HeldIn(l) == requested[l] = "in" /\ desc[l] = "held"
FreeLine(l) == owner[l] = Nobody /\ Unheld(l)
ByMode(l) == owner[l] = ModeFile /\ requested[l] # "no" /\ desc[l] = "held"

\* An interface is working, or an enable of it has failed, or it is off.
OwnsBoth(b) == owner[D0[b]] = b /\ owner[D1[b]] = b
Unspoiled(b) == D0[b] \notin spoiled /\ D1[b] \notin spoiled
Working(b) ==
  /\ enabled[b] /\ hooked[b] = {0, 1} /\ Unspoiled(b)
  /\ OwnsBoth(b) /\ HeldIn(D0[b]) /\ HeldIn(D1[b])
Broken(b) == ~enabled[b] /\ OwnsBoth(b) /\ D0[b] \in spoiled /\ D1[b] \in spoiled
Off(b) == ~enabled[b] /\ hooked[b] = {} /\ Unspoiled(b)

LineObject(l) == FreeLine(l) \/ ByMode(l)
Clear(l) == l \notin contended => Unheld(l)
Whole(l) == l \notin contended => LineObject(l)
BeanObject(b) == Working(b) \/ Broken(b) \/ (Off(b) /\ Whole(D0[b]) /\ Whole(D1[b]))

LineRest(l) == LineObject(l) \/ \E b \in Bean : l \in LinesOf(b) /\ (Working(b) \/ Broken(b))
BeanRest(b) == Working(b) \/ Broken(b) \/ Off(b)

\* What a call on x may rely on at each label.
ModeInv(label, x) ==
  /\ label = "modeFree" => LineObject(x)
  /\ label = "modeFlags" => owner[x] \in {Nobody, ModeFile} /\ Unheld(x)
  /\ label = "modeGet" => FreeLine(x) /\ flags[x] # "asis"
  /\ label = "modeOwn" => owner[x] = Nobody /\ requested[x] # "no" /\ desc[x] = "held"

Claimed(b) == OwnsBoth(b) /\ flags[D0[b]] = "in" /\ flags[D1[b]] = "in"

EnableInv(label, x) ==
  /\ label \in EnablePC \ {"again"} => ~enabled[x] /\ Unspoiled(x)
  /\ label = "again" => Working(x)
  /\ label = "take" => /\ hooked[x] = {}
                       /\ owner[D0[x]] = Nobody /\ owner[D1[x]] = Nobody
                       /\ Clear(D0[x]) /\ Clear(D1[x])
  /\ label \in EnablePC \ {"take", "again"} => Claimed(x)
  /\ label = "get0" => hooked[x] = {} /\ Clear(D0[x]) /\ Clear(D1[x])
  /\ label = "get1" => hooked[x] = {} /\ HeldIn(D0[x]) /\ Clear(D1[x])
  /\ label \in {"hook0", "hook1", "enable"} => HeldIn(D0[x]) /\ HeldIn(D1[x])
  /\ label = "hook0" => hooked[x] = {}
  /\ label = "hook1" => hooked[x] = {0}
  /\ label = "enable" => hooked[x] = {0, 1}

DisableInv(label, x) ==
  /\ label = "disable" => BeanObject(x)
  /\ label = "free0" => Working(x)
  /\ label \in {"free1", "unhook0", "unhook1", "disown"} =>
       enabled[x] /\ OwnsBoth(x) /\ Unspoiled(x) /\ Unheld(D0[x])
  /\ label = "free1" => hooked[x] = {0, 1} /\ HeldIn(D1[x])
  /\ label \in {"unhook0", "unhook1", "disown"} => Unheld(D1[x])
  /\ label = "unhook0" => hooked[x] = {0, 1}
  /\ label = "unhook1" => hooked[x] = {1}
  /\ label = "disown" => hooked[x] = {}

AgentInv(a) ==
  /\ pc[a] \in ModePC => call[a].on \in Line
  /\ pc[a] \in EnablePC \cup DisablePC => call[a].on \in Bean
  /\ pc[a] \in {"idle", "cleanup", "unbound"} => call[a] = NoCall
  /\ pc[a] \in ModePC /\ call[a].on \notin contended => ModeInv(pc[a], call[a].on)
  /\ pc[a] \in ModePC => \A b \in Bean : Fine(b) /\ call[a].on \in LinesOf(b) => owner[call[a].on] # b
  /\ pc[a] \in EnablePC /\ Fine(call[a].on) => EnableInv(pc[a], call[a].on)
  /\ pc[a] \in DisablePC /\ Fine(call[a].on) => DisableInv(pc[a], call[a].on)

Apart ==
  \A a, c \in Agent : a # c /\ Meet(call[a].on, call[c].on) =>
    Uses(call[a].on) \cup Uses(call[c].on) \subseteq contended

DriverInv ==
  /\ pc[Driver] \in DisablePC \cup {"idle", "cleanup", "unbound"}
  /\ \A p \in Process : pc[p] \notin {"cleanup", "unbound"}
  /\ bound <=> pc[Driver] = "idle"
  /\ ~bound => \A p \in Process : pc[p] = "idle"
  /\ pc[Driver] = "unbound" => \A b \in Bean : ~enabled[b]
  /\ pc[Driver] = "unbound" => \A l \in Line : desc[l] # "held"

Tied(l) ==
  /\ desc[l] = "held" => requested[l] # "no"
  /\ l \notin contended /\ requested[l] # "no" => desc[l] = "held"

IInv ==
  /\ TypeOK
  /\ \A l \in Line : Tied(l)
  /\ Apart
  /\ DriverInv
  /\ \A a \in Agent : AgentInv(a)
  /\ pc[Driver] # "unbound" => \A l \in Line \ contended : AtRest(l) => LineRest(l)
  /\ \A b \in Bean : Fine(b) /\ (\A a \in Agent : call[a].on # b) => BeanRest(b)
  /\ \A l \in spoiled : \E b \in Bean : l \in LinesOf(b) /\ (Fine(b) => Broken(b))

-----------------------------------------------------------------------------
(* What a step of one call leaves alone.                                   *)

Busy(a) == pc[a] \in ModePC \cup EnablePC \cup DisablePC

Local(a, x) ==
  /\ \A l \in Line : l \notin Uses(x) =>
       /\ requested'[l] = requested[l] /\ desc'[l] = desc[l]
       /\ flags'[l] = flags[l] /\ owner'[l] = owner[l]
       /\ l \in spoiled' <=> l \in spoiled
  /\ x \in Line => spoiled' = spoiled /\ owner'[x] \in {owner[x], Nobody, ModeFile}
  /\ \A b \in Bean : b # x => enabled'[b] = enabled[b] /\ hooked'[b] = hooked[b]
  /\ \A c \in Agent : c # a => pc'[c] = pc[c] /\ call'[c] = call[c]

LEMMA UsesOf ==
  /\ \A b \in Bean : Uses(b) = {D0[b], D1[b]} /\ D0[b] \in Line /\ D1[b] \in Line /\ D0[b] # D1[b]
  /\ \A l \in Line : Uses(l) = {l} /\ l \notin Bean
  /\ Uses(Nobody) = {}
BY LinesAssumption DEF Uses, LinesOf

LEMMA OneBean ==
  ASSUME NEW b \in Bean, NEW c \in Bean, NEW l \in LinesOf(b), l \in LinesOf(c)
  PROVE  b = c
BY LinesAssumption DEF LinesOf

LEMMA Disjoint ==
  \A b, c \in Bean : b # c => /\ D0[b] \in Line /\ D0[b] \notin Uses(c)
                              /\ D1[b] \in Line /\ D1[b] \notin Uses(c)
<1> SUFFICES ASSUME NEW b \in Bean, NEW c \in Bean, b # c
             PROVE  /\ D0[b] \in Line /\ D0[b] \notin Uses(c)
                    /\ D1[b] \in Line /\ D1[b] \notin Uses(c)
  OBVIOUS
<1>1. {D0[b], D1[b]} \cap {D0[c], D1[c]} = {}
  BY LinesAssumption
<1>2. Uses(c) = {D0[c], D1[c]} /\ D0[b] \in Line /\ D1[b] \in Line
  BY UsesOf
<1> QED
  BY <1>1, <1>2

\* Interfaces are neither Nobody nor the mode file.
LEMMA BeanNames == \A b \in Bean : b # Nobody /\ b # ModeFile
BY LinesAssumption

LEMMA Labels ==
  /\ ModePC \cap EnablePC = {} /\ ModePC \cap DisablePC = {} /\ EnablePC \cap DisablePC = {}
  /\ (ModePC \cup EnablePC \cup DisablePC) \cap {"idle", "cleanup", "unbound"} = {}
BY DEF ModePC, EnablePC, DisablePC

LEMMA FineBefore ==
  ASSUME contended \subseteq contended', NEW b \in Bean, Fine(b)'
  PROVE  Fine(b)
BY DEF Fine, LinesOf

\* A call that met none of those under way is still alone on its lines.
Settled(x, y) == Meet(x, y) => Uses(x) \cup Uses(y) \subseteq contended'

\* Every other call keeps what it relies on.
LEMMA Others ==
  ASSUME IInv, NEW a \in Agent, NEW x \in Line \cup Bean, Local(a, x),
         contended \subseteq contended',
         NEW c \in Agent, c # a, Settled(x, call[c].on)
  PROVE  AgentInv(c)'
<1> DEFINE y == call[c].on
<1>1. AgentInv(c) /\ pc'[c] = pc[c] /\ call'[c] = call[c]
  BY DEF IInv, Local
<1>2. CASE pc[c] \in ModePC
  <2>1. y \in Line
    BY <1>1, <1>2 DEF AgentInv
  <2>2. ASSUME y \notin contended' PROVE ModeInv(pc[c], y)'
    <3>1. y \notin Uses(x) /\ y \notin contended
      BY <2>1, <2>2, UsesOf DEF Settled, Meet
    <3>2. /\ requested'[y] = requested[y] /\ desc'[y] = desc[y]
          /\ flags'[y] = flags[y] /\ owner'[y] = owner[y]
      BY <2>1, <3>1 DEF Local
    <3> QED
      BY <1>1, <1>2, <3>1, <3>2
         DEF AgentInv, ModeInv, LineObject, FreeLine, ByMode, Unheld
  <2>3. ASSUME NEW b \in Bean, Fine(b)', y \in LinesOf(b) PROVE owner'[y] # b
    <3>1. owner[y] # b
      <4>1. Fine(b)
        BY <2>3, FineBefore
      <4> QED
        BY <1>1, <1>2, <2>3, <4>1 DEF AgentInv
    <3>2. CASE y \notin Uses(x)
      BY <2>1, <3>1, <3>2 DEF Local
    <3>3. CASE y \in Uses(x) /\ x \in Line
      BY <3>1, <3>3, UsesOf, BeanNames DEF Local
    <3>4. CASE y \in Uses(x) /\ x \in Bean
      <4>1. x = b
        BY <2>3, <3>4, OneBean DEF Uses
      <4>2. Uses(b) \subseteq contended'
        BY <2>1, <3>4, <4>1, UsesOf DEF Settled, Meet
      <4> QED
        BY <2>3, <4>2 DEF Fine, Uses
    <3> QED
      BY <3>2, <3>3, <3>4
  <2> QED
    BY <1>1, <1>2, <2>1, <2>2, <2>3, Labels DEF AgentInv, LinesOf
<1>3. CASE pc[c] \in EnablePC \cup DisablePC
  <2>1. y \in Bean
    BY <1>1, <1>3 DEF AgentInv
  <2>2. CASE ~Fine(y)'
    BY <1>1, <1>3, <2>1, <2>2, Labels DEF AgentInv
  <2>3. CASE Fine(y)'
    <3>1. Fine(y) /\ D0[y] \in Line /\ D1[y] \in Line /\ D0[y] \notin Uses(x) /\ D1[y] \notin Uses(x)
      <4>1. Fine(y) /\ ~Meet(x, y)
        <5>1. Uses(y) = LinesOf(y)
          BY <2>1 DEF Uses
        <5> QED
          BY <1>1, <2>1, <2>3, <5>1, FineBefore DEF Settled, Fine
      <4> QED
        BY <2>1, <4>1, UsesOf DEF Meet
    <3>2. y # x
      BY <2>1, <3>1, UsesOf
    <3>3. /\ enabled'[y] = enabled[y] /\ hooked'[y] = hooked[y]
          /\ requested'[D0[y]] = requested[D0[y]] /\ desc'[D0[y]] = desc[D0[y]]
          /\ flags'[D0[y]] = flags[D0[y]] /\ owner'[D0[y]] = owner[D0[y]]
          /\ requested'[D1[y]] = requested[D1[y]] /\ desc'[D1[y]] = desc[D1[y]]
          /\ flags'[D1[y]] = flags[D1[y]] /\ owner'[D1[y]] = owner[D1[y]]
          /\ D0[y] \in spoiled' <=> D0[y] \in spoiled
          /\ D1[y] \in spoiled' <=> D1[y] \in spoiled
      BY <2>1, <3>1, <3>2 DEF Local
    <3>4. (Working(y) => Working(y)') /\ (Broken(y) => Broken(y)') /\ (Off(y) => Off(y)')
      BY <1>1, <3>3 DEF Working, Broken, Off, OwnsBoth, HeldIn, Unspoiled
    <3>5. (Clear(D0[y]) => Clear(D0[y])') /\ (Clear(D1[y]) => Clear(D1[y])')
      BY <1>1, <3>3 DEF Clear, Unheld
    <3>6. EnableInv(pc[c], y) => EnableInv(pc[c], y)'
      BY <1>1, <3>3, <3>4, <3>5, ZenonT(60) DEF EnableInv, Claimed, OwnsBoth, HeldIn, Unspoiled
    <3>7. BeanObject(y) => BeanObject(y)'
      <4>1. Whole(D0[y]) => Whole(D0[y])'
        BY <1>1, <3>3 DEF Whole, LineObject, FreeLine, ByMode, Unheld
      <4>2. Whole(D1[y]) => Whole(D1[y])'
        BY <1>1, <3>3 DEF Whole, LineObject, FreeLine, ByMode, Unheld
      <4> QED
        BY <1>1, <3>4, <4>1, <4>2 DEF BeanObject
    <3>8. DisableInv(pc[c], y) => DisableInv(pc[c], y)'
      BY <1>1, <3>3, <3>4, <3>7, SMTT(30) DEF DisableInv, OwnsBoth, Unheld, HeldIn, Unspoiled
    <3> QED
      BY <1>1, <1>3, <2>1, <3>1, <3>6, <3>8, Labels DEF AgentInv
  <2> QED
    BY <2>2, <2>3
<1>4. CASE pc[c] \in {"idle", "cleanup", "unbound"}
  BY <1>1, <1>4, Labels DEF AgentInv
<1>5. pc[c] \in ModePC \cup EnablePC \cup DisablePC \cup {"idle", "cleanup", "unbound"}
  BY DEF IInv, TypeOK
<1> QED
  BY <1>2, <1>3, <1>4, <1>5

\* An interface that is not the step's object keeps its state.
LEMMA BeanKept ==
  ASSUME IInv, NEW a \in Agent, Busy(a), NEW x, x = call[a].on, Local(a, x),
         NEW b \in Bean, b # x, Fine(b)
  PROVE  /\ Working(b) => Working(b)'
         /\ Broken(b) => Broken(b)'
         /\ Off(b) => Off(b)'
<1>1. AgentInv(a) /\ x \in Line \cup Bean
  BY DEF IInv, AgentInv, Busy
<1>2. enabled'[b] = enabled[b] /\ hooked'[b] = hooked[b]
  BY DEF Local
<1>3. CASE x \in Bean
  <2>1. D0[b] \in Line /\ D1[b] \in Line /\ D0[b] \notin Uses(x) /\ D1[b] \notin Uses(x)
    BY <1>3, Disjoint
  <2>2. /\ requested'[D0[b]] = requested[D0[b]] /\ desc'[D0[b]] = desc[D0[b]]
        /\ owner'[D0[b]] = owner[D0[b]] /\ owner'[D1[b]] = owner[D1[b]]
        /\ requested'[D1[b]] = requested[D1[b]] /\ desc'[D1[b]] = desc[D1[b]]
        /\ D0[b] \in spoiled' <=> D0[b] \in spoiled
        /\ D1[b] \in spoiled' <=> D1[b] \in spoiled
    BY <2>1 DEF Local
  <2> QED
    BY <1>2, <2>2 DEF Working, Broken, Off, OwnsBoth, HeldIn, Unspoiled
<1>4. CASE x \in Line
  <2>1. pc[a] \in ModePC /\ spoiled' = spoiled
    BY <1>1, <1>4, UsesOf DEF AgentInv, Busy, Local
  <2>2. Off(b) => Off(b)'
    BY <1>2, <2>1 DEF Off, Unspoiled
  <2>3. ASSUME OwnsBoth(b) PROVE D0[b] # x /\ D1[b] # x
    BY <1>1, <2>1, <2>3 DEF OwnsBoth, AgentInv, LinesOf
  <2>4. ASSUME OwnsBoth(b)
        PROVE  /\ requested'[D0[b]] = requested[D0[b]] /\ desc'[D0[b]] = desc[D0[b]]
               /\ owner'[D0[b]] = owner[D0[b]] /\ owner'[D1[b]] = owner[D1[b]]
               /\ requested'[D1[b]] = requested[D1[b]] /\ desc'[D1[b]] = desc[D1[b]]
    BY <1>4, <2>3, <2>4, UsesOf DEF Local
  <2> QED
    BY <1>2, <2>1, <2>2, <2>4 DEF Working, Broken, OwnsBoth, HeldIn, Unspoiled
<1> QED
  BY <1>1, <1>3, <1>4

-----------------------------------------------------------------------------
(* A step inside a call, or its last one.                                  *)

Ongoing(a) == call'[a] = call[a] /\ Busy(a)' /\ AgentInv(a)'

Returned(a, x) ==
  /\ call'[a] = NoCall /\ pc'[a] \in {"idle", "cleanup"}
  /\ x \in Line => Whole(x)'
  /\ x \in Bean /\ Fine(x) => BeanObject(x)'

LEMMA Continue ==
  ASSUME IInv, NEW a \in Agent, Busy(a), NEW x, x = call[a].on, Local(a, x), contended' = contended,
         TypeOK', \A l \in Line : Tied(l)', DriverInv', Ongoing(a) \/ Returned(a, x)
  PROVE  IInv'
<1>1. AgentInv(a) /\ x \in Line \cup Bean
  BY DEF IInv, AgentInv, Busy
<1>2. pc[Driver] # "unbound"
  BY Labels DEF IInv, DriverInv, Busy, Agent
<1>3. \A c \in Agent : c # a => Settled(x, call[c].on)
  BY DEF IInv, Apart, Settled
<1>4. call'[a].on = x \/ Uses(call'[a].on) = {}
  BY UsesOf DEF Ongoing, Returned, NoCall
<1>5. \A c \in Agent : c # a => call'[c] = call[c]
  BY DEF Local
<1>6. Apart'
  <2> SUFFICES ASSUME NEW c \in Agent, NEW d \in Agent, c # d, Meet(call'[c].on, call'[d].on)
               PROVE  Uses(call'[c].on) \cup Uses(call'[d].on) \subseteq contended
    BY DEF Apart, Uses, LinesOf, Meet
  <2>1. Meet(call[c].on, call[d].on) => Uses(call[c].on) \cup Uses(call[d].on) \subseteq contended
    BY DEF IInv, Apart
  <2>2. call'[c].on = call[c].on /\ call'[d].on = call[d].on
    BY <1>4, <1>5 DEF Meet
  <2> QED
    BY <2>1, <2>2
<1>7. \A c \in Agent : AgentInv(c)'
  <2>1. AgentInv(a)'
    BY Labels DEF Ongoing, Returned, AgentInv
  <2> QED
    BY <1>1, <1>3, <2>1, Others
<1>8. ASSUME NEW b \in Bean, b # x, Fine(b)
      PROVE  /\ Working(b) => Working(b)'
             /\ Broken(b) => Broken(b)'
             /\ Off(b) => Off(b)'
  BY <1>8, BeanKept
<1>9. ASSUME NEW l \in Line, l \notin contended, AtRest(l)' PROVE LineRest(l)'
  <2>1. CASE l \in Uses(x)
    <3>1. call'[a].on # x
      BY <1>9, <2>1 DEF AtRest, InUse, Uses, LinesOf
    <3>2. Returned(a, x)
      BY <3>1 DEF Ongoing
    <3>3. CASE x \in Line
      BY <1>9, <2>1, <3>2, <3>3, UsesOf DEF Returned, LineRest, Whole
    <3>4. CASE x \in Bean
      <4>1. l \in {D0[x], D1[x]} /\ Fine(x)
        BY <1>9, <2>1, <3>4, UsesOf DEF Fine, LinesOf
      <4> QED
        BY <1>9, <3>2, <3>4, <4>1 DEF Returned, LineRest, BeanObject, Whole, LinesOf
    <3> QED
      BY <1>1, <3>3, <3>4
  <2>2. CASE l \notin Uses(x)
    <3>1. AtRest(l)
      BY <1>5, <1>9, <2>2 DEF AtRest, InUse, Uses, LinesOf
    <3>2. LineRest(l)
      BY <1>2, <1>9, <3>1 DEF IInv
    <3>3. LineObject(l) => LineObject(l)'
      BY <2>2 DEF Local, LineObject, FreeLine, ByMode, Unheld
    <3>4. ASSUME NEW b \in Bean, l \in LinesOf(b), Working(b) \/ Broken(b)
          PROVE  LineRest(l)'
      <4>1. b # x /\ Fine(b)
        BY <1>9, <2>2, <3>4, UsesOf DEF LinesOf, Fine
      <4> QED
        BY <1>8, <3>4, <4>1 DEF LineRest, LinesOf
    <3> QED
      BY <3>2, <3>3, <3>4 DEF LineRest
  <2> QED
    BY <2>1, <2>2
<1>10. ASSUME NEW b \in Bean, Fine(b), \A c \in Agent : call'[c].on # b PROVE BeanRest(b)'
  <2>1. CASE b = x
    BY <1>10, <2>1 DEF Ongoing, Returned, BeanRest, BeanObject
  <2>2. CASE b # x
    <3>1. \A c \in Agent : call[c].on # b
      BY <1>5, <1>10, <2>2
    <3> QED
      BY <1>8, <1>10, <2>2, <3>1 DEF IInv, BeanRest
  <2> QED
    BY <2>1, <2>2
<1>11. ASSUME NEW l \in spoiled'
       PROVE  \E b \in Bean : l \in LinesOf(b) /\ (Fine(b) => Broken(b)')
  <2>1. l \in Line
    BY <1>11 DEF TypeOK
  <2>2. CASE x \in Bean /\ l \in Uses(x)
    <3>1. ASSUME Fine(x) PROVE Broken(x)' \/ Unspoiled(x)'
      <4>1. CASE Returned(a, x)
        BY <2>2, <3>1, <4>1 DEF Returned, BeanObject, Working, Off
      <4>2. CASE Ongoing(a)
        <5>1. call'[a].on = x /\ pc'[a] \in EnablePC \cup DisablePC /\ Fine(x)'
          BY <2>2, <3>1, <4>2, UsesOf DEF Ongoing, AgentInv, Busy, Fine, LinesOf
        <5>2. pc'[a] \in EnablePC => EnableInv(pc[a], x)'
          BY <4>2, <5>1 DEF Ongoing, AgentInv
        <5>3. pc'[a] \in DisablePC => DisableInv(pc[a], x)'
          BY <4>2, <5>1 DEF Ongoing, AgentInv
        <5>4. CASE pc'[a] \in EnablePC
          BY <5>2, <5>4 DEF EnableInv, Working
        <5>5. CASE pc'[a] \in DisablePC
          BY <5>3, <5>5 DEF DisableInv, DisablePC, BeanObject, Working, Off
        <5> QED
          BY <5>1, <5>4, <5>5
      <4> QED
        BY <4>1, <4>2
    <3> QED
      BY <1>11, <2>2, <3>1, UsesOf DEF Unspoiled, LinesOf
  <2>3. CASE x \in Line \/ l \notin Uses(x)
    <3>1. l \in spoiled
      BY <1>11, <2>1, <2>3 DEF Local
    <3>2. PICK b \in Bean : l \in LinesOf(b) /\ (Fine(b) => Broken(b))
      BY <3>1 DEF IInv
    <3>3. b # x
      BY <2>3, <3>2, UsesOf DEF LinesOf
    <3> QED
      BY <1>8, <3>2, <3>3
  <2> QED
    BY <1>1, <2>2, <2>3
<1> QED
  BY <1>6, <1>7, <1>9, <1>10, <1>11 DEF IInv, LinesOf, Fine

-----------------------------------------------------------------------------
(* The first step of a call.                                               *)

\* What a call finds that nobody else disturbs.
LEMMA Found ==
  ASSUME IInv, pc[Driver] # "unbound", NEW x \in Line \cup Bean, \A l \in Uses(x) : AtRest(l)
  PROVE  /\ x \in Line /\ x \notin contended => LineRest(x)
         /\ x \in Bean /\ Fine(x) => BeanObject(x)
<1>1. CASE x \in Line
  BY <1>1, UsesOf DEF IInv
<1>2. CASE x \in Bean /\ Fine(x)
  <2>1. \A a \in Agent : call[a].on # x
    BY <1>2, UsesOf DEF AtRest, InUse
  <2>2. BeanRest(x)
    BY <1>2, <2>1 DEF IInv
  <2>3. ASSUME Off(x), NEW l \in LinesOf(x), l \notin contended PROVE LineObject(l)
    <3>1. LineRest(l)
      BY <1>2, <2>3, UsesOf DEF IInv, LinesOf
    <3> QED
      BY <1>2, <2>3, <3>1, OneBean DEF LineRest, Off, Working, Broken, Unspoiled
  <2>4. D0[x] \in LinesOf(x) /\ D1[x] \in LinesOf(x)
    BY DEF LinesOf
  <2> QED
    BY <1>2, <2>2, <2>3, <2>4, UsesOf DEF BeanRest, BeanObject, Whole
<1> QED
  BY <1>1, <1>2, UsesOf

LEMMA BeginKeeps ==
  ASSUME IInv, NEW a \in Agent, NEW x \in Line \cup Bean,
         pc[Driver] # "unbound", pc'[Driver] # "unbound", pc[a] \in {"idle", "cleanup"},
         contended \subseteq contended', \A c \in Agent : Settled(x, call[c].on),
         UNCHANGED <<lines, beans, spoiled>>,
         call'[a].on = x, \A c \in Agent : c # a => pc'[c] = pc[c] /\ call'[c] = call[c],
         TypeOK', DriverInv', AgentInv(a)'
  PROVE  IInv'
<1>1. Local(a, x) /\ \A l \in Line : Tied(l)'
  BY DEF Local, lines, beans, IInv, Tied
<1>2. Uses(call[a].on) = {}
  BY UsesOf DEF IInv, AgentInv, NoCall
<1>3. Apart'
  <2> SUFFICES ASSUME NEW c \in Agent, NEW d \in Agent, c # d, Meet(call'[c].on, call'[d].on)
               PROVE  Uses(call'[c].on) \cup Uses(call'[d].on) \subseteq contended'
    BY DEF Apart, Uses, LinesOf, Meet
  <2>1. Meet(call[c].on, call[d].on) => Uses(call[c].on) \cup Uses(call[d].on) \subseteq contended
    BY DEF IInv, Apart
  <2>2. \A e \in Agent : Meet(call[e].on, x) => Uses(x) \cup Uses(call[e].on) \subseteq contended'
    BY DEF Settled, Meet
  <2>3. CASE c = a
    BY <2>2, <2>3 DEF Meet
  <2>4. CASE d = a
    BY <2>2, <2>4
  <2>5. CASE c # a /\ d # a
    BY <2>1, <2>5
  <2> QED
    BY <2>3, <2>4, <2>5
<1>4. \A c \in Agent : AgentInv(c)'
  BY <1>1, Others
<1>5. \A l \in Line : AtRest(l)' => AtRest(l)
  BY <1>2 DEF AtRest, InUse, Uses, LinesOf
<1>6. \A l \in Line : LineRest(l) => LineRest(l)'
  BY DEF LineRest, LineObject, FreeLine, ByMode, Unheld, Working, Broken, HeldIn, OwnsBoth,
         Unspoiled, lines, beans, LinesOf
<1>7. \A b \in Bean : (\A c \in Agent : call'[c].on # b) => \A c \in Agent : call[c].on # b
  BY BeanNames DEF IInv, AgentInv, NoCall
<1>8. \A b \in Bean : /\ BeanRest(b) => BeanRest(b)'
                      /\ Broken(b) => Broken(b)'
                      /\ Fine(b)' => Fine(b)
  BY DEF Fine, BeanRest, Working, Broken, Off, HeldIn, OwnsBoth, Unspoiled, lines, beans
<1> QED
  BY <1>1, <1>3, <1>4, <1>5, <1>6, <1>7, <1>8 DEF IInv, LinesOf

\* A process that begins a call has met all it shares a line with; when it met
\* nobody its lines are at rest.
LEMMA BeginMeets ==
  ASSUME IInv, NEW p \in Process, NEW x \in Line \cup Bean, NEW text, NEW label,
         Begin(p, x, text, label)
  PROVE  /\ p \in Agent /\ p # Driver /\ bound /\ pc[p] = "idle" /\ pc[Driver] = "idle"
         /\ pc'[p] = label /\ call'[p] = [on |-> x, text |-> text]
         /\ \A c \in Agent : c # p => pc'[c] = pc[c] /\ call'[c] = call[c]
         /\ contended \subseteq contended'
         /\ \A c \in Agent : Settled(x, call[c].on)
         /\ ~(Uses(x) \subseteq contended') => \A l \in Uses(x) : AtRest(l)
<1>1. p \in Agent /\ p # Driver /\ bound /\ pc[p] = "idle" /\ pc[Driver] = "idle"
  BY LinesAssumption DEF Begin, Agent, IInv, DriverInv
<1>2. /\ pc'[p] = label /\ call'[p] = [on |-> x, text |-> text]
      /\ \A c \in Agent : c # p => pc'[c] = pc[c] /\ call'[c] = call[c]
  BY <1>1 DEF Begin, IInv, TypeOK
<1>3. contended' = contended \cup
        UNION {Uses(x) \cup Uses(call[a].on) : a \in {c \in Agent : Meet(x, call[c].on)}}
  BY DEF Begin
<1>4. \A c \in Agent : Settled(x, call[c].on)
  BY <1>3 DEF Settled
<1>5. ASSUME NEW l \in Uses(x), ~AtRest(l) PROVE Uses(x) \subseteq contended'
  <2>1. PICK c \in Agent : l \in Uses(call[c].on)
    BY <1>5 DEF AtRest, InUse
  <2> QED
    BY <1>4, <1>5, <2>1 DEF Settled, Meet
<1> QED
  BY <1>1, <1>2, <1>3, <1>4, <1>5

-----------------------------------------------------------------------------
(* Types and the driver's own progress.                                    *)

LEMMA BeginTypes ==
  ASSUME TypeOK, NEW p \in Process, NEW x \in Line \cup Bean, NEW text \in Texts,
         NEW label \in {"modeFree", "take", "again", "free0"}, Begin(p, x, text, label)
  PROVE  /\ pc' \in [Agent -> ModePC \cup EnablePC \cup DisablePC \cup {"idle", "cleanup", "unbound"}]
         /\ call' \in [Agent -> [on : Line \cup Bean \cup {Nobody}, text : Texts]]
         /\ contended' \subseteq Line
<1>1. \A y \in Line \cup Bean \cup {Nobody} : Uses(y) \subseteq Line
  BY UsesOf
<1>2. \A a \in Agent : call[a].on \in Line \cup Bean \cup {Nobody}
  BY DEF TypeOK
<1>3. contended' \subseteq Line
  BY <1>1, <1>2 DEF Begin, TypeOK
<1> QED
  BY <1>3 DEF Begin, TypeOK, ModePC, EnablePC, DisablePC, Agent

LEMMA TypeStep ==
  ASSUME IInv, [Next]_vars
  PROVE  TypeOK'
<1>1. TypeOK
  BY DEF IInv
<1>2. NoCall \in [on : Line \cup Bean \cup {Nobody}, text : Texts]
  BY DEF NoCall, Texts
<1>3. \A l \in Line : flags[l] \in {"no", "asis", "in", "out"}
  BY <1>1 DEF TypeOK
<1>4. ASSUME NEW a \in Agent, pc[a] \in EnablePC \cup DisablePC
      PROVE  call[a].on \in Bean
  BY <1>4 DEF IInv, AgentInv
<1>5. CASE UNCHANGED vars
  BY <1>1, <1>5 DEF vars, lines, beans, control, history, TypeOK
<1> USE DEF history
<1>6. ASSUME NEW p \in Process, ModeStep(p) PROVE TypeOK'
  <2>1. p \in Agent
    BY DEF Agent
  <2>2. CASE ModeStore(p)
    BY <1>1, <2>1, <2>2, BeginTypes DEF ModeStore, lines, beans, TypeOK, Texts, ModePC
  <2>3. CASE ModeFree(p)
    BY <1>1, <2>1, <2>3 DEF ModeFree, At, Put, Goto, beans, TypeOK, ModePC
  <2>4. CASE ModeFlags(p)
    BY <1>1, <1>2, <2>1, <2>4, ZenonT(60)
       DEF ModeFlags, At, Goto, Return, FlagsFor, beans, TypeOK, ModePC
  <2>5. CASE ModeGet(p)
    BY <1>1, <1>3, <2>1, <2>5 DEF ModeGet, At, Get, Goto, beans, TypeOK, ModePC
  <2>6. CASE ModeGetFails(p)
    BY <1>1, <1>2, <2>1, <2>6 DEF ModeGetFails, At, GetFails, Return, beans, TypeOK
  <2>7. CASE ModeOwn(p)
    BY <1>1, <1>2, <2>1, <2>7 DEF ModeOwn, At, Return, beans, TypeOK
  <2> QED
    BY <1>6, <2>2, <2>3, <2>4, <2>5, <2>6, <2>7 DEF ModeStep
<1>7. ASSUME NEW p \in Process, EnableStep(p) PROVE TypeOK'
  <2>1. p \in Agent
    BY DEF Agent
  <2>2. CASE Enable(p)
    BY <1>1, <2>1, <2>2, BeginTypes DEF Enable, lines, beans, TypeOK, Texts, EnablePC
  <2>9. CASE EnableAgain(p)
    BY <1>1, <2>1, <2>9, BeginTypes DEF EnableAgain, lines, beans, TypeOK, Texts, EnablePC
  <2>3. CASE EnableTake(p)
    <3>1. call[p].on \in Bean
      BY <1>4, <2>1, <2>3 DEF EnableTake, At, EnablePC
    <3> QED
      BY <1>1, <2>1, <2>3, <3>1 DEF EnableTake, At, Goto, beans, TypeOK, EnablePC
  <2>4. CASE EnableDone(p)
    BY <1>1, <1>2, <2>1, <2>4 DEF EnableDone, At, Return, lines, TypeOK
  <2>5. ASSUME NEW k \in {0, 1}, EnableGet(p, k) PROVE TypeOK'
    BY <1>1, <1>3, <2>1, <2>5 DEF EnableGet, At, Get, Goto, beans, TypeOK, EnablePC
  <2>6. ASSUME NEW k \in {0, 1}, EnableGetFails(p, k) PROVE TypeOK'
    <3>1. LinesOf(call[p].on) \subseteq Line
      BY <1>4, <2>1, <2>6, UsesOf DEF EnableGetFails, At, GetAt, EnablePC, LinesOf
    <3> QED
      BY <1>1, <2>1, <2>6, <3>1 DEF EnableGetFails, At, GetFails, Goto, beans, TypeOK, DisablePC
  <2>7. ASSUME NEW k \in {0, 1}, EnableHook(p, k) PROVE TypeOK'
    BY <1>1, <2>1, <2>7 DEF EnableHook, At, Goto, lines, TypeOK, EnablePC
  <2>8. ASSUME NEW k \in {0, 1}, EnableHookFails(p, k) PROVE TypeOK'
    <3>1. LinesOf(call[p].on) \subseteq Line
      BY <1>4, <2>1, <2>8, UsesOf DEF EnableHookFails, At, HookAt, EnablePC, LinesOf
    <3> QED
      BY <1>1, <2>1, <2>8, <3>1 DEF EnableHookFails, At, Goto, lines, beans, TypeOK, DisablePC
  <2> QED
    BY <1>7, <2>2, <2>3, <2>4, <2>5, <2>6, <2>7, <2>8, <2>9 DEF EnableStep
<1>8. ASSUME NEW p \in Process, Disable(p) PROVE TypeOK'
  BY <1>1, <1>8, BeginTypes DEF Disable, lines, beans, TypeOK, Texts, DisablePC
<1>9. ASSUME NEW a \in Agent, DisableStep(a) PROVE TypeOK'
  <2>1. CASE DisableTest(a)
    BY <1>1, <1>2, <2>1, ZenonT(60) DEF DisableTest, At, Goto, Return, lines, beans, TypeOK, DisablePC
  <2>2. CASE Disown(a)
    BY <1>1, <1>2, <2>2 DEF Disown, At, Return, TypeOK
  <2>3. ASSUME NEW k \in {0, 1}, DisableFree(a, k) PROVE TypeOK'
    BY <1>1, <2>3 DEF DisableFree, At, Put, Goto, beans, TypeOK, DisablePC
  <2>4. ASSUME NEW k \in {0, 1}, DisableUnhook(a, k) PROVE TypeOK'
    BY <1>1, <2>4 DEF DisableUnhook, At, Goto, lines, TypeOK, DisablePC
  <2> QED
    BY <1>9, <2>1, <2>2, <2>3, <2>4 DEF DisableStep
<1>10. CASE Unbind
  BY <1>1, <1>10 DEF Unbind, Goto, lines, beans, TypeOK, Agent
<1>11. CASE CleanWiegand
  BY <1>1, <1>11 DEF CleanWiegand, lines, beans, TypeOK, Texts, DisablePC, Agent
<1>12. CASE CleanLines
  BY <1>1, <1>12 DEF CleanLines, Goto, beans, TypeOK, Agent
<1> QED
  BY <1>5, <1>6, <1>7, <1>8, <1>9, <1>10, <1>11, <1>12 DEF Next

\* A step of a process, which needs the driver bound or a call under way.
LEMMA DriverKept ==
  ASSUME IInv, NEW a \in Agent, Busy(a) \/ (bound /\ a # Driver),
         a = Driver => pc'[a] \in DisablePC \cup {"cleanup"},
         a # Driver => pc'[a] \notin {"cleanup", "unbound"},
         \A c \in Agent : c # a => pc'[c] = pc[c],
         bound' = bound
  PROVE  DriverInv'
<1>1. CASE a = Driver
  <2>1. pc[Driver] \in DisablePC /\ ~bound
    BY <1>1, Labels DEF IInv, DriverInv, Busy
  <2> QED
    BY <1>1, <2>1, Labels, LinesAssumption DEF IInv, DriverInv, Agent
<1>2. CASE a # Driver
  <2>1. a \in Process /\ bound
    BY <1>2, Labels DEF IInv, DriverInv, Busy, Agent
  <2> QED
    BY <1>2, <2>1, Labels, LinesAssumption DEF IInv, DriverInv, Agent
<1> QED
  BY <1>1, <1>2

-----------------------------------------------------------------------------
(* The steps of a dt<n>_mode store.                                        *)

LEMMA BoundDriver ==
  ASSUME IInv, bound
  PROVE  pc[Driver] = "idle"
BY DEF IInv, DriverInv

LEMMA ModeStoreKeeps ==
  ASSUME IInv, NEW p \in Process, ModeStore(p), TypeOK'
  PROVE  IInv'
<1>1. PICK l \in Line, text \in Texts :
        owner[l] \in {Nobody, ModeFile} /\ Begin(p, l, text, "modeFree")
  BY DEF ModeStore
<1>2. /\ p \in Agent /\ p # Driver /\ bound /\ pc[p] = "idle" /\ pc[Driver] = "idle"
      /\ pc'[p] = "modeFree" /\ call'[p] = [on |-> l, text |-> text]
      /\ \A c \in Agent : c # p => pc'[c] = pc[c] /\ call'[c] = call[c]
      /\ contended \subseteq contended'
      /\ \A c \in Agent : Settled(l, call[c].on)
      /\ ~(Uses(l) \subseteq contended') => \A m \in Uses(l) : AtRest(m)
  BY <1>1, BeginMeets
<1>3. UNCHANGED <<lines, beans, spoiled, bound>>
  BY DEF ModeStore
<1>4. l \notin contended' => LineObject(l)
  <2>1. l \notin contended' => LineRest(l)
    BY <1>2, Found, UsesOf
  <2> QED
    BY <1>1, <2>1, BeanNames DEF LineRest, Working, Broken, OwnsBoth, LinesOf
<1>5. l \notin contended' => ModeInv(pc[p], l)'
  BY <1>2, <1>3, <1>4 DEF ModeInv, lines, LineObject, FreeLine, ByMode, Unheld
<1>6. AgentInv(p)'
  BY <1>1, <1>2, <1>3, <1>5, Labels, BeanNames DEF AgentInv, ModePC, lines, LinesOf
<1>7. DriverInv'
  <2>1. pc'[p] \notin {"cleanup", "unbound"}
    BY <1>2
  <2> QED
    BY <1>2, <1>3, <2>1, DriverKept
<1>8. call'[p].on = l /\ pc'[Driver] # "unbound"
  BY <1>2 DEF Agent
<1> QED
  BY <1>2, <1>3, <1>6, <1>7, <1>8, BeginKeeps

LEMMA ModeStepKeeps ==
  ASSUME IInv, NEW p \in Process, ModeStep(p), TypeOK'
  PROVE  IInv'
<1>1. CASE ModeStore(p)
  BY <1>1, ModeStoreKeeps
<1> PICK x : x = call[p].on
  OBVIOUS
<1>2. CASE ~ModeStore(p)
  <2>1. /\ p \in Agent /\ p # Driver /\ pc[p] \in ModePC /\ Busy(p)
        /\ UNCHANGED <<beans, bound, spoiled, contended>>
    BY <1>2, LinesAssumption DEF ModeStep, ModeFree, ModeFlags, ModeGet, ModeGetFails, ModeOwn,
       At, ModePC, Busy, Agent, history
  <2>2. /\ x \in Line /\ Uses(x) = {x} /\ x \notin Bean /\ TypeOK /\ \A l \in Line : Tied(l)
        /\ x \notin contended => ModeInv(pc[p], x)
        /\ \A b \in Bean : Fine(b) /\ x \in LinesOf(b) => owner[x] # b
    BY <2>1, UsesOf DEF IInv, AgentInv
  <2>3. \A c \in Agent : c # p => pc'[c] = pc[c] /\ call'[c] = call[c]
    BY <1>2, <2>1, <2>2 DEF ModeStep, ModeFree, ModeFlags, ModeGet, ModeGetFails, ModeOwn, Goto,
       Return, TypeOK
  <2>4. \A l \in Line : l # x =>
          /\ requested'[l] = requested[l] /\ desc'[l] = desc[l]
          /\ flags'[l] = flags[l] /\ owner'[l] = owner[l]
    BY <1>2, <2>2 DEF ModeStep, ModeFree, ModeFlags, ModeGet, ModeGetFails, ModeOwn, Put, Get,
       GetFails, TypeOK
  <2>5. owner'[x] \in {owner[x], Nobody, ModeFile}
    BY <1>2, <2>2 DEF ModeStep, ModeFree, ModeFlags, ModeGet, ModeGetFails, ModeOwn, TypeOK
  <2>6. Local(p, x)
    BY <2>1, <2>2, <2>3, <2>4, <2>5 DEF Local, beans
  <2>7. \/ call'[p] = call[p] /\ pc'[p] \in ModePC
        \/ call'[p] = NoCall /\ pc'[p] = "idle"
    BY <1>2, <2>1, <2>2 DEF ModeStep, ModeFree, ModeFlags, ModeGet, ModeGetFails, ModeOwn, Goto,
       Return, ModePC, TypeOK
  <2>8. DriverInv'
    <3>1. pc'[p] \notin {"cleanup", "unbound"}
      BY <2>7, Labels
    <3> QED
      BY <2>1, <2>3, <3>1, DriverKept
  <2>9. Tied(x)'
    <3>1. desc'[x] = "held" => requested'[x] # "no"
      <4>1. flags[x] # "no" /\ (desc[x] = "held" => requested[x] # "no")
        <5>1. flags \in [Line -> {"asis", "in", "out"}] /\ x \in Line
          BY <2>2 DEF TypeOK
        <5>2. Tied(x)
          BY <2>2
        <5> QED
          BY <5>1, <5>2 DEF Tied
      <4> QED
      BY <1>2, <2>2, <4>1 DEF ModeStep, ModeFree, ModeFlags, ModeGet, ModeGetFails, ModeOwn, Put, Get,
         GetFails, TypeOK
    <3>2. x \notin contended /\ requested'[x] # "no" => desc'[x] = "held"
      BY <1>2, <2>2 DEF ModeStep, ModeFree, ModeFlags, ModeGet, ModeGetFails, ModeOwn, At, Put, Get,
         GetFails, Tied, TypeOK, ModeInv, FreeLine, Unheld
    <3> QED
      BY <2>1, <3>1, <3>2 DEF Tied
  <2>10. \A l \in Line : Tied(l)'
    BY <2>1, <2>2, <2>4, <2>9 DEF Tied
  <2>11. ASSUME x \notin contended
         PROVE  \/ call'[p] = call[p] /\ pc'[p] \in ModePC /\ ModeInv(pc[p], x)'
                \/ call'[p] = NoCall /\ pc'[p] = "idle" /\ LineObject(x)'
    <3> ModeInv(pc[p], x) /\ Tied(x)
      BY <2>2, <2>11
    <3>1. CASE ModeFree(p)
      BY <2>1, <2>2, <3>1 DEF ModeFree, At, Put, Goto, ModeInv, ModePC, LineObject, FreeLine, ByMode,
         Unheld, TypeOK
    <3>2. CASE ModeFlags(p)
      <4>1. owner'[x] = Nobody /\ Unheld(x) /\ Unheld(x)'
        BY <2>2, <3>2 DEF ModeFlags, At, ModeInv, Unheld, TypeOK
      <4>2. flags'[x] = FlagsFor(call[p].text)
        BY <2>2, <3>2 DEF ModeFlags, TypeOK
      <4>3. CASE FlagsFor(call[p].text) = "asis"
        BY <2>1, <2>2, <3>2, <4>1, <4>3 DEF ModeFlags, Return, LineObject, FreeLine, Unheld, TypeOK
      <4>4. CASE FlagsFor(call[p].text) # "asis"
        BY <2>1, <2>2, <3>2, <4>1, <4>2, <4>4
           DEF ModeFlags, Goto, ModeInv, FreeLine, Unheld, TypeOK, ModePC
      <4> QED
        BY <4>3, <4>4
    <3>3. CASE ModeGet(p)
      BY <2>1, <2>2, <3>3 DEF ModeGet, At, Get, Goto, ModeInv, ModePC, FreeLine, Unheld, TypeOK
    <3>4. CASE ModeGetFails(p)
      BY <2>1, <2>2, <3>4 DEF ModeGetFails, At, GetFails, Return, ModeInv, LineObject, FreeLine,
         Unheld, TypeOK
    <3>5. CASE ModeOwn(p)
      BY <2>1, <2>2, <3>5 DEF ModeOwn, At, Return, ModeInv, LineObject, ByMode, TypeOK
    <3> QED
      BY <1>2, <3>1, <3>2, <3>3, <3>4, <3>5 DEF ModeStep
  <2>12. CASE call'[p] = call[p] /\ pc'[p] \in ModePC
    <3>1. \A b \in Bean : Fine(b) /\ x \in LinesOf(b) => owner'[x] # b
      BY <2>2, <2>5, BeanNames
    <3>2. AgentInv(p)'
      BY <2>1, <2>2, <2>11, <2>12, <3>1, Labels DEF AgentInv, Fine, LinesOf, NoCall
    <3>3. Ongoing(p)
      BY <2>12, <3>2 DEF Ongoing, Busy
    <3> QED
      BY <2>1, <2>6, <2>8, <2>10, <3>3, Continue
  <2>13. CASE call'[p] = NoCall /\ pc'[p] = "idle"
    <3>1. Whole(x)'
      BY <2>1, <2>11, <2>13, Labels DEF Whole
    <3>2. Returned(p, x)
      BY <2>2, <2>13, <3>1 DEF Returned
    <3> QED
      BY <2>1, <2>6, <2>8, <2>10, <3>2, Continue
  <2> QED
    BY <2>7, <2>12, <2>13
<1> QED
  BY <1>1, <1>2

-----------------------------------------------------------------------------
(* The steps of a store of 1 to w<N>_enabled.                              *)

LEMMA EnableKeeps ==
  ASSUME IInv, NEW p \in Process, Enable(p), TypeOK'
  PROVE  IInv'
<1>1. PICK b \in Bean : /\ ~enabled[b] /\ \A l \in LinesOf(b) : owner[l] = Nobody
                        /\ Begin(p, b, "x", "take")
  BY DEF Enable
<1>2. /\ p \in Agent /\ p # Driver /\ bound /\ pc[p] = "idle" /\ pc[Driver] = "idle"
      /\ pc'[p] = "take" /\ call'[p] = [on |-> b, text |-> "x"]
      /\ \A c \in Agent : c # p => pc'[c] = pc[c] /\ call'[c] = call[c]
      /\ contended \subseteq contended'
      /\ \A c \in Agent : Settled(b, call[c].on)
      /\ ~(Uses(b) \subseteq contended') => \A m \in Uses(b) : AtRest(m)
  BY <1>1, BeginMeets
<1>3. UNCHANGED <<lines, beans, spoiled, bound>>
  BY DEF Enable
<1>4. ASSUME Fine(b)' PROVE EnableInv(pc[p], b)'
  <2>1. BeanObject(b)
    BY <1>2, <1>4, Found, FineBefore, UsesOf DEF Fine, LinesOf
  <2>2. Off(b) /\ Whole(D0[b]) /\ Whole(D1[b]) /\ owner[D0[b]] = Nobody /\ owner[D1[b]] = Nobody
    BY <1>1, <2>1, BeanNames DEF BeanObject, Working, Broken, OwnsBoth, LinesOf
  <2>3. Clear(D0[b])' /\ Clear(D1[b])'
    BY <1>2, <1>3, <2>2 DEF Clear, Whole, LineObject, FreeLine, ByMode, Unheld, lines, Nobody, ModeFile
  <2> QED
    BY <1>2, <1>3, <2>2, <2>3 DEF EnableInv, EnablePC, lines, beans, Off, Unspoiled
<1>5. AgentInv(p)'
  BY <1>2, <1>4, Labels DEF AgentInv, EnablePC
<1>6. DriverInv'
  <2>1. pc'[p] \notin {"cleanup", "unbound"}
    BY <1>2
  <2> QED
    BY <1>2, <1>3, <2>1, DriverKept
<1>7. call'[p].on = b /\ pc'[Driver] # "unbound"
  BY <1>2 DEF Agent
<1> QED
  BY <1>2, <1>3, <1>5, <1>6, <1>7, BeginKeeps

\* A call on an interface that is enabled: a store of 1 that only resets it or
\* a store of 0.
LEMMA EnabledBegins ==
  ASSUME IInv, NEW p \in Process, NEW b \in Bean, enabled[b], NEW label \in {"again", "free0"},
         Begin(p, b, "x", label), UNCHANGED <<lines, beans, bound, spoiled>>, TypeOK'
  PROVE  IInv'
<1>1. /\ p \in Agent /\ p # Driver /\ bound /\ pc[p] = "idle" /\ pc[Driver] = "idle"
      /\ pc'[p] = label /\ call'[p] = [on |-> b, text |-> "x"]
      /\ \A c \in Agent : c # p => pc'[c] = pc[c] /\ call'[c] = call[c]
      /\ contended \subseteq contended'
      /\ \A c \in Agent : Settled(b, call[c].on)
      /\ ~(Uses(b) \subseteq contended') => \A m \in Uses(b) : AtRest(m)
  BY BeginMeets
<1>2. ASSUME Fine(b)' PROVE Working(b)'
  <2>1. BeanObject(b)
    BY <1>1, <1>2, Found, FineBefore, UsesOf DEF Fine, LinesOf
  <2>2. Working(b)
    BY <2>1 DEF BeanObject, Broken, Off
  <2> QED
    BY <2>2 DEF Working, OwnsBoth, HeldIn, Unspoiled, lines, beans
<1>3. AgentInv(p)'
  BY <1>1, <1>2, Labels DEF AgentInv, EnableInv, DisableInv, EnablePC, DisablePC
<1>4. DriverInv'
  <2>1. pc'[p] \notin {"cleanup", "unbound"}
    BY <1>1
  <2> QED
    BY <1>1, <2>1, DriverKept
<1>5. call'[p].on = b /\ pc'[Driver] # "unbound"
  BY <1>1 DEF Agent
<1> QED
  BY <1>1, <1>3, <1>4, <1>5, BeginKeeps

\* The steps of one call are those of Process and of Driver's cleanup: what
\* they have in common.
LEMMA BeanStepFacts ==
  ASSUME IInv, NEW a \in Agent, pc[a] \in EnablePC \cup DisablePC, NEW x, x = call[a].on
  PROVE  /\ x \in Bean /\ x \notin Line /\ Uses(x) = {D0[x], D1[x]} /\ LinesOf(x) = {D0[x], D1[x]}
         /\ D0[x] \in Line /\ D1[x] \in Line /\ D0[x] # D1[x]
         /\ Wire(x, 0) = D0[x] /\ Wire(x, 1) = D1[x]
         /\ Tied(D0[x]) /\ Tied(D1[x]) /\ TypeOK /\ Busy(a)
         /\ pc[a] \in EnablePC /\ Fine(x) => EnableInv(pc[a], x)
         /\ pc[a] \in DisablePC /\ Fine(x) => DisableInv(pc[a], x)
BY UsesOf, Labels DEF IInv, AgentInv, Busy, LinesOf, Wire

LEMMA EnableStepKeeps ==
  ASSUME IInv, NEW p \in Process, EnableStep(p), TypeOK'
  PROVE  IInv'
<1>1. CASE Enable(p) \/ EnableAgain(p)
  BY <1>1, EnableKeeps, EnabledBegins DEF EnableAgain
<1> PICK x : x = call[p].on
  OBVIOUS
<1>2. CASE ~Enable(p) /\ ~EnableAgain(p)
  <2> USE DEF GetAt, HookAt
  <2>1. p \in Agent /\ p # Driver /\ pc[p] \in EnablePC /\ UNCHANGED <<bound, contended>>
    BY <1>2, LinesAssumption DEF EnableStep, EnableTake, EnableGet, EnableGetFails, EnableHook,
       EnableHookFails, EnableDone, At, EnablePC, Agent, history
  <2>2. /\ x \in Bean /\ x \notin Line /\ Uses(x) = {D0[x], D1[x]} /\ LinesOf(x) = {D0[x], D1[x]}
        /\ D0[x] \in Line /\ D1[x] \in Line /\ D0[x] # D1[x]
        /\ Wire(x, 0) = D0[x] /\ Wire(x, 1) = D1[x]
        /\ Tied(D0[x]) /\ Tied(D1[x]) /\ TypeOK /\ Busy(p)
        /\ Fine(x) => EnableInv(pc[p], x)
    BY <2>1, BeanStepFacts
  <2>3. \A c \in Agent : c # p => pc'[c] = pc[c] /\ call'[c] = call[c]
    BY <1>2, <2>1, <2>2 DEF EnableStep, EnableTake, EnableGet, EnableGetFails, EnableHook,
       EnableHookFails, EnableDone, Goto, Return, TypeOK
  <2>4. \A l \in Line : l \notin Uses(x) =>
          /\ requested'[l] = requested[l] /\ desc'[l] = desc[l]
          /\ flags'[l] = flags[l] /\ owner'[l] = owner[l]
          /\ l \in spoiled' <=> l \in spoiled
    <3>1. CASE EnableTake(p)
      BY <2>2, <3>1 DEF EnableTake, history, TypeOK
    <3>2. ASSUME NEW k \in {0, 1}, EnableGet(p, k) \/ EnableGetFails(p, k)
          PROVE  \A l \in Line : l \notin Uses(x) =>
                   /\ requested'[l] = requested[l] /\ desc'[l] = desc[l]
                   /\ flags'[l] = flags[l] /\ owner'[l] = owner[l]
                   /\ l \in spoiled' <=> l \in spoiled
      BY <2>2, <3>2 DEF EnableGet, EnableGetFails, Get, GetFails, history, TypeOK
    <3>3. ASSUME NEW k \in {0, 1}, EnableHook(p, k) \/ EnableHookFails(p, k)
          PROVE  UNCHANGED lines /\ \A l \in Line : l \notin Uses(x) => (l \in spoiled' <=> l \in spoiled)
      BY <2>2, <3>3 DEF EnableHook, EnableHookFails, history
    <3>4. CASE EnableDone(p)
      BY <3>4 DEF EnableDone, lines, history
    <3> QED
      BY <1>2, <3>1, <3>2, <3>3, <3>4 DEF EnableStep, lines
  <2>5. \A b \in Bean : b # x => enabled'[b] = enabled[b] /\ hooked'[b] = hooked[b]
    <3>1. CASE EnableDone(p)
      BY <2>2, <3>1 DEF EnableDone, TypeOK
    <3>2. ASSUME NEW k \in {0, 1}, EnableHook(p, k)
          PROVE  \A b \in Bean : b # x => enabled'[b] = enabled[b] /\ hooked'[b] = hooked[b]
      BY <2>2, <3>2 DEF EnableHook, TypeOK
    <3>3. CASE UNCHANGED beans
      BY <3>3 DEF beans
    <3> QED
      BY <1>2, <3>1, <3>2, <3>3 DEF EnableStep, EnableTake, EnableGet, EnableGetFails,
         EnableHookFails
  <2>6. Local(p, x)
    BY <2>2, <2>3, <2>4, <2>5 DEF Local
  <2>7. pc'[p] \in EnablePC \cup {"disable", "idle"}
    BY <1>2, <2>1, <2>2 DEF EnableStep, EnableTake, EnableGet, EnableGetFails, EnableHook,
       EnableHookFails, EnableDone, Goto, Return, EnablePC, TypeOK
  <2>8. DriverInv'
    <3>1. pc'[p] \notin {"cleanup", "unbound"}
      BY <2>7, Labels
    <3> QED
      BY <2>1, <2>2, <2>3, <3>1, DriverKept
  <2>9. \/ call'[p] = NoCall /\ pc'[p] = "idle"
        \/ call'[p] = call[p] /\ pc'[p] \in EnablePC \cup {"disable"}
    BY <1>2, <2>1, <2>2 DEF EnableStep, EnableTake, EnableGet, EnableGetFails, EnableHook,
       EnableHookFails, EnableDone, Goto, Return, EnablePC, TypeOK
  <2>10. \A l \in {D0[x], D1[x]} : desc'[l] = "held" => requested'[l] # "no"
    <3>1. \A l \in {D0[x], D1[x]} : flags[l] # "no" /\ (desc[l] = "held" => requested[l] # "no")
      BY <2>2 DEF Tied, TypeOK
    <3>2. CASE UNCHANGED <<requested, desc>>
      BY <3>1, <3>2
    <3>3. ASSUME NEW k \in {0, 1}, Get(Wire(x, k)) \/ GetFails(Wire(x, k))
          PROVE  \A l \in {D0[x], D1[x]} : desc'[l] = "held" => requested'[l] # "no"
      BY <2>2, <3>1, <3>3 DEF Get, GetFails, TypeOK
    <3> QED
      BY <1>2, <3>2, <3>3 DEF EnableStep, EnableTake, EnableGet, EnableGetFails, EnableHook,
         EnableHookFails, EnableDone, lines
  <2> DEFINE Held(l) == l \notin contended /\ requested'[l] # "no" => desc'[l] = "held"
             Stays == /\ call'[p] = call[p]
                      /\ \/ pc'[p] \in EnablePC /\ EnableInv(pc[p], x)'
                         \/ pc'[p] = "disable" /\ DisableInv(pc[p], x)'
             Leaves == call'[p] = NoCall /\ pc'[p] = "idle" /\ BeanObject(x)'
  <2>11. ASSUME Fine(x)
         PROVE  Held(D0[x]) /\ Held(D1[x]) /\ (Stays \/ Leaves)
    <3> EnableInv(pc[p], x) /\ contended' = contended
      BY <2>1, <2>2, <2>11
    <3> USE DEF Unheld, HeldIn, Unspoiled, OwnsBoth, TypeOK, Clear, Tied, history
    <3>1. CASE EnableTake(p)
      <4>1. /\ pc[p] = "take" /\ pc'[p] = "get0" /\ call'[p] = call[p] /\ hooked[x] = {}
            /\ ~enabled[x] /\ Unspoiled(x) /\ Clear(D0[x]) /\ Clear(D1[x])
        BY <2>1, <2>2, <3>1 DEF EnableTake, At, Goto, EnableInv, EnablePC
      <4>2. /\ owner'[D0[x]] = x /\ owner'[D1[x]] = x /\ flags'[D0[x]] = "in"
            /\ flags'[D1[x]] = "in" /\ UNCHANGED <<requested, desc, enabled, hooked, spoiled>>
        BY <2>2, <3>1 DEF EnableTake, beans
      <4> QED
        BY <2>2, <4>1, <4>2 DEF EnableInv, EnablePC, Claimed
    <3>2. CASE EnableDone(p)
      <4>1. /\ pc'[p] = "idle" /\ call'[p] = NoCall /\ hooked[x] = {0, 1}
            /\ Unspoiled(x) /\ OwnsBoth(x) /\ HeldIn(D0[x]) /\ HeldIn(D1[x])
        <5>1. pc[p] \in {"enable", "again"} /\ pc'[p] = "idle" /\ call'[p] = NoCall
          BY <2>1, <2>2, <3>2 DEF EnableDone, Return
        <5> QED
          BY <5>1 DEF EnableInv, EnablePC, Claimed, Working
      <4>2. enabled'[x] /\ UNCHANGED <<lines, hooked, spoiled>>
        BY <2>2, <3>2 DEF EnableDone
      <4> QED
        BY <2>2, <4>1, <4>2 DEF BeanObject, Working, lines
    <3>3. CASE EnableGet(p, 0)
      <4>1. /\ pc[p] = "get0" /\ pc'[p] = "get1" /\ call'[p] = call[p] /\ hooked[x] = {}
            /\ ~enabled[x] /\ Unspoiled(x) /\ Claimed(x) /\ Clear(D0[x]) /\ Clear(D1[x])
        BY <2>1, <2>2, <3>3 DEF EnableGet, At, Goto, EnableInv, EnablePC
      <4>2. /\ requested'[D0[x]] = "in" /\ desc'[D0[x]] = "held"
            /\ requested'[D1[x]] = requested[D1[x]] /\ desc'[D1[x]] = desc[D1[x]]
            /\ UNCHANGED <<flags, owner, enabled, hooked, spoiled>>
        <5>1. Get(D0[x]) /\ UNCHANGED <<flags, owner, enabled, hooked, spoiled>>
          BY <2>2, <3>3 DEF EnableGet, beans
        <5> QED
          BY <2>2, <4>1, <5>1 DEF Get, Claimed
      <4> QED
        BY <2>2, <4>1, <4>2 DEF EnableInv, EnablePC, Claimed
    <3>4. CASE EnableGet(p, 1)
      <4>1. /\ pc[p] = "get1" /\ pc'[p] = "hook0" /\ call'[p] = call[p] /\ hooked[x] = {}
            /\ ~enabled[x] /\ Unspoiled(x) /\ Claimed(x) /\ HeldIn(D0[x]) /\ Clear(D1[x])
        BY <2>1, <2>2, <3>4 DEF EnableGet, At, Goto, EnableInv, EnablePC
      <4>2. /\ requested'[D1[x]] = "in" /\ desc'[D1[x]] = "held"
            /\ requested'[D0[x]] = requested[D0[x]] /\ desc'[D0[x]] = desc[D0[x]]
            /\ UNCHANGED <<flags, owner, enabled, hooked, spoiled>>
        <5>1. Get(D1[x]) /\ UNCHANGED <<flags, owner, enabled, hooked, spoiled>>
          BY <2>2, <3>4 DEF EnableGet, beans
        <5> QED
          BY <2>2, <4>1, <5>1 DEF Get, Claimed
      <4> QED
        BY <2>2, <4>1, <4>2 DEF EnableInv, EnablePC, Claimed
    <3>5. ASSUME NEW k \in {0, 1}, EnableGetFails(p, k)
          PROVE  Held(D0[x]) /\ Held(D1[x]) /\ (Stays \/ Leaves)
      <4>1. /\ pc[p] = IF k = 0 THEN "get0" ELSE "get1"
            /\ pc'[p] = "disable" /\ call'[p] = call[p] /\ ~enabled[x] /\ Claimed(x)
            /\ Clear(Wire(x, k))
        BY <2>1, <2>2, <3>5 DEF EnableGetFails, At, Goto, EnableInv, EnablePC
      <4>2. /\ spoiled' = spoiled \cup {D0[x], D1[x]}
            /\ UNCHANGED <<requested, flags, owner, enabled, hooked>>
            /\ desc' = [desc EXCEPT ![Wire(x, k)] = "err"]
        BY <2>2, <3>5 DEF EnableGetFails, GetFails, beans
      <4>3. Broken(x)'
        BY <4>1, <4>2 DEF Broken, Claimed
      <4>4. Held(D0[x]) /\ Held(D1[x])
        BY <2>2, <4>1, <4>2 DEF Wire
      <4> QED
        BY <4>1, <4>3, <4>4 DEF DisableInv, BeanObject
    <3>6. CASE EnableHook(p, 0)
      <4>1. /\ pc[p] = "hook0" /\ pc'[p] = "hook1" /\ call'[p] = call[p] /\ hooked[x] = {}
            /\ ~enabled[x] /\ Unspoiled(x) /\ Claimed(x) /\ HeldIn(D0[x]) /\ HeldIn(D1[x])
        BY <2>1, <2>2, <3>6 DEF EnableHook, At, Goto, EnableInv, EnablePC
      <4>2. hooked'[x] = {0} /\ UNCHANGED <<lines, enabled, spoiled>>
        BY <2>2, <3>6, <4>1 DEF EnableHook
      <4> QED
        BY <2>2, <4>1, <4>2 DEF EnableInv, EnablePC, Claimed, lines
    <3>7. CASE EnableHook(p, 1)
      <4>1. /\ pc[p] = "hook1" /\ pc'[p] = "enable" /\ call'[p] = call[p] /\ hooked[x] = {0}
            /\ ~enabled[x] /\ Unspoiled(x) /\ Claimed(x) /\ HeldIn(D0[x]) /\ HeldIn(D1[x])
        BY <2>1, <2>2, <3>7 DEF EnableHook, At, Goto, EnableInv, EnablePC
      <4>2. hooked'[x] = {0, 1} /\ UNCHANGED <<lines, enabled, spoiled>>
        BY <2>2, <3>7, <4>1 DEF EnableHook
      <4> QED
        BY <2>2, <4>1, <4>2 DEF EnableInv, EnablePC, Claimed, lines
    <3>8. ASSUME NEW k \in {0, 1}, EnableHookFails(p, k)
          PROVE  Held(D0[x]) /\ Held(D1[x]) /\ (Stays \/ Leaves)
      <4>1. /\ pc'[p] = "disable" /\ call'[p] = call[p] /\ ~enabled[x] /\ Claimed(x)
        BY <2>1, <2>2, <3>8 DEF EnableHookFails, At, Goto, EnableInv, EnablePC
      <4>2. spoiled' = spoiled \cup {D0[x], D1[x]} /\ UNCHANGED <<lines, enabled, hooked>>
        BY <2>2, <3>8 DEF EnableHookFails, beans
      <4>3. Broken(x)'
        BY <4>1, <4>2 DEF Broken, Claimed, lines
      <4>4. Held(D0[x]) /\ Held(D1[x])
        BY <2>2, <4>2 DEF lines
      <4> QED
        BY <4>1, <4>3, <4>4 DEF DisableInv, BeanObject
    <3> QED
      BY <1>2, <3>1, <3>2, <3>3, <3>4, <3>5, <3>6, <3>7, <3>8 DEF EnableStep
  <2>12. \A l \in Line : Tied(l)'
    <3>1. Tied(D0[x])' /\ Tied(D1[x])'
      BY <2>1, <2>2, <2>10, <2>11 DEF Tied, Fine, LinesOf
    <3> QED
      BY <2>1, <2>2, <2>4, <3>1 DEF Tied, IInv
  <2>13. CASE call'[p] = call[p]
    <3>1. pc'[p] \in EnablePC \cup {"disable"}
      BY <2>2, <2>9, <2>13, UsesOf DEF NoCall, Busy
    <3>2. AgentInv(p)'
      BY <2>1, <2>2, <2>11, <2>13, <3>1, Labels DEF AgentInv, DisablePC, Fine, LinesOf
    <3>3. Ongoing(p)
      BY <2>13, <3>1, <3>2 DEF Ongoing, Busy, DisablePC
    <3> QED
      BY <2>1, <2>2, <2>6, <2>8, <2>12, <3>3, Continue
  <2>14. CASE call'[p] # call[p]
    <3>1. Returned(p, x)
      BY <2>2, <2>9, <2>11, <2>14 DEF Returned
    <3> QED
      BY <2>1, <2>2, <2>6, <2>8, <2>12, <3>1, Continue
  <2> QED
    BY <2>13, <2>14
<1> QED
  BY <1>1, <1>2

-----------------------------------------------------------------------------
(* wiegandDisable, called by a store or by cleanup.                        *)

LEMMA DisableKeeps ==
  ASSUME IInv, NEW p \in Process, Disable(p), TypeOK'
  PROVE  IInv'
BY EnabledBegins DEF Disable

LEMMA DisableStepKeeps ==
  ASSUME IInv, NEW a \in Agent, DisableStep(a), TypeOK'
  PROVE  IInv'
<1> USE DEF FreeAt, UnhookAt
<1> PICK x : x = call[a].on
  OBVIOUS
<1>1. pc[a] \in DisablePC /\ UNCHANGED <<bound, spoiled, contended>>
  BY DEF DisableStep, DisableTest, DisableFree, DisableUnhook, Disown, At, DisablePC, history
<1>2. /\ x \in Bean /\ x \notin Line /\ Uses(x) = {D0[x], D1[x]} /\ LinesOf(x) = {D0[x], D1[x]}
      /\ D0[x] \in Line /\ D1[x] \in Line /\ D0[x] # D1[x]
      /\ Wire(x, 0) = D0[x] /\ Wire(x, 1) = D1[x]
      /\ Tied(D0[x]) /\ Tied(D1[x]) /\ TypeOK /\ Busy(a)
      /\ Fine(x) => DisableInv(pc[a], x)
  BY <1>1, BeanStepFacts
<1>3. \A c \in Agent : c # a => pc'[c] = pc[c] /\ call'[c] = call[c]
  BY <1>2 DEF DisableStep, DisableTest, DisableFree, DisableUnhook, Disown, Goto, Return, TypeOK
<1>4. \A l \in Line : l \notin Uses(x) =>
        /\ requested'[l] = requested[l] /\ desc'[l] = desc[l]
        /\ flags'[l] = flags[l] /\ owner'[l] = owner[l]
  BY <1>2 DEF DisableStep, DisableTest, DisableFree, DisableUnhook, Disown, Put, lines, TypeOK
<1>5. \A b \in Bean : b # x => enabled'[b] = enabled[b] /\ hooked'[b] = hooked[b]
  BY <1>2 DEF DisableStep, DisableTest, DisableFree, DisableUnhook, Disown, beans, TypeOK
<1>6. Local(a, x)
  BY <1>1, <1>2, <1>3, <1>4, <1>5 DEF Local
<1>7. pc'[a] \in DisablePC \/ pc'[a] = IF a = Driver THEN "cleanup" ELSE "idle"
  BY <1>2 DEF DisableStep, DisableTest, DisableFree, DisableUnhook, Disown, Goto, Return, DisablePC,
     TypeOK
<1>8. DriverInv'
  <2>1. a = Driver => pc'[a] \in DisablePC \cup {"cleanup"}
    BY <1>7
  <2>2. a # Driver => pc'[a] \notin {"cleanup", "unbound"}
    BY <1>7, Labels
  <2> QED
    BY <1>1, <1>2, <1>3, <2>1, <2>2, DriverKept
<1>13. \/ call'[a] = NoCall /\ pc'[a] \in {"idle", "cleanup"}
       \/ call'[a] = call[a] /\ pc'[a] \in DisablePC
  BY <1>2 DEF DisableStep, DisableTest, DisableFree, DisableUnhook, Disown, Goto, Return, DisablePC,
     TypeOK
<1>14. \A l \in {D0[x], D1[x]} : desc'[l] = "held" => requested'[l] # "no"
  <2>1. \A l \in {D0[x], D1[x]} : desc[l] = "held" => requested[l] # "no"
    BY <1>2 DEF Tied
  <2>2. CASE UNCHANGED <<requested, desc>>
    BY <2>1, <2>2
  <2>3. ASSUME NEW k \in {0, 1}, DisableFree(a, k)
        PROVE  \A l \in {D0[x], D1[x]} : desc'[l] = "held" => requested'[l] # "no"
    BY <1>2, <2>1, <2>3 DEF DisableFree, Put, TypeOK
  <2> QED
    BY <2>2, <2>3 DEF DisableStep, DisableTest, DisableUnhook, Disown, lines
<1> DEFINE Held(l) == l \notin contended /\ requested'[l] # "no" => desc'[l] = "held"
           Stays == call'[a] = call[a] /\ pc'[a] \in DisablePC /\ DisableInv(pc[a], x)'
           Leaves == call'[a] = NoCall /\ pc'[a] \in {"idle", "cleanup"} /\ BeanObject(x)'
<1>9. ASSUME Fine(x)
      PROVE  Held(D0[x]) /\ Held(D1[x]) /\ (Stays \/ Leaves)
  <2> DisableInv(pc[a], x) /\ contended' = contended
    BY <1>1, <1>2, <1>9
  <2> USE DEF Unheld, HeldIn, Unspoiled, OwnsBoth, TypeOK, Tied, history
  <2>1. CASE DisableTest(a)
    <3>1. BeanObject(x) /\ UNCHANGED <<lines, beans, spoiled>>
      BY <1>2, <2>1 DEF DisableTest, At, DisableInv
    <3>2. BeanObject(x)' /\ Held(D0[x]) /\ Held(D1[x])
      BY <1>2, <3>1 DEF BeanObject, Working, Broken, Off, Whole, LineObject, FreeLine, ByMode, lines,
         beans
    <3>3. CASE enabled[x]
      <4>1. Working(x)'
        BY <3>1, <3>2, <3>3 DEF BeanObject, Broken, Off, beans
      <4>2. call'[a] = call[a] /\ pc'[a] = "free0"
        BY <1>2, <2>1, <3>3 DEF DisableTest, Goto
      <4> QED
        BY <3>2, <4>1, <4>2 DEF DisableInv, DisablePC
    <3>4. CASE ~enabled[x]
      BY <1>2, <2>1, <3>2, <3>4 DEF DisableTest, Return
    <3> QED
      BY <3>3, <3>4
  <2>2. CASE DisableFree(a, 0)
    <3>1. pc[a] = "free0" /\ pc'[a] = "free1" /\ call'[a] = call[a] /\ Working(x)
      BY <1>2, <2>2 DEF DisableFree, At, Goto, DisableInv
    <3>2. /\ requested'[D0[x]] = "no" /\ desc'[D0[x]] = "null"
          /\ requested'[D1[x]] = requested[D1[x]] /\ desc'[D1[x]] = desc[D1[x]]
          /\ UNCHANGED <<owner, enabled, hooked, spoiled>>
      BY <1>1, <1>2, <2>2, <3>1 DEF DisableFree, Put, beans, Working
    <3> QED
      BY <1>2, <3>1, <3>2 DEF DisableInv, DisablePC, Working
  <2>3. CASE DisableFree(a, 1)
    <3>1. /\ pc[a] = "free1" /\ pc'[a] = "unhook0" /\ call'[a] = call[a] /\ hooked[x] = {0, 1}
          /\ enabled[x] /\ OwnsBoth(x) /\ Unspoiled(x) /\ Unheld(D0[x]) /\ HeldIn(D1[x])
      BY <1>2, <2>3 DEF DisableFree, At, Goto, DisableInv
    <3>2. /\ requested'[D1[x]] = "no" /\ desc'[D1[x]] = "null"
          /\ requested'[D0[x]] = requested[D0[x]] /\ desc'[D0[x]] = desc[D0[x]]
          /\ UNCHANGED <<owner, enabled, hooked, spoiled>>
      BY <1>1, <1>2, <2>3, <3>1 DEF DisableFree, Put, beans
    <3> QED
      BY <1>2, <3>1, <3>2 DEF DisableInv, DisablePC
  <2>4. CASE DisableUnhook(a, 0)
    <3>1. /\ pc[a] = "unhook0" /\ pc'[a] = "unhook1" /\ call'[a] = call[a] /\ hooked[x] = {0, 1}
          /\ enabled[x] /\ OwnsBoth(x) /\ Unspoiled(x) /\ Unheld(D0[x]) /\ Unheld(D1[x])
      BY <1>2, <2>4 DEF DisableUnhook, At, Goto, DisableInv
    <3>2. hooked'[x] = {1} /\ UNCHANGED <<lines, enabled, spoiled>>
      BY <1>1, <1>2, <2>4, <3>1 DEF DisableUnhook
    <3> QED
      BY <1>2, <3>1, <3>2 DEF DisableInv, DisablePC, lines
  <2>5. CASE DisableUnhook(a, 1)
    <3>1. /\ pc[a] = "unhook1" /\ pc'[a] = "disown" /\ call'[a] = call[a] /\ hooked[x] = {1}
          /\ enabled[x] /\ OwnsBoth(x) /\ Unspoiled(x) /\ Unheld(D0[x]) /\ Unheld(D1[x])
      BY <1>2, <2>5 DEF DisableUnhook, At, Goto, DisableInv
    <3>2. hooked'[x] = {} /\ UNCHANGED <<lines, enabled, spoiled>>
      BY <1>1, <1>2, <2>5, <3>1 DEF DisableUnhook
    <3> QED
      BY <1>2, <3>1, <3>2 DEF DisableInv, DisablePC, lines
  <2>6. CASE Disown(a)
    <3>1. /\ call'[a] = NoCall /\ pc'[a] \in {"idle", "cleanup"} /\ hooked[x] = {}
          /\ Unspoiled(x) /\ Unheld(D0[x]) /\ Unheld(D1[x])
      BY <1>2, <2>6 DEF Disown, At, Return, DisableInv
    <3>2. /\ owner'[D0[x]] = Nobody /\ owner'[D1[x]] = Nobody /\ ~enabled'[x]
          /\ UNCHANGED <<requested, desc, hooked, spoiled>>
      BY <1>2, <2>6 DEF Disown
    <3> QED
      BY <1>2, <3>1, <3>2 DEF BeanObject, Off, Whole, LineObject, FreeLine
  <2> QED
    BY <2>1, <2>2, <2>3, <2>4, <2>5, <2>6 DEF DisableStep
<1>10. \A l \in Line : Tied(l)'
  <2>1. Tied(D0[x])' /\ Tied(D1[x])'
    BY <1>1, <1>2, <1>9, <1>14 DEF Tied, Fine, LinesOf
  <2> QED
    BY <1>1, <1>2, <1>4, <2>1 DEF Tied, IInv
<1>11. CASE call'[a] = call[a]
  <2>1. pc'[a] \in DisablePC
    BY <1>2, <1>11, <1>13, UsesOf DEF NoCall, Busy
  <2>2. AgentInv(a)'
    BY <1>1, <1>2, <1>9, <1>11, <2>1, Labels DEF AgentInv, Fine, LinesOf
  <2>3. Ongoing(a)
    BY <1>11, <2>1, <2>2 DEF Ongoing, Busy
  <2> QED
    BY <1>1, <1>2, <1>6, <1>8, <1>10, <2>3, Continue
<1>12. CASE call'[a] # call[a]
  <2>1. Returned(a, x)
    BY <1>2, <1>9, <1>12, <1>13 DEF Returned
  <2> QED
    BY <1>1, <1>2, <1>6, <1>8, <1>10, <2>1, Continue
<1> QED
  BY <1>11, <1>12

-----------------------------------------------------------------------------
(* cleanup.                                                                *)

\* Once the driver is being unbound and cleans up, nobody is in a call.
LEMMA Quiet ==
  ASSUME IInv, \A a \in Agent : pc[a] \in {"idle", "cleanup", "unbound"}
  PROVE  /\ \A a \in Agent : call[a] = NoCall
         /\ \A l \in Line : AtRest(l)
         /\ \A b \in Bean : Fine(b) => BeanRest(b)
<1>1. \A a \in Agent : call[a] = NoCall
  BY DEF IInv, AgentInv
<1>2. \A a \in Agent : call[a].on = Nobody
  BY <1>1 DEF NoCall
<1>3. \A l \in Line : AtRest(l)
  <2>1. \A a \in Agent : Uses(call[a].on) = {}
    BY <1>2, UsesOf
  <2> QED
    BY <2>1 DEF AtRest, InUse
<1>4. \A b \in Bean : Fine(b) => BeanRest(b)
  BY <1>2, BeanNames DEF IInv
<1> QED
  BY <1>1, <1>3, <1>4

LEMMA UnbindKeeps ==
  ASSUME IInv, Unbind, TypeOK'
  PROVE  IInv'
<1>1. /\ UNCHANGED <<lines, beans, call, spoiled, contended>>
      /\ bound /\ ~bound' /\ \A a \in Agent : pc[a] = "idle"
      /\ pc' = [pc EXCEPT ![Driver] = "cleanup"] /\ TypeOK
  BY DEF Unbind, Goto, IInv, history
<1>2. \A a \in Agent : pc'[a] = IF a = Driver THEN "cleanup" ELSE "idle"
  BY <1>1 DEF TypeOK
<1>3. /\ \A a \in Agent : call[a] = NoCall
      /\ \A l \in Line : AtRest(l)
      /\ \A b \in Bean : Fine(b) => BeanRest(b)
  BY <1>1, Quiet
<1>4. DriverInv'
  BY <1>1, <1>2, LinesAssumption DEF DriverInv, Agent
<1>5. \A a \in Agent : AgentInv(a)'
  BY <1>1, <1>2, <1>3 DEF AgentInv, ModePC, EnablePC, DisablePC
<1>6. Apart' /\ \A l \in Line : Tied(l)'
  BY <1>1 DEF IInv, Apart, Tied, lines
<1>7. \A l \in Line \ contended : LineRest(l)'
  <2>1. \A l \in Line \ contended : LineRest(l)
    BY <1>1, <1>3 DEF IInv, Agent
  <2> QED
    BY <1>1, <2>1 DEF LineRest, LineObject, FreeLine, ByMode, Unheld, Working, Broken, HeldIn, OwnsBoth,
       Unspoiled, lines, beans, LinesOf
<1>8. \A b \in Bean : /\ Fine(b) => BeanRest(b)'
                      /\ Broken(b) => Broken(b)'
                      /\ Fine(b)' <=> Fine(b)
  BY <1>1, <1>3 DEF Fine, BeanRest, Working, Broken, Off, HeldIn, OwnsBoth, Unspoiled, lines, beans
<1> QED
  BY <1>1, <1>4, <1>5, <1>6, <1>7, <1>8 DEF IInv, LinesOf

LEMMA CleanWiegandKeeps ==
  ASSUME IInv, CleanWiegand, TypeOK'
  PROVE  IInv'
<1>1. PICK b \in Bean :
        enabled[b] /\ call' = [call EXCEPT ![Driver] = [on |-> b, text |-> "x"]]
  BY DEF CleanWiegand
<1>2. /\ UNCHANGED <<lines, beans, spoiled, contended, bound>> /\ pc[Driver] = "cleanup" /\ Driver \in Agent
      /\ pc' = [pc EXCEPT ![Driver] = "free0"] /\ TypeOK
  BY DEF CleanWiegand, At, IInv, Agent, history
<1>3. ~bound /\ \A p \in Process : pc[p] = "idle"
  BY <1>2 DEF IInv, DriverInv
<1>4. \A l \in Line : AtRest(l)
  BY <1>2, <1>3, Quiet DEF Agent
<1>5. ASSUME Fine(b) PROVE Working(b)'
  <2>1. BeanObject(b)
    BY <1>2, <1>4, <1>5, Found, UsesOf
  <2>2. Working(b)
    BY <1>1, <2>1 DEF BeanObject, Broken, Off
  <2> QED
    BY <1>2, <2>2 DEF Working, OwnsBoth, HeldIn, Unspoiled, lines, beans
<1>6. /\ pc'[Driver] = "free0" /\ call'[Driver] = [on |-> b, text |-> "x"]
      /\ \A c \in Agent : c # Driver => pc'[c] = pc[c] /\ call'[c] = call[c]
  BY <1>1, <1>2 DEF TypeOK
<1>7. AgentInv(Driver)'
  BY <1>2, <1>5, <1>6, Labels DEF AgentInv, DisableInv, Fine, LinesOf, DisablePC
<1>8. DriverInv'
  BY <1>2, <1>3, <1>6, LinesAssumption DEF DriverInv, DisablePC, Agent
<1>9. \A c \in Agent : Settled(b, call[c].on)
  <2>1. \A c \in Agent : call[c] = NoCall
    BY <1>2, <1>3, Quiet DEF Agent
  <2> QED
    BY <2>1, UsesOf DEF Settled, Meet, NoCall
<1>10. call'[Driver].on = b /\ pc[Driver] # "unbound" /\ pc'[Driver] # "unbound"
  BY <1>2, <1>6
<1> QED
  BY <1>2, <1>6, <1>7, <1>8, <1>9, <1>10, BeginKeeps

LEMMA CleanLinesKeeps ==
  ASSUME IInv, CleanLines, TypeOK'
  PROVE  IInv'
<1>1. /\ UNCHANGED <<flags, owner, beans, call, spoiled, contended, bound>> /\ pc[Driver] = "cleanup"
      /\ pc' = [pc EXCEPT ![Driver] = "unbound"] /\ TypeOK /\ \A b \in Bean : ~enabled[b]
  BY DEF CleanLines, At, Goto, IInv, history
<1>2. ~bound /\ \A p \in Process : pc[p] = "idle"
  BY <1>1 DEF IInv, DriverInv
<1>3. \A a \in Agent : pc'[a] = IF a = Driver THEN "unbound" ELSE "idle"
  BY <1>1, <1>2 DEF TypeOK, Agent
<1>4. (\A a \in Agent : call[a] = NoCall) /\ \A b \in Bean : Fine(b) => BeanRest(b)
  BY <1>1, <1>2, Quiet DEF Agent
<1>5. \A l \in Line : desc'[l] # "held" /\ (l \notin contended => requested'[l] = "no")
  BY <1>1 DEF CleanLines, IInv, Tied, TypeOK
<1>6. DriverInv'
  BY <1>1, <1>2, <1>3, <1>5, LinesAssumption DEF DriverInv, Agent, beans
<1>7. \A a \in Agent : AgentInv(a)'
  BY <1>1, <1>3, <1>4 DEF AgentInv, ModePC, EnablePC, DisablePC
<1>8. Apart' /\ \A l \in Line : Tied(l)'
  BY <1>1, <1>5 DEF IInv, Apart, Tied
<1>9. \A b \in Bean : /\ Fine(b) => BeanRest(b)'
                      /\ Broken(b) => Broken(b)'
                      /\ Fine(b)' <=> Fine(b)
  BY <1>1, <1>4 DEF Fine, BeanRest, Working, Broken, Off, OwnsBoth, Unspoiled, beans
<1>10. pc'[Driver] = "unbound"
  BY <1>3 DEF Agent
<1> QED
  BY <1>1, <1>6, <1>7, <1>8, <1>9, <1>10 DEF IInv, LinesOf

-----------------------------------------------------------------------------
LEMMA InvInit ==
  ASSUME Init
  PROVE  IInv
<1>1. TypeOK
  BY DEF Init, TypeOK, NoCall, Texts
<1>2. Apart
  BY UsesOf DEF Init, Apart, Meet, NoCall
<1>3. \A l \in Line : FreeLine(l)
  BY DEF Init, FreeLine, Unheld
<1>4. \A b \in Bean : Off(b)
  BY DEF Init, Off, Unspoiled
<1>5. \A a \in Agent : AgentInv(a)
  BY DEF Init, AgentInv, ModePC, EnablePC, DisablePC
<1>6. DriverInv
  BY DEF Init, DriverInv, Agent
<1> QED
  BY <1>1, <1>2, <1>3, <1>4, <1>5, <1>6 DEF Init, IInv, Tied, LineRest, LineObject, BeanRest

LEMMA InvStep ==
  ASSUME IInv, [Next]_vars
  PROVE  IInv'
<1>1. TypeOK'
  BY TypeStep
<1>2. ASSUME UNCHANGED vars PROVE IInv'
  <2>1. UNCHANGED <<lines, beans, bound, control, history>>
    BY <1>2 DEF vars
  <2>2. /\ UNCHANGED <<requested, desc, flags, owner, enabled, hooked>>
        /\ UNCHANGED <<bound, pc, call, spoiled, contended>>
    BY <2>1 DEF lines, beans, control, history
  <2>3. \A b \in Bean : (Working(b)' <=> Working(b)) /\ (Broken(b)' <=> Broken(b)) /\ (Off(b)' <=> Off(b))
    BY <2>2 DEF Working, Broken, Off, OwnsBoth, Unspoiled, HeldIn
  <2>4. /\ \A l \in Line : (LineObject(l)' <=> LineObject(l)) /\ (Clear(l)' <=> Clear(l))
        /\ \A b \in Bean : Fine(b)' <=> Fine(b)
    BY <2>2 DEF LineObject, FreeLine, ByMode, Unheld, Clear, Fine
  <2>5. \A l \in Line : (LineRest(l)' <=> LineRest(l)) /\ (AtRest(l)' <=> AtRest(l))
    BY <2>2, <2>3, <2>4 DEF LineRest, AtRest, InUse
  <2>6. \A b \in Bean : (BeanRest(b)' <=> BeanRest(b)) /\ (BeanObject(b)' <=> BeanObject(b))
    BY <2>2, <2>3, <2>4, UsesOf DEF BeanRest, BeanObject, Whole
  <2>7. \A a \in Agent : AgentInv(a)'
    <3> SUFFICES ASSUME NEW a \in Agent PROVE AgentInv(a)'
      OBVIOUS
    <3>1. AgentInv(a) /\ pc'[a] = pc[a] /\ call'[a] = call[a]
      BY <2>2 DEF IInv
    <3> DEFINE x == call[a].on
    <3>2. x \in Line \cup Bean \cup {Nobody}
      BY DEF IInv, TypeOK
    <3>3. ASSUME pc[a] \in ModePC PROVE ModeInv(pc[a], x) => ModeInv(pc[a], x)'
      BY <2>2, <2>4, <3>1, <3>3 DEF AgentInv, ModeInv, FreeLine, Unheld
    <3>4. ASSUME x \in Bean PROVE EnableInv(pc[a], x) => EnableInv(pc[a], x)'
      BY <2>2, <2>3, <2>4, <3>1, <3>4, UsesOf DEF EnableInv, Claimed, HeldIn, OwnsBoth, Unspoiled
    <3>5. ASSUME x \in Bean PROVE DisableInv(pc[a], x) => DisableInv(pc[a], x)'
      BY <2>2, <2>3, <2>6, <3>1, <3>5 DEF DisableInv, OwnsBoth, Unspoiled, HeldIn, Unheld
    <3> QED
      BY <2>2, <2>4, <3>1, <3>3, <3>4, <3>5 DEF AgentInv, LinesOf
  <2>8. Apart' /\ DriverInv' /\ \A l \in Line : Tied(l)'
    BY <2>2 DEF IInv, Tied, Apart, DriverInv
  <2> QED
    BY <1>1, <2>2, <2>3, <2>4, <2>5, <2>6, <2>7, <2>8 DEF IInv, LinesOf
<1>3. ASSUME NEW p \in Process, ModeStep(p) \/ EnableStep(p) \/ Disable(p) PROVE IInv'
  BY <1>1, <1>3, ModeStepKeeps, EnableStepKeeps, DisableKeeps
<1>4. ASSUME NEW a \in Agent, DisableStep(a) PROVE IInv'
  BY <1>1, <1>4, DisableStepKeeps
<1>5. CASE Unbind \/ CleanWiegand \/ CleanLines
  BY <1>1, <1>5, UnbindKeeps, CleanWiegandKeeps, CleanLinesKeeps
<1> QED
  BY <1>2, <1>3, <1>4, <1>5 DEF Next

LEMMA Invariance == Spec => []IInv
<1>1. Init => IInv
  BY InvInit
<1>2. IInv /\ [Next]_vars => IInv'
  BY InvStep
<1> QED
  BY <1>1, <1>2, PTL DEF Spec

\* The types of DtLines.
THEOREM TypeCorrect == Spec => []TypeOK
<1>1. IInv => TypeOK
  BY DEF IInv
<1> QED
  BY <1>1, Invariance, PTL

\* devAttrGpioMode_store and devAttrWiegandEnabled_store lose no line and
\* refuse none that is free, on the lines where no two of them ever met.
THEOREM Accounted == Spec => []LinesAccounted
<1>1. IInv => LinesAccounted
  <2> SUFFICES ASSUME IInv, bound, NEW l \in Line, l \notin spoiled, l \notin contended, AtRest(l)
               PROVE  /\ owner[l] # Nobody <=> desc[l] = "held"
                      /\ requested[l] # "no" <=> desc[l] = "held"
                      /\ owner[l] \in Bean => enabled[owner[l]]
    BY DEF LinesAccounted
  <2>1. LineRest(l) /\ (requested[l] # "no" <=> desc[l] = "held")
    BY BoundDriver DEF IInv, Tied
  <2>2. CASE LineObject(l)
    BY <2>1, <2>2, BeanNames DEF LineObject, FreeLine, ByMode, Unheld, Nobody, ModeFile
  <2>3. CASE \E b \in Bean : l \in LinesOf(b) /\ (Working(b) \/ Broken(b))
    <3>1. PICK b \in Bean : l \in LinesOf(b) /\ (Working(b) \/ Broken(b))
      BY <2>3
    <3>2. Working(b)
      BY <3>1 DEF Broken, LinesOf
    <3>3. owner[l] = b /\ desc[l] = "held" /\ enabled[b]
      BY <3>1, <3>2 DEF Working, OwnsBoth, HeldIn, LinesOf
    <3> QED
      BY <2>1, <3>3, BeanNames
  <2> QED
    BY <2>1, <2>2, <2>3 DEF LineRest
<1> QED
  BY <1>1, Invariance, PTL

\* An enabled Wiegand interface keeps its lines and interrupts, unless its own
\* calls met others on both its lines.
THEOREM EnabledKeepsLines == Spec => []EnabledHolds
<1>1. IInv => EnabledHolds
  <2> SUFFICES ASSUME IInv, NEW b \in Bean, enabled[b], Fine(b), \A l \in LinesOf(b) : AtRest(l)
               PROVE  /\ hooked[b] = {0, 1}
                      /\ \A l \in LinesOf(b) : owner[l] = b /\ requested[l] = "in" /\ desc[l] = "held"
    BY DEF EnabledHolds
  <2>1. \A a \in Agent : call[a].on # b
    BY UsesOf DEF AtRest, InUse, LinesOf
  <2>2. Working(b)
    BY <2>1 DEF IInv, BeanRest, Broken, Off
  <2> QED
    BY <2>2 DEF Working, OwnsBoth, HeldIn, LinesOf
<1> QED
  BY <1>1, Invariance, PTL

\* cleanup leaves none of the DT lines that are not contended requested, and
\* no Wiegand interrupt unless an enable had failed half way or met others.
THEOREM FreedWhenUnbound == Spec => []UnboundFree
<1>1. IInv => UnboundFree
  <2> SUFFICES ASSUME IInv, pc[Driver] = "unbound"
               PROVE  /\ \A l \in Line \ contended : requested[l] = "no"
                      /\ \A b \in Bean : /\ enabled[b] = FALSE
                                         /\ hooked[b] # {} => ~Fine(b) \/ LinesOf(b) \subseteq spoiled
    BY DEF UnboundFree
  <2>1. \A a \in Agent : pc[a] \in {"idle", "cleanup", "unbound"}
    BY DEF IInv, DriverInv, Agent
  <2>2. \A b \in Bean : Fine(b) => BeanRest(b)
    BY <2>1, Quiet
  <2>3. /\ \A b \in Bean : ~enabled[b] /\ enabled[b] \in BOOLEAN
        /\ \A l \in Line \ contended : requested[l] = "no"
    BY DEF IInv, DriverInv, Tied, TypeOK
  <2> QED
    BY <2>2, <2>3 DEF BeanRest, Working, Broken, Off, LinesOf
<1> QED
  BY <1>1, Invariance, PTL
=============================================================================
