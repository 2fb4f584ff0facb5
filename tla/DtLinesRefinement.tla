------------------------- MODULE DtLinesRefinement -------------------------
(***************************************************************************)
(* DtLines implements LineOwners, for any number of lines, interfaces and  *)
(* processes and any overlapping of their calls.  Owners and requests of   *)
(* the lines that are not contended are the abstract variables themselves; *)
(* what has to be proved is that each step that changes them finds the     *)
(* lines as the abstract one requires, although the code has looked at     *)
(* them in an earlier step or not at all.  IInv of DtLinesProofs says so.  *)
(***************************************************************************)
EXTENDS DtLinesProofs

Allowed == Owners!OwnersNext \/ UNCHANGED Owners!ownersVars

Holder == [l \in Line |-> IF l \in contended THEN "lost" ELSE owner[l]]
Given == [l \in Line |-> IF l \in contended THEN "no" ELSE requested[l]]

LEMMA LineTypes ==
  ASSUME IInv
  PROVE  /\ owner \in [Line -> Bean \cup {Nobody, ModeFile}]
         /\ requested \in [Line -> {"no", "asis", "in", "out"}]
         /\ flags \in [Line -> {"asis", "in", "out"}]
         /\ \A l \in Line : Tied(l)
         /\ "lost" \notin Bean \cup {Nobody, ModeFile} /\ contended \subseteq Line
BY LinesAssumption DEF IInv, TypeOK, ModeFile, Nobody

LEMMA NeedsOf ==
  /\ \A b \in Bean : [c \in Bean |-> LinesOf(c)][b] = {D0[b], D1[b]}
  /\ \A b \in Bean : D0[b] \in Line /\ D1[b] \in Line
BY UsesOf DEF LinesOf

\* The mode file of a line takes it over or gives it up.
LEMMA FileMaps ==
  ASSUME NEW l \in Line, NEW u, Given' = Given,
         Holder' = [m \in Line |-> IF m \in {l} THEN u ELSE Holder[m]],
         \/ u = ModeFile /\ Holder[l] = Nobody /\ Given[l] # "no"
         \/ u = Nobody /\ Holder[l] = ModeFile /\ Given[l] = "no"
  PROVE  Allowed
<1>1. Owners!Own(l) \/ Owners!Disown(l)
  BY DEF Owners!Own, Owners!Disown, Owners!Hand, Holder, Given
<1> QED
  BY <1>1 DEF Allowed, Owners!OwnersNext

\* The kernel takes lines back, or calls meet on them.
LEMMA TakenMaps ==
  ASSUME NEW ls \in SUBSET Line, Given' = [l \in Line |-> IF l \in ls THEN "no" ELSE Given[l]],
         \/ Holder' = Holder /\ \A l \in ls : Holder[l] \notin {Nobody, "lost"}
         \/ Holder' = [l \in Line |-> IF l \in ls THEN "lost" ELSE Holder[l]]
  PROVE  Allowed
<1>1. Owners!Put(ls) \/ Owners!Lose(ls)
  BY DEF Owners!Put, Owners!Lose, Owners!Hand, Holder, Given
<1> QED
  BY <1>1 DEF Allowed, Owners!OwnersNext

\* What only contended lines notice is no step of LineOwners.
LEMMA Unseen ==
  ASSUME contended' = contended,
         \A l \in Line \ contended : owner'[l] = owner[l] /\ requested'[l] = requested[l]
  PROVE  Allowed
<1>1. Holder' = Holder /\ Given' = Given
  BY DEF Holder, Given
<1> QED
  BY <1>1 DEF Allowed, Owners!ownersVars, Holder, Given

\* gpioFree on a line of somebody's puts it back.
LEMMA PutMaps ==
  ASSUME IInv, NEW l \in Line, Put(l), l \notin contended => owner[l] # Nobody \/ Unheld(l),
         owner' = owner, contended' = contended
  PROVE  Allowed
<1>1. CASE desc[l] = "held" /\ l \notin contended
  <2>1. requested' = [m \in Line |-> IF m \in {l} THEN "no" ELSE requested[m]]
    BY <1>1, LineTypes DEF Put
  <2>2. Given' = [m \in Line |-> IF m \in {l} THEN "no" ELSE Given[m]]
    BY <1>1, <2>1 DEF Given
  <2>3. Holder[l] \notin {Nobody, "lost"} /\ Holder' = Holder
    BY <1>1, LineTypes DEF Holder, Unheld
  <2> QED
    BY <2>2, <2>3, TakenMaps
<1>2. CASE desc[l] # "held" \/ l \in contended
  BY <1>2, LineTypes, Unseen DEF Put
<1> QED
  BY <1>1, <1>2

\* gpioInit of a line as an input or output gives it out.
LEMMA GetMaps ==
  ASSUME IInv, NEW l \in Line, Get(l), owner' = owner, contended' = contended,
         l \notin contended => (\/ owner[l] = Nobody /\ flags[l] # "asis"
                                \/ owner[l] \in Bean /\ flags[l] = "in")
  PROVE  Allowed
<1>1. CASE l \notin contended
  <2>1. requested[l] = "no" /\ requested' = [requested EXCEPT ![l] = flags[l]]
    BY DEF Get
  <2>2. Given[l] = "no" /\ Given' = [Given EXCEPT ![l] = flags[l]] /\ Holder' = Holder
    BY <1>1, <2>1, LineTypes DEF Given, Holder
  <2>3. Holder[l] \notin {ModeFile, "lost"}
    BY <1>1, BeanNames, LineTypes DEF Nobody, ModeFile, Holder
  <2>4. flags[l] \in IF Holder[l] = Nobody THEN {"in", "out"} ELSE {"in"}
    BY <1>1, LineTypes, BeanNames DEF Holder
  <2>5. Owners!Get(l)
    BY <2>2, <2>3, <2>4 DEF Owners!Get, Given, Holder
  <2> QED
    BY <2>5 DEF Allowed, Owners!OwnersNext
<1>2. CASE l \in contended
  BY <1>2, LineTypes, Unseen DEF Get
<1> QED
  BY <1>1, <1>2

\* A line that changes hands.
LEMMA HandMaps ==
  ASSUME IInv, NEW ls \in SUBSET Line, NEW u, requested' = requested, contended' = contended,
         owner' = [l \in Line |-> IF l \in ls THEN u ELSE owner[l]]
  PROVE  /\ Given' = Given
         /\ Holder' = [l \in Line |-> IF l \in ls \ contended THEN u ELSE Holder[l]]
BY DEF Given, Holder

\* Calls that meet lose their lines.
LEMMA BeginMaps ==
  ASSUME IInv, NEW p \in Process, NEW x \in Line \cup Bean, NEW text, NEW label,
         Begin(p, x, text, label), owner' = owner, requested' = requested,
         contended' \subseteq Line
  PROVE  Allowed
<1>1. contended \subseteq contended'
  BY DEF Begin
<1> DEFINE ls == contended' \ contended
<1>2. /\ Holder' = [l \in Line |-> IF l \in ls THEN "lost" ELSE Holder[l]]
      /\ Given' = [l \in Line |-> IF l \in ls THEN "no" ELSE Given[l]]
  BY <1>1 DEF Holder, Given
<1>3. ls \in SUBSET Line
  OBVIOUS
<1> QED
  BY <1>2, <1>3, TakenMaps

\* The steps of dt<n>_mode.
LEMMA ModeMaps ==
  ASSUME IInv, NEW p \in Process, ModeStep(p), TypeOK'
  PROVE  Allowed
<1> DEFINE l == call[p].on
<1>0. /\ p \in Agent /\ AgentInv(p)
      /\ pc[p] \in ModePC => l \in Line /\ (l \notin contended => ModeInv(pc[p], l))
  BY DEF IInv, Agent, AgentInv
<1>1. CASE ModeStore(p)
  BY <1>1, BeginMaps DEF ModeStore, lines, TypeOK
<1>2. CASE ModeFree(p)
  <2>1. l \in Line /\ (l \notin contended => LineObject(l))
    BY <1>0, <1>2 DEF ModeFree, At, ModePC, ModeInv
  <2>2. l \notin contended => owner[l] # Nobody \/ Unheld(l)
    BY <2>1 DEF LineObject, FreeLine, ByMode, Nobody, ModeFile
  <2> QED
    BY <1>2, <2>1, <2>2, PutMaps DEF ModeFree, history
<1>3. CASE ModeFlags(p)
  <2>1. l \in Line /\ (l \notin contended => owner[l] \in {Nobody, ModeFile} /\ Unheld(l))
    BY <1>0, <1>3 DEF ModeFlags, At, ModePC, ModeInv
  <2>2. requested' = requested /\ owner' = [owner EXCEPT ![l] = Nobody] /\ contended' = contended
    BY <1>3 DEF ModeFlags, history
  <2>3. CASE owner[l] = Nobody \/ l \in contended
    BY <2>1, <2>2, <2>3, LineTypes, Unseen
  <2>4. CASE owner[l] = ModeFile /\ l \notin contended
    <3>1. owner' = [m \in Line |-> IF m \in {l} THEN Nobody ELSE owner[m]]
      BY <2>1, <2>2, LineTypes
    <3>2. /\ Given' = Given
          /\ Holder' = [m \in Line |-> IF m \in {l} THEN Nobody ELSE Holder[m]]
      BY <2>1, <2>2, <2>4, <3>1, HandMaps DEF Holder, Given
    <3>3. Holder[l] = ModeFile /\ Given[l] = "no"
      BY <2>1, <2>4 DEF Holder, Given, Unheld
    <3> QED
      BY <2>1, <3>2, <3>3, FileMaps
  <2> QED
    BY <2>1, <2>3, <2>4
<1>4. CASE ModeGet(p)
  <2>1. l \in Line /\ (l \notin contended => FreeLine(l) /\ flags[l] # "asis")
    BY <1>0, <1>4 DEF ModeGet, At, ModePC, ModeInv
  <2> QED
    BY <1>4, <2>1, GetMaps DEF ModeGet, FreeLine, history
<1>5. CASE ModeGetFails(p)
  BY <1>5, Unseen DEF ModeGetFails, GetFails, history
<1>6. CASE ModeOwn(p)
  <2>1. l \in Line /\ (l \notin contended => owner[l] = Nobody /\ requested[l] # "no")
    BY <1>0, <1>6 DEF ModeOwn, At, ModePC, ModeInv
  <2>2. /\ requested' = requested /\ contended' = contended
        /\ owner' = [m \in Line |-> IF m \in {l} THEN ModeFile ELSE owner[m]]
    BY <1>6, <2>1, LineTypes DEF ModeOwn, history
  <2>3. CASE l \in contended
    BY <2>2, <2>3, Unseen
  <2>4. CASE l \notin contended
    <3>1. /\ Given' = Given
          /\ Holder' = [m \in Line |-> IF m \in {l} THEN ModeFile ELSE Holder[m]]
      BY <2>1, <2>2, <2>4 DEF Holder, Given
    <3>2. Holder[l] = Nobody /\ Given[l] # "no"
      BY <2>1, <2>4 DEF Holder, Given
    <3> QED
      BY <2>1, <3>1, <3>2, FileMaps
  <2> QED
    BY <2>3, <2>4
<1> QED
  BY <1>1, <1>2, <1>3, <1>4, <1>5, <1>6 DEF ModeStep

\* An interface claims or gives up the lines it has left.
LEMMA LeftOf ==
  ASSUME NEW b \in Bean, "lost" \notin {owner[D0[b]], owner[D1[b]]}
  PROVE  {l \in [c \in Bean |-> LinesOf(c)][b] : Holder[l] # "lost"} = LinesOf(b) \ contended
BY NeedsOf DEF Holder, LinesOf

\* The steps of w<N>_enabled that enable.
LEMMA EnableMaps ==
  ASSUME IInv, NEW p \in Process, EnableStep(p), TypeOK'
  PROVE  Allowed
<1> DEFINE b == call[p].on
<1>0. /\ p \in Agent /\ AgentInv(p)
      /\ pc[p] \in EnablePC => b \in Bean /\ (Fine(b) => EnableInv(pc[p], b))
  BY DEF IInv, Agent, AgentInv
<1>1. CASE Enable(p) \/ EnableAgain(p)
  BY <1>1, BeginMaps DEF Enable, EnableAgain, lines, TypeOK
<1>2. CASE EnableTake(p)
  <2>1. /\ b \in Bean
        /\ \A l \in LinesOf(b) \ contended : owner[l] = Nobody /\ Unheld(l)
    BY <1>0, <1>2 DEF EnableTake, At, EnablePC, EnableInv, Clear, Fine, LinesOf
  <2>2. /\ requested' = requested /\ contended' = contended
        /\ owner' = [l \in Line |-> IF l \in LinesOf(b) THEN b ELSE owner[l]]
    BY <1>2 DEF EnableTake, history
  <2>3. LinesOf(b) \subseteq Line
    BY <2>1, NeedsOf DEF LinesOf
  <2>4. /\ Given' = Given
        /\ Holder' = [l \in Line |-> IF l \in LinesOf(b) \ contended THEN b ELSE Holder[l]]
    BY <2>2, <2>3, HandMaps
  <2>5. {l \in [c \in Bean |-> LinesOf(c)][b] : Holder[l] # "lost"} = LinesOf(b) \ contended
    BY <2>1, LineTypes, NeedsOf, LeftOf
  <2>6. \A l \in LinesOf(b) \ contended : Holder[l] = Nobody /\ Given[l] = "no"
    BY <2>1, <2>3 DEF Holder, Given, Unheld
  <2>7. Owners!Claim(b)
    BY <2>4, <2>5, <2>6 DEF Owners!Claim, Owners!Hand, Owners!Left, Holder, Given
  <2> QED
    BY <2>1, <2>7 DEF Allowed, Owners!OwnersNext
<1>3. ASSUME NEW k \in {0, 1}, EnableGet(p, k) PROVE Allowed
  <2>1. pc[p] \in {"get0", "get1"} /\ Get(Wire(b, k)) /\ owner' = owner /\ contended' = contended
    BY <1>3 DEF EnableGet, At, GetAt, history
  <2>2. b \in Bean /\ (Fine(b) => Claimed(b))
    BY <1>0, <2>1 DEF EnablePC, EnableInv
  <2>3. /\ Wire(b, k) \in Line
        /\ Wire(b, k) \notin contended => owner[Wire(b, k)] = b /\ flags[Wire(b, k)] = "in"
    BY <2>2, NeedsOf DEF Wire, Claimed, OwnsBoth, Fine, LinesOf
  <2> QED
    BY <2>1, <2>2, <2>3, GetMaps
<1>4. ASSUME NEW k \in {0, 1}, EnableGetFails(p, k) PROVE Allowed
  BY <1>4, Unseen DEF EnableGetFails, GetFails
<1>5. ASSUME NEW k \in {0, 1}, EnableHook(p, k) \/ EnableHookFails(p, k) PROVE Allowed
  BY <1>5, Unseen DEF EnableHook, EnableHookFails, lines, history
<1>6. CASE EnableDone(p)
  BY <1>6, Unseen DEF EnableDone, lines, history
<1> QED
  BY <1>1, <1>2, <1>3, <1>4, <1>5, <1>6 DEF EnableStep

\* wiegandDisable, in a store or in cleanup.
LEMMA DisableMaps ==
  ASSUME IInv, NEW a \in Agent, DisableStep(a)
  PROVE  Allowed
<1> DEFINE b == call[a].on
<1>0. AgentInv(a) /\ (pc[a] \in DisablePC => b \in Bean /\ (Fine(b) => DisableInv(pc[a], b)))
  BY DEF IInv, AgentInv
<1>1. CASE DisableTest(a)
  BY <1>1, Unseen DEF DisableTest, lines, history
<1>2. CASE Disown(a)
  <2>1. /\ b \in Bean
        /\ \A l \in LinesOf(b) \ contended : owner[l] = b /\ Unheld(l)
    BY <1>0, <1>2 DEF Disown, At, DisablePC, DisableInv, OwnsBoth, Fine, LinesOf
  <2>2. /\ requested' = requested /\ contended' = contended
        /\ owner' = [l \in Line |-> IF l \in LinesOf(b) THEN Nobody ELSE owner[l]]
    BY <1>2 DEF Disown, history
  <2>3. LinesOf(b) \subseteq Line
    BY <2>1, NeedsOf DEF LinesOf
  <2>4. /\ Given' = Given
        /\ Holder' = [l \in Line |-> IF l \in LinesOf(b) \ contended THEN Nobody ELSE Holder[l]]
    BY <2>2, <2>3, HandMaps
  <2>5. {l \in [c \in Bean |-> LinesOf(c)][b] : Holder[l] # "lost"} = LinesOf(b) \ contended
    BY <2>1, LineTypes, NeedsOf, LeftOf
  <2>6. \A l \in LinesOf(b) \ contended : Holder[l] = b /\ Given[l] = "no"
    BY <2>1, <2>3 DEF Holder, Given, Unheld
  <2>7. Owners!Release(b)
    BY <2>4, <2>5, <2>6 DEF Owners!Release, Owners!Hand, Owners!Left, Holder, Given
  <2> QED
    BY <2>1, <2>7 DEF Allowed, Owners!OwnersNext
<1>3. ASSUME NEW k \in {0, 1}, DisableFree(a, k) PROVE Allowed
  <2>1. pc[a] \in {"free0", "free1"} /\ Put(Wire(b, k)) /\ owner' = owner /\ contended' = contended
    BY <1>3 DEF DisableFree, At, FreeAt, history
  <2>2. b \in Bean /\ (Fine(b) => OwnsBoth(b))
    BY <1>0, <2>1 DEF DisablePC, DisableInv, Working
  <2>3. Wire(b, k) \in Line /\ (Wire(b, k) \notin contended => owner[Wire(b, k)] # Nobody)
    BY <2>2, NeedsOf, BeanNames DEF Wire, OwnsBoth, Fine, LinesOf
  <2> QED
    BY <2>1, <2>3, PutMaps
<1>4. ASSUME NEW k \in {0, 1}, DisableUnhook(a, k) PROVE Allowed
  BY <1>4, Unseen DEF DisableUnhook, lines, history
<1> QED
  BY <1>1, <1>2, <1>3, <1>4 DEF DisableStep

\* cleanup takes back every line that is given out.
LEMMA CleanLinesMaps ==
  ASSUME IInv, CleanLines
  PROVE  Allowed
<1> DEFINE held == {l \in Line \ contended : desc[l] = "held"}
<1>1. pc[Driver] = "cleanup" /\ ~bound
  BY DEF CleanLines, At, IInv, DriverInv
<1>2. \A a \in Agent : pc[a] \in {"idle", "cleanup", "unbound"}
  BY <1>1 DEF IInv, DriverInv, Agent
<1>3. \A l \in Line \ contended : LineRest(l)
  BY <1>1, <1>2, Quiet DEF IInv
<1>4. \A l \in held : owner[l] # Nobody
  BY <1>3, BeanNames, ZenonT(60)
     DEF LineRest, LineObject, FreeLine, Unheld, ByMode, Working, Broken, OwnsBoth, LinesOf,
         Nobody, ModeFile
<1>5. /\ owner' = owner /\ contended' = contended
      /\ requested' = [l \in Line |-> IF desc[l] = "held" THEN "no" ELSE requested[l]]
  BY DEF CleanLines, history
<1>6. /\ Holder' = Holder
      /\ Given' = [l \in Line |-> IF l \in held THEN "no" ELSE Given[l]]
  BY <1>5 DEF Holder, Given
<1>7. \A l \in held : Holder[l] \notin {Nobody, "lost"}
  BY <1>4, LineTypes DEF Holder
<1>8. held \in SUBSET Line
  OBVIOUS
<1> QED
  BY <1>6, <1>7, <1>8, TakenMaps

\* Every step is one that LineOwners allows, or changes nothing there.
LEMMA StepMaps ==
  ASSUME IInv, [Next]_vars
  PROVE  [Owners!OwnersNext]_Owners!ownersVars
<1> TypeOK'
  BY TypeStep
<1>1. ASSUME NEW p \in Process, ModeStep(p) \/ EnableStep(p) PROVE Allowed
  BY <1>1, ModeMaps, EnableMaps
<1>2. ASSUME NEW p \in Process, Disable(p) PROVE Allowed
  BY <1>2, BeginMaps DEF Disable, lines, TypeOK
<1>3. ASSUME NEW a \in Agent, DisableStep(a) PROVE Allowed
  BY <1>3, DisableMaps
<1>4. CASE Unbind \/ CleanWiegand \/ UNCHANGED vars
  <2>1. contended' = contended /\ owner' = owner /\ requested' = requested
    BY <1>4 DEF Unbind, CleanWiegand, vars, lines, history
  <2> QED
    BY <2>1, Unseen DEF Allowed
<1>5. CASE CleanLines
  BY <1>5, CleanLinesMaps DEF Allowed
<1> QED
  BY <1>1, <1>2, <1>3, <1>4, <1>5 DEF Next, Allowed

\* The stores and cleanup do to owners and requests what LineOwners allows and
\* nothing else, however they overlap: a line where two meet is lost there.
THEOREM Implements == Spec => OwnersSpec
<1>1. Init => Owners!OwnersInit
  BY DEF Init, Owners!OwnersInit
<1>2. IInv /\ [Next]_vars => [Owners!OwnersNext]_Owners!ownersVars
  BY StepMaps
<1>3. Spec => []IInv
  BY Invariance
<1>4. Spec => Owners!OwnersInit /\ [][Owners!OwnersNext]_Owners!ownersVars
  BY <1>1, <1>2, <1>3, PTL DEF Spec
<1> QED
  BY <1>4 DEF OwnersSpec, Owners!OwnersSpec
=============================================================================
