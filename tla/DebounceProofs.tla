--------------------------- MODULE DebounceProofs ---------------------------
(***************************************************************************)
(* Proofs about Debounce, for any number of concurrent stores and any      *)
(* debounce times, on one processor or on several.                         *)
(*                                                                         *)
(* That no edge is lost is not inductive: a callback that has sampled the  *)
(* line but not yet compared may be overtaken by an edge.  Coming tells    *)
(* the two cases apart: either a sample that is still to be taken is on    *)
(* its way, or the one just taken is the line's present level.             *)
(***************************************************************************)
EXTENDS Debounce, TLAPS

\* Something that will sample the line has not done so yet.
SampleAhead ==
  \/ irqPending
  \/ timer # NoTimer
  \/ cbPc = "sample"
  \/ \E a \in Actor : Restarting(a)

\* With no sample ahead, the last one tells the line's level.
Coming ==
  desc /\ ~SampleAhead => IF cbPc = "update" THEN cbVal = line ELSE value = line

\* What the teardown has undone at each of its steps.
Torn ==
  /\ pc["task"] \in {"sample", "cancel", "start", "idle"} => desc /\ irqOn
  /\ pc["task"] \in {"freeIrq", "cancelTimer", "freed"} =>
       ~desc /\ \A w \in Writer : pc[w] = "idle"
  /\ pc["task"] \in {"cancelTimer", "freed"} =>
       ~irqOn /\ ~irqPending /\ pc["irq"] = "idle"
  /\ pc["task"] = "freed" => timer = NoTimer /\ cbPc = "idle"

\* Who may be where.
Places ==
  /\ pc["irq"] \in {"idle", "sample", "cancel", "start"}
  /\ pc["task"] \in {"sample", "cancel", "start", "idle", "freeIrq", "cancelTimer", "freed"}

Inv == TypeOK /\ Places /\ Torn /\ Coming

\* The counters while nothing is stored: they count alternate changes.
Counting ==
  IF cbPc = "count"
    THEN /\ value = cbVal
         /\ cbCnt = cnt[cbVal]
         /\ cnt[1 - cbVal] - cnt[cbVal] \in {0, 1}
    ELSE /\ value = NotDefined => cnt[0] = 0 /\ cnt[1] = 0
         /\ value # NotDefined => /\ cnt[value] > 0
                                  /\ cnt[value] - cnt[1 - value] \in {0, 1}

-----------------------------------------------------------------------------
LEMMA TypeInit == Init => TypeOK
<1> SUFFICES ASSUME Init PROVE TypeOK
  OBVIOUS
<1> USE ConstAssumption DEF ConstAssumption, Init
<1>1. pc \in [Actor -> ActorPC] /\ dur \in [Actor -> Nat]
  BY DEF ActorPC
<1>2. want \in [Writer -> Level \X Nat]
  BY DEF Level
<1>3. min \in [Level -> Nat] /\ cnt \in [Level -> Nat]
  OBVIOUS
<1> QED
  BY <1>1, <1>2, <1>3 DEF TypeOK, Level, NotDefined, NoTimer

LEMMA ReadType == ASSUME TypeOK PROVE Read \in Level /\ (desc => Read = line)
BY DEF TypeOK, Read, Level

\* Each step keeps the types.
LEMMA TypeStep == ASSUME TypeOK, [Next]_vars PROVE TypeOK'
<1>1. CASE UNCHANGED vars
  BY <1>1 DEF TypeOK, vars, hardware, bean, restart, callback, poller, history
<1>2. CASE Edge
  BY <1>2 DEF TypeOK, Edge, hardware, bean, restart, callback, poller, history, Level
<1>3. CASE Tick
  BY <1>3 DEF TypeOK, Tick, hardware, bean, restart, callback, poller, history, Level, NoTimer
<1>4. CASE IrqEnter
  <2>1. pc' \in [Actor -> ActorPC]
    BY <1>4 DEF TypeOK, IrqEnter, Goto, ActorPC
  <2> QED
    BY <1>4, <2>1, ZenonT(60) DEF TypeOK, IrqEnter, hardware, bean, callback, poller, history, Level
<1>5. CASE Callback
  <2>1. CASE Expire
    BY <2>1 DEF TypeOK, Expire, hardware, bean, restart, callback, poller, history, Level
  <2>2. CASE CbSample
    BY <2>2, ReadType DEF TypeOK, CbSample, hardware, bean, restart, callback, poller, history, Level
  <2>3. CASE CbUpdate
    BY <2>3 DEF TypeOK, CbUpdate, hardware, bean, restart, callback, poller, history, Level
  <2>4. CASE CbCount
    BY <2>4 DEF TypeOK, CbCount, hardware, bean, restart, callback, poller, history, Level
  <2>5. CASE CbNotify
    BY <2>5 DEF TypeOK, CbNotify, hardware, bean, restart, callback, poller, history, Level
  <2> QED
    BY <1>5, <2>1, <2>2, <2>3, <2>4, <2>5 DEF Callback
<1>6. CASE Poll
  BY <1>6, ZenonT(60) DEF TypeOK, Poll, PollBegin, PollRegister, PollRead, hardware, bean, restart,
              callback, poller, history, Level
<1>7. CASE Free
  <2>1. \E p \in ActorPC : Goto("task", p)
    BY <1>7 DEF Free, FreeDesc, FreeIrq, FreeTimer, ActorPC
  <2>2. pc' \in [Actor -> ActorPC]
    BY <2>1 DEF Goto, TypeOK
  <2> QED
    BY <1>7, <2>2 DEF TypeOK, Free, FreeDesc, FreeIrq, FreeTimer, hardware, bean, restart,
                      callback, poller, history, NoTimer
<1>8. ASSUME NEW a \in Actor, Restart(a) PROVE TypeOK'
  <2>1. CASE Sample(a)
    <3>1. Duration \in Nat
      BY ReadType DEF Duration, TypeOK
    <3> QED
      BY <2>1, <3>1 DEF TypeOK, Sample, Goto, ActorPC, hardware, bean, callback, poller,
                        history, Level
  <2>2. CASE Cancel(a)
    BY <2>2 DEF TypeOK, Cancel, Goto, ActorPC, hardware, bean, callback, poller, history,
                Level, NoTimer
  <2>3. CASE Start(a)
    BY <2>3 DEF TypeOK, Start, Goto, ActorPC, hardware, bean, callback, poller, history, Level
  <2> QED
    BY <1>8, <2>1, <2>2, <2>3 DEF Restart
<1>9. ASSUME NEW w \in Writer, StoreBegin(w) PROVE TypeOK'
  <2>1. PICK l \in Level, d \in Times : want' = [want EXCEPT ![w] = <<l, d>>]
    BY <1>9 DEF StoreBegin
  <2>2. want' \in [Writer -> Level \X Nat]
    BY <2>1, ConstAssumption DEF TypeOK
  <2> QED
    BY <1>9, <2>2 DEF TypeOK, StoreBegin, Goto, Actor, ActorPC, hardware, bean, callback,
                      poller, history, Level
<1>10. ASSUME NEW w \in Writer, StoreStep(w) PROVE TypeOK'
  <2>1. w \in Actor
    BY DEF Actor
  <2>2. CASE StoreMin(w)
    <3>1. want[w] \in Level \X Nat
      BY DEF TypeOK
    <3>2. min' \in [Level -> Nat]
      BY <2>2, <3>1 DEF TypeOK, StoreMin, Level
    <3>3. want' \in [Writer -> Level \X Nat]
      BY <2>2, ConstAssumption DEF TypeOK, StoreMin, Level
    <3> QED
      BY <2>1, <2>2, <3>2, <3>3 DEF TypeOK, StoreMin, Goto, ActorPC, hardware, callback, poller,
                                    history, Level
  <2>3. CASE StoreOnCnt(w)
    BY <2>1, <2>3 DEF TypeOK, StoreOnCnt, Goto, ActorPC, hardware, callback, poller, history, Level
  <2>4. CASE StoreOffCnt(w)
    BY <2>1, <2>4 DEF TypeOK, StoreOffCnt, Goto, ActorPC, hardware, callback, poller, history, Level
  <2>5. CASE StoreUndefine(w)
    BY <2>1, <2>5 DEF TypeOK, StoreUndefine, Goto, ActorPC, hardware, callback, poller, history,
                      Level, NotDefined
  <2> QED
    BY <1>10, <2>2, <2>3, <2>4, <2>5 DEF StoreStep
<1> QED
  BY <1>1, <1>2, <1>3, <1>4, <1>5, <1>6, <1>7, <1>8, <1>9, <1>10 DEF Next

\* Types hold in every reachable state.
THEOREM TypeCorrect == Spec => []TypeOK
BY TypeInit, TypeStep, PTL DEF Spec

-----------------------------------------------------------------------------
\* The invariant holds when the input is set up: its timer is to be started.
LEMMA InvInit == Init => Inv
<1> SUFFICES ASSUME Init PROVE Inv
  OBVIOUS
<1>1. TypeOK
  BY TypeInit
<1>2. pc["task"] = "sample" /\ pc["irq"] = "idle"
  BY DEF Init, Actor
<1>3. Restarting("task") /\ "task" \in Actor
  BY <1>2 DEF Restarting, Actor
<1> QED
  BY <1>1, <1>2, <1>3 DEF Inv, Places, Torn, Coming, SampleAhead, Init

\* An actor that moves while every other one stays.
LEMMA Moved ==
  ASSUME TypeOK, NEW a \in Actor, NEW l, Goto(a, l)
  PROVE  pc'[a] = l /\ \A b \in Actor \ {a} : pc'[b] = pc[b]
BY DEF TypeOK, Goto

LEMMA Actors ==
  /\ "irq" \in Actor /\ "task" \in Actor
  /\ \A w \in Writer : w \in Actor /\ w # "irq" /\ w # "task"
BY ConstAssumption DEF ConstAssumption, Actor

\* Each step keeps track of who is where and of what is torn down.
LEMMA PlaceStep ==
  ASSUME Inv, [Next]_vars
  PROVE  (Places /\ Torn)'
<1> USE Actors DEF Inv
<1>1. CASE UNCHANGED <<pc, irqOn, desc, irqPending, timer, cbPc>>
  BY <1>1 DEF Places, Torn
<1>2. CASE Edge
  BY <1>2 DEF Edge, Places, Torn, restart, callback
<1>3. CASE Tick
  BY <1>3 DEF Tick, Places, Torn, restart, callback, hardware, NoTimer
<1>4. CASE IrqEnter
  BY <1>4, Moved DEF IrqEnter, Places, Torn, callback
<1>5. CASE Callback
  BY <1>5 DEF Callback, Expire, CbSample, CbUpdate, CbCount, CbNotify, Places, Torn,
              hardware, restart, NoTimer
<1>6. CASE Poll
  BY <1>6 DEF Poll, PollBegin, PollRegister, PollRead, Places, Torn, hardware, restart, callback
<1>7. CASE FreeDesc
  BY <1>7, Moved DEF FreeDesc, Places, Torn, callback
<1>8. CASE FreeIrq
  BY <1>8, Moved DEF FreeIrq, Places, Torn, callback
<1>9. CASE FreeTimer
  BY <1>9, Moved DEF FreeTimer, Places, Torn, callback, hardware
<1>10. ASSUME NEW a \in Actor, Restart(a) PROVE (Places /\ Torn)'
  <2>1. pc[a] \in {"sample", "cancel", "start"}
    BY <1>10 DEF Restart, Sample, Cancel, Start
  <2>2. \E l \in {"cancel", "start", "idle"} : Goto(a, l)
    BY <1>10 DEF Restart, Sample, Cancel, Start
  <2>3. pc'[a] \in {"cancel", "start", "idle"} /\ \A b \in Actor \ {a} : pc'[b] = pc[b]
    BY <2>2, Moved
  <2>4. UNCHANGED <<irqOn, desc, irqPending, cbPc>>
    BY <1>10 DEF Restart, Sample, Cancel, Start, hardware, callback
  <2>5. a # "task" /\ a # "irq" => pc["task"] \notin {"freeIrq", "cancelTimer", "freed"}
    BY <2>1 DEF Torn, Actor
  <2>6. pc["task"] \notin {"cancelTimer", "freed"}
    BY <2>1, <2>5 DEF Torn
  <2> QED
    BY <2>1, <2>3, <2>4, <2>5, <2>6 DEF Places, Torn
<1>11. ASSUME NEW w \in Writer, StoreBegin(w) \/ StoreStep(w) PROVE (Places /\ Torn)'
  <2>1. UNCHANGED <<irqOn, desc, irqPending, cbPc, timer>>
    BY <1>11 DEF StoreBegin, StoreStep, StoreMin, StoreOnCnt, StoreOffCnt, StoreUndefine,
                 hardware, callback
  <2>2. \E l \in ActorPC : Goto(w, l)
    BY <1>11 DEF StoreBegin, StoreStep, StoreMin, StoreOnCnt, StoreOffCnt, StoreUndefine, ActorPC
  <2>3. \A b \in Actor \ {w} : pc'[b] = pc[b]
    BY <2>2, Moved
  <2>4. pc[w] # "idle" \/ pc["task"] = "idle"
    BY <1>11 DEF StoreBegin, StoreStep, StoreMin, StoreOnCnt, StoreOffCnt, StoreUndefine
  <2>5. pc["task"] \notin {"freeIrq", "cancelTimer", "freed"}
    BY <2>4 DEF Torn
  <2> QED
    BY <2>1, <2>3, <2>5 DEF Places, Torn
<1> QED
  BY <1>1, <1>2, <1>3, <1>4, <1>5, <1>6, <1>7, <1>8, <1>9, <1>10, <1>11
     DEF Next, Free, vars, restart, hardware, callback

\* Each step leaves a sample ahead, or the line's level sampled.
LEMMA ComingStep ==
  ASSUME Inv, [Next]_vars
  PROVE  Coming'
<1> USE Actors DEF Inv
<1>1. CASE UNCHANGED <<pc, desc, irqPending, timer, cbPc, cbVal, line, value>>
  BY <1>1 DEF Coming, SampleAhead, Restarting
<1>2. CASE Edge
  <2>1. desc => irqOn
    BY DEF Torn, Places
  <2> QED
    BY <1>2, <2>1 DEF Edge, Coming, SampleAhead
<1>3. CASE Tick
  BY <1>3 DEF Tick, Coming, SampleAhead, Restarting, hardware, bean, restart, callback, NoTimer,
              TypeOK
<1>4. CASE IrqEnter
  <2>1. Restarting("irq")'
    BY <1>4, Moved DEF IrqEnter, Restarting
  <2> QED
    BY <2>1 DEF Coming, SampleAhead
<1>5. CASE Expire
  BY <1>5 DEF Expire, Coming, SampleAhead
<1>6. CASE CbSample
  BY <1>6, ReadType DEF CbSample, Coming, SampleAhead, hardware
<1>7. CASE CbUpdate
  BY <1>7 DEF CbUpdate, Coming, SampleAhead, Restarting, hardware, restart
<1>8. CASE CbCount \/ CbNotify
  BY <1>8 DEF CbCount, CbNotify, Coming, SampleAhead, Restarting, hardware, restart, bean
<1>9. CASE Poll
  BY <1>9 DEF Poll, PollBegin, PollRegister, PollRead, Coming, SampleAhead, Restarting,
              hardware, restart, callback, bean
<1>10. CASE Free
  <2>1. ~desc'
    BY <1>10 DEF Free, FreeDesc, FreeIrq, FreeTimer, Torn, hardware
  <2> QED
    BY <2>1 DEF Coming
<1>11. ASSUME NEW a \in Actor, Sample(a) \/ Cancel(a) PROVE Coming'
  <2>1. Restarting(a)'
    BY <1>11, Moved DEF Sample, Cancel, Restarting
  <2> QED
    BY <2>1 DEF Coming, SampleAhead
<1>12. ASSUME NEW a \in Actor, Start(a) PROVE Coming'
  BY <1>12 DEF Start, Coming, SampleAhead, TypeOK, NoTimer
<1>13. ASSUME NEW w \in Writer, StoreBegin(w) \/ StoreStep(w) PROVE Coming'
  <2>1. Restarting(w)'
    BY <1>13, Moved DEF StoreBegin, StoreStep, StoreMin, StoreOnCnt, StoreOffCnt, StoreUndefine,
                        Restarting
  <2> QED
    BY <2>1 DEF Coming, SampleAhead
<1> QED
  BY <1>1, <1>2, <1>3, <1>4, <1>5, <1>6, <1>7, <1>8, <1>9, <1>10, <1>11, <1>12, <1>13
     DEF Next, Callback, Restart, vars, restart, hardware, callback, bean

\* The inductive invariant.
THEOREM Invariance == Spec => []Inv
<1>1. Inv /\ [Next]_vars => Inv'
  BY TypeStep, PlaceStep, ComingStep DEF Inv
<1> QED
  BY <1>1, InvInit, PTL DEF Spec

\* debounceIrqHandler, debounceTimerHandler and the stores never lose the
\* last edge: a debounced value that is not the line's is never final.
THEOREM NoEdgeLost == Spec => []NoLostEdge
<1>1. Inv => NoLostEdge
  BY DEF Inv, Coming, SampleAhead, NoLostEdge, InFlight
<1> QED
  BY <1>1, Invariance, PTL

\* After gpioFreeDebounce nothing is left that could use the input.
THEOREM FreedQuietly == Spec => []QuietAfterFree
<1>1. Inv => QuietAfterFree
  BY Actors DEF Inv, Torn, Places, QuietAfterFree, Actor
<1> QED
  BY <1>1, Invariance, PTL

-----------------------------------------------------------------------------
\* One less and one more level.
LEMMA Levels == \A l \in Level : 1 - l \in Level /\ 1 - (1 - l) = l /\ 1 - l # l /\ l # NotDefined
BY DEF Level, NotDefined

\* Before the first store begins no store is anywhere.
NoStoreYet == stores = 0 => \A w \in Writer : pc[w] = "idle"

LEMMA NoStoreStep ==
  ASSUME TypeOK, NoStoreYet, [Next]_vars
  PROVE  NoStoreYet'
<1>1. SUFFICES ASSUME stores' = 0, NEW w \in Writer
               PROVE  pc'[w] = "idle"
  BY DEF NoStoreYet
<1>2. stores \in Nat /\ stores' # stores + 1
  BY <1>1 DEF TypeOK
<1>3. ~\E v \in Writer : StoreBegin(v)
  BY <1>2 DEF StoreBegin
<1>4. stores = 0
  BY <1>1, <1>3 DEF Next, Edge, Tick, IrqEnter, Callback, Expire, CbSample, CbUpdate, CbCount,
     CbNotify, Poll, PollBegin, PollRegister, PollRead, Free, FreeDesc, FreeIrq, FreeTimer, Restart,
     Sample, Cancel, Start, StoreStep, StoreMin, StoreOnCnt, StoreOffCnt, StoreUndefine, vars, history
<1>5. \A v \in Writer : pc[v] = "idle"
  BY <1>4 DEF NoStoreYet
<1>6. pc \in [Actor -> ActorPC] /\ w \in Actor /\ w # "irq" /\ w # "task"
  BY ConstAssumption DEF TypeOK, Actor
<1>7. CASE \E a \in Actor : Restart(a)
  BY <1>5, <1>6, <1>7 DEF Restart, Sample, Cancel, Start, Goto
<1>8. CASE \E v \in Writer : StoreStep(v)
  BY <1>5, <1>8 DEF StoreStep, StoreMin, StoreOnCnt, StoreOffCnt, StoreUndefine
<1>9. CASE IrqEnter \/ Free
  BY <1>5, <1>6, <1>9 DEF IrqEnter, Free, FreeDesc, FreeIrq, FreeTimer, Goto
<1>10. CASE UNCHANGED vars \/ Edge \/ Tick \/ Callback \/ Poll
  <2>1. UNCHANGED pc
    BY <1>10 DEF Edge, Tick, Callback, Expire, CbSample, CbUpdate, CbCount, CbNotify, Poll,
       PollBegin, PollRegister, PollRead, vars, restart
  <2> QED
    BY <1>5, <2>1
<1> QED
  BY <1>3, <1>7, <1>8, <1>9, <1>10 DEF Next

\* Until a store begins every step keeps the counters in step with the value.
LEMMA CountingStep ==
  ASSUME TypeOK, NoStoreYet, stores = 0 => Counting, [Next]_vars, stores' = 0
  PROVE  Counting'
<1>a. stores \in Nat /\ stores' # stores + 1
  BY DEF TypeOK
<1>b. ~\E v \in Writer : StoreBegin(v)
  BY <1>a DEF StoreBegin
<1>c. stores = 0
  BY <1>b DEF Next, Edge, Tick, IrqEnter, Callback, Expire, CbSample, CbUpdate, CbCount,
     CbNotify, Poll, PollBegin, PollRegister, PollRead, Free, FreeDesc, FreeIrq, FreeTimer, Restart,
     Sample, Cancel, Start, StoreStep, StoreMin, StoreOnCnt, StoreOffCnt, StoreUndefine, vars, history
<1>d. Counting /\ \A v \in Writer : pc[v] = "idle"
  BY <1>c DEF NoStoreYet
<1>e. ~\E v \in Writer : StoreStep(v)
  BY <1>d DEF StoreStep, StoreMin, StoreOnCnt, StoreOffCnt, StoreUndefine
<1>1. CASE UNCHANGED <<cbPc, cbVal, cbCnt, cnt, value>>
  BY <1>1, <1>d DEF Counting
<1>2. CASE Expire \/ CbSample
  BY <1>2, <1>d DEF Expire, CbSample, Counting, bean
<1>3. CASE CbUpdate
  <2>1. cbPc = "update" /\ cnt' = cnt /\ cnt \in [Level -> Nat] /\ cbVal \in Level
    BY <1>3 DEF CbUpdate, TypeOK
  <2>2. CASE value = cbVal
    BY <1>3, <1>d, <2>1, <2>2 DEF CbUpdate, Counting
  <2>3. CASE value # cbVal
    <3>1. cbPc' = "count" /\ value' = cbVal /\ cbVal' = cbVal /\ cbCnt' = cnt[cbVal]
      BY <1>3, <2>3 DEF CbUpdate
    <3>2. value = NotDefined \/ value = 1 - cbVal
      BY <2>3 DEF TypeOK, Level
    <3>3. cnt[1 - cbVal] - cnt[cbVal] \in {0, 1}
      BY <1>d, <2>1, <3>2, Levels DEF Counting, Level, NotDefined
    <3> QED
      BY <2>1, <3>1, <3>3 DEF Counting
  <2> QED
    BY <2>2, <2>3
<1>4. CASE CbCount
  <2> DEFINE v == cbVal
  <2>1. /\ v \in Level /\ cnt \in [Level -> Nat]
        /\ value = v /\ cbCnt = cnt[v] /\ cnt[1 - v] - cnt[v] \in {0, 1}
    BY <1>4, <1>d DEF CbCount, Counting, TypeOK
  <2>2. cbPc' = "notify" /\ value' = v /\ cnt' = [cnt EXCEPT ![v] = cbCnt + 1]
    BY <1>4, <2>1 DEF CbCount
  <2>3. cnt'[v] = cnt[v] + 1 /\ cnt'[1 - v] = cnt[1 - v]
    BY <2>1, <2>2, Levels
  <2>4. cnt'[v] > 0 /\ cnt'[v] - cnt'[1 - v] \in {0, 1}
    BY <2>1, <2>3, Levels
  <2> QED
    BY <2>1, <2>2, <2>4, Levels DEF Counting
<1>5. CASE CbNotify
  BY <1>5, <1>d DEF CbNotify, Counting, bean
<1> QED
  BY <1>b, <1>e, <1>1, <1>2, <1>3, <1>4, <1>5
     DEF Next, Callback, Edge, Tick, IrqEnter, Poll, PollBegin, PollRegister, PollRead,
         Free, FreeDesc, FreeIrq, FreeTimer, Restart, Sample, Cancel, Start, vars, bean, callback

\* As long as no debounce time is stored, di<n>_deb_on_cnt and
\* di<n>_deb_off_cnt never differ by more than one, and the one of the
\* current value is not behind.
THEOREM CountersAlternate == Spec => []CountsAlternate
<1>1. Init => NoStoreYet /\ (stores = 0 => Counting)
  BY ConstAssumption DEF Init, NoStoreYet, Counting, Level, NotDefined, Actor
<1>2. TypeOK /\ NoStoreYet /\ (stores = 0 => Counting) /\ [Next]_vars
        => NoStoreYet' /\ (stores = 0 => Counting)'
  BY NoStoreStep, CountingStep
<1>3. TypeOK /\ (stores = 0 => Counting) => CountsAlternate
  BY Levels DEF Counting, CountsAlternate, TypeOK, Level
<1> QED
  BY <1>1, <1>2, <1>3, TypeCorrect, PTL DEF Spec

-----------------------------------------------------------------------------
\* A poller whose value is old has been notified or is going to be: by the
\* callback that has changed the value, or by the one that will define it.
Informing ==
  /\ pollPc \in {"read", "idle"} => notif
  /\ pollPc = "idle" =>
       polled = value \/ news \/ cbPc \in {"count", "notify"} \/ value = NotDefined

LEMMA InformingStep ==
  ASSUME TypeOK, Informing, [Next]_vars
  PROVE  Informing'
<1>1. CASE UNCHANGED <<poller, value, cbPc>>
  BY <1>1 DEF Informing, poller
<1>2. CASE Edge \/ Tick \/ IrqEnter \/ Free
  BY <1>1, <1>2 DEF Edge, Tick, IrqEnter, Free, FreeDesc, FreeIrq, FreeTimer, bean, callback
<1>3. CASE Expire \/ CbSample
  BY <1>3 DEF Expire, CbSample, Informing, poller, bean
<1>4. CASE CbUpdate
  BY <1>4 DEF CbUpdate, Informing, poller
<1>5. CASE CbCount
  BY <1>5 DEF CbCount, Informing, poller
<1>6. CASE CbNotify
  <2>1. UNCHANGED <<notif, pollPc, polled, value>> /\ news' = (news \/ notif)
    BY <1>6 DEF CbNotify, bean
  <2> QED
    BY <2>1 DEF Informing
<1>7. CASE PollBegin
  BY <1>7 DEF PollBegin, Informing
<1>8. CASE PollRegister
  BY <1>8 DEF PollRegister, Informing
<1>9. CASE PollRead
  BY <1>9 DEF PollRead, Informing, bean
<1>10. CASE \E a \in Actor : Restart(a)
  BY <1>1, <1>10 DEF Restart, Sample, Cancel, Start, bean, callback
<1>11. CASE \E w \in Writer : StoreBegin(w) \/ StoreMin(w) \/ StoreOnCnt(w) \/ StoreOffCnt(w)
  BY <1>1, <1>11 DEF StoreBegin, StoreMin, StoreOnCnt, StoreOffCnt, bean, callback
<1>12. CASE \E w \in Writer : StoreUndefine(w)
  BY <1>12 DEF StoreUndefine, Informing, poller, callback
<1>13. CASE UNCHANGED vars
  BY <1>1, <1>13 DEF vars, bean, callback
<1> QED
  BY <1>2, <1>3, <1>4, <1>5, <1>6, <1>7, <1>8, <1>9, <1>10, <1>11, <1>12, <1>13
     DEF Next, Callback, Poll, StoreStep

\* devAttrGpioDeb_show and debounceTimerHandler: at rest a process that polls
\* the file has the current value or has been told of it, however its read
\* raced with the callback and the stores.
THEOREM PollersInformed == Spec => []PollerInformed
<1>1. Init => Informing
  BY DEF Init, Informing
<1>2. TypeOK /\ Informing /\ [Next]_vars => Informing'
  BY InformingStep
<1>3. Inv /\ Informing => PollerInformed
  <2> SUFFICES ASSUME Inv, Informing, desc, ~InFlight, cbPc = "idle", pollPc = "idle"
               PROVE  polled = value \/ news
    BY DEF PollerInformed
  <2>1. value = line /\ line # NotDefined
    BY DEF Inv, TypeOK, Coming, SampleAhead, InFlight, Level, NotDefined
  <2> QED
    BY <2>1 DEF Informing
<1> QED
  BY <1>1, <1>2, <1>3, TypeCorrect, Invariance, PTL DEF Spec

-----------------------------------------------------------------------------
\* What the counters may hold, but for the change that is being counted.
Budget == IF cbPc = "count" THEN counted - 1 ELSE counted

ClearingOn == \E w \in Writer : pc[w] \in {"min", "onCnt"}
Clearing == \E w \in Writer : pc[w] \in {"min", "onCnt", "offCnt"}

\* A counter that the latest store has cleared counts since that store began.
Cleared ==
  /\ ~ClearingOn => cnt[1] <= Budget
  /\ ~Clearing => cnt[0] + cnt[1] <= Budget
  /\ cbPc = "count" => cbCnt = cnt[cbVal]

LEMMA ClearedStep ==
  ASSUME ~Smp, TypeOK, Cleared, [Next]_vars
  PROVE  Cleared'
<1> USE DEF Budget
<1>1. /\ pc \in [Actor -> ActorPC] /\ Writer \subseteq Actor \ {"irq", "task"}
      /\ cnt \in [Level -> Nat] /\ counted \in Nat /\ cbVal \in Level /\ cbCnt \in Nat
  BY ConstAssumption DEF TypeOK, Actor
<1>2. CASE UNCHANGED <<cnt, counted>> /\ UNCHANGED <<cbPc, cbVal, cbCnt>> /\ \A w \in Writer : pc'[w] = pc[w]
  BY <1>2 DEF Cleared, ClearingOn, Clearing
<1>3. CASE Edge \/ Tick \/ Poll
  BY <1>2, <1>3 DEF Edge, Tick, Poll, PollBegin, PollRegister, PollRead, bean, callback, restart, history
<1>4. CASE IrqEnter \/ Free
  BY <1>1, <1>2, <1>4 DEF IrqEnter, Free, FreeDesc, FreeIrq, FreeTimer, Goto, bean, callback, history
<1>5. CASE Expire \/ CbSample \/ CbNotify
  <2>1. /\ UNCHANGED <<cnt, counted, pc>> /\ cbPc # "count" /\ cbPc' # "count"
    BY <1>5 DEF Expire, CbSample, CbNotify, bean, restart, history
  <2> QED
    BY <2>1 DEF Cleared, ClearingOn, Clearing
<1>6. CASE CbUpdate
  <2>1. /\ UNCHANGED <<cnt, pc>> /\ cbPc # "count"
        /\ \/ cbPc' # "count" /\ counted' = counted
           \/ cbPc' = "count" /\ counted' = counted + 1 /\ cbVal' = cbVal /\ cbCnt' = cnt[cbVal]
    BY <1>6 DEF CbUpdate, restart
  <2> QED
    BY <1>1, <2>1 DEF Cleared, ClearingOn, Clearing
<1>7. CASE CbCount
  <2>1. /\ cnt' = [cnt EXCEPT ![cbVal] = cnt[cbVal] + 1] /\ UNCHANGED <<pc, counted>>
        /\ cbPc = "count" /\ cbPc' = "notify"
    BY <1>7 DEF CbCount, restart, history, Cleared
  <2>2. cnt'[1] <= cnt[1] + 1 /\ cnt'[0] + cnt'[1] = cnt[0] + cnt[1] + 1
    BY <1>1, <2>1 DEF Level
  <2>3. cnt'[0] \in Nat /\ cnt'[1] \in Nat /\ cnt[0] \in Nat /\ cnt[1] \in Nat
    BY <1>1, <2>1 DEF Level
  <2> QED
    BY <1>1, <2>1, <2>2, <2>3 DEF Cleared, ClearingOn, Clearing
<1>8. ASSUME NEW a \in Actor, Restart(a) PROVE Cleared'
  <2>1. /\ UNCHANGED <<cnt, counted, cbPc, cbVal, cbCnt>> /\ pc[a] \in {"sample", "cancel", "start"}
        /\ \E l \in {"cancel", "start", "idle"} : pc' = [pc EXCEPT ![a] = l]
    BY <1>8 DEF Restart, Sample, Cancel, Start, Goto, bean, callback, history
  <2>2. ClearingOn' = ClearingOn /\ Clearing' = Clearing
    BY <1>1, <2>1 DEF ClearingOn, Clearing
  <2> QED
    BY <2>1, <2>2 DEF Cleared
<1>9. ASSUME NEW w \in Writer, StoreBegin(w) \/ StoreStep(w) PROVE Cleared'
  <2>1. cbPc = "idle" /\ UNCHANGED <<cbPc, cbVal, cbCnt>>
    BY <1>9 DEF StoreBegin, StoreStep, StoreMin, StoreOnCnt, StoreOffCnt, StoreUndefine, MayRun, callback
  <2>2. CASE StoreBegin(w) \/ StoreMin(w)
    <3>1. pc'[w] \in {"min", "onCnt"}
      BY <1>1, <2>2 DEF StoreBegin, StoreMin, Goto
    <3> QED
      BY <2>1, <3>1 DEF Cleared, ClearingOn, Clearing
  <2>3. CASE StoreOnCnt(w)
    <3>1. pc'[w] = "offCnt" /\ cnt'[1] = 0 /\ UNCHANGED counted
      BY <1>1, <2>3 DEF StoreOnCnt, Goto, Level, history
    <3> QED
      BY <1>1, <2>1, <3>1 DEF Cleared, Clearing
  <2>4. CASE StoreOffCnt(w)
    <3>1. /\ pc[w] = "offCnt" /\ pc' = [pc EXCEPT ![w] = "undefine"]
          /\ cnt' = [cnt EXCEPT ![0] = 0] /\ UNCHANGED counted
      BY <2>4 DEF StoreOffCnt, Goto, history
    <3>2. ClearingOn' = ClearingOn /\ (~Clearing' => ~ClearingOn)
      BY <1>1, <3>1 DEF ClearingOn, Clearing
    <3>3. cnt'[0] = 0 /\ cnt'[1] = cnt[1] /\ cnt[1] \in Nat
      BY <1>1, <3>1 DEF Level
    <3> QED
      BY <1>1, <2>1, <3>1, <3>2, <3>3 DEF Cleared
  <2>5. CASE StoreUndefine(w)
    <3>1. /\ pc[w] = "undefine" /\ pc' = [pc EXCEPT ![w] = "sample"] /\ UNCHANGED <<cnt, counted>>
      BY <2>5 DEF StoreUndefine, Goto, history
    <3>2. ClearingOn' = ClearingOn /\ Clearing' = Clearing
      BY <1>1, <3>1 DEF ClearingOn, Clearing
    <3> QED
      BY <2>1, <3>1, <3>2 DEF Cleared
  <2> QED
    BY <1>9, <2>2, <2>3, <2>4, <2>5 DEF StoreStep
<1>10. CASE UNCHANGED vars
  BY <1>2, <1>10 DEF vars, bean, callback, restart, history
<1> QED
  BY <1>3, <1>4, <1>5, <1>6, <1>7, <1>8, <1>9, <1>10 DEF Next, Callback

\* On one processor a store of a debounce time resets both counters: they
\* hold what has been counted since, whatever other stores are under way.
THEOREM ResetsOnOneProcessor == Spec /\ ~Smp => []ResetClears
<1>1. Init => Cleared
  BY DEF Init, Cleared, Budget, Level
<1>2. ~Smp /\ TypeOK /\ Cleared /\ [Next]_vars => Cleared'
  BY ClearedStep
<1>3. Cleared => ResetClears
  BY DEF Cleared, Clearing, Budget, ResetClears
<1>4. ~Smp => []~Smp
  <2>1. ~Smp => (~Smp)'
    OBVIOUS
  <2> QED
    BY <2>1, PTL
<1> QED
  BY <1>1, <1>2, <1>3, <1>4, TypeCorrect, PTL DEF Spec

-----------------------------------------------------------------------------
\* An edge or a store that is still to restart the timer, or is about to.
Busy == Handling \/ \E a \in Actor : Restarting(a)

\* The timer and the age of the level make up the time in force for the level,
\* unless the timer is about to be restarted or was started with a stale time.
\* When it has expired the age alone does.
Aging ==
  /\ \A l \in Level : min[l] <= MaxStable
  /\ \A w \in Writer : want[w][2] <= MaxStable
  /\ desc /\ ~stale /\ ~Busy =>
       /\ timer # NoTimer => timer + stable >= min[line]
       /\ cbPc = "sample" /\ timer = NoTimer => stable >= min[line]

\* Only a store changes a time.
LEMMA TimesStep ==
  ASSUME TypeOK, Aging, [Next]_vars
  PROVE  /\ \A l \in Level : min'[l] <= MaxStable
         /\ \A w \in Writer : want'[w][2] <= MaxStable
<1> USE ConstAssumption DEF Aging
<1>1. CASE UNCHANGED <<min, want>>
  BY <1>1
<1>2. ASSUME NEW w \in Writer, StoreBegin(w) PROVE min' = min /\ \A v \in Writer : want'[v][2] <= MaxStable
  <2>1. PICK l \in Level, d \in Times : want' = [want EXCEPT ![w] = <<l, d>>]
    BY <1>2 DEF StoreBegin
  <2>2. d <= MaxStable
    OBVIOUS
  <2> QED
    BY <1>2, <2>1, <2>2 DEF StoreBegin, bean, TypeOK
<1>3. ASSUME NEW w \in Writer, StoreMin(w)
      PROVE  /\ \A l \in Level : min'[l] <= MaxStable
             /\ \A v \in Writer : want'[v][2] <= MaxStable
  <2>1. min' = [min EXCEPT ![want[w][1]] = want[w][2]] /\ want' = [want EXCEPT ![w] = <<0, Default>>]
    BY <1>3 DEF StoreMin
  <2>2. want[w][1] \in Level /\ want[w][2] <= MaxStable /\ Default <= MaxStable
    BY DEF TypeOK
  <2> QED
    BY <2>1, <2>2 DEF TypeOK
<1>4. ASSUME NEW w \in Writer, StoreStep(w), ~StoreMin(w) PROVE UNCHANGED <<min, want>>
  BY <1>4 DEF StoreStep, StoreOnCnt, StoreOffCnt, StoreUndefine
<1>5. ASSUME NEW a \in Actor, Restart(a) PROVE UNCHANGED <<min, want>>
  BY <1>5 DEF Restart, Sample, Cancel, Start, bean
<1>6. CASE UNCHANGED vars \/ Edge \/ Tick \/ IrqEnter \/ Callback \/ Poll \/ Free
  <2>1. UNCHANGED <<min, want>>
    BY <1>6 DEF vars, bean, Edge, Tick, IrqEnter, Callback, Expire, CbSample, CbUpdate, CbCount,
       CbNotify, Poll, PollBegin, PollRegister, PollRead, Free, FreeDesc, FreeIrq, FreeTimer
  <2> QED
    BY <2>1, <1>1
<1> QED
  BY <1>1, <1>2, <1>3, <1>4, <1>5, <1>6 DEF Next

\* Each step keeps timer and age together, or makes the input busy.
LEMMA AgingStep ==
  ASSUME Inv, Aging, [Next]_vars
  PROVE  Aging'
<1> USE Actors
<1> DEFINE Long(t) ==
      /\ t # NoTimer => t + stable >= min[line]
      /\ cbPc = "sample" /\ t = NoTimer => stable >= min[line]
<1>1. /\ TypeOK /\ Torn /\ Places /\ stable \in Nat /\ timer \in Nat \cup {NoTimer}
      /\ pc \in [Actor -> ActorPC] /\ dur \in [Actor -> Nat] /\ MaxStable \in Nat
      /\ line \in Level /\ min[line] \in Nat /\ min[line] <= MaxStable
  BY ConstAssumption DEF Inv, TypeOK, Aging
<1>2. SUFFICES ASSUME desc', ~stale', ~Busy'
               PROVE  /\ timer' # NoTimer => timer' + stable' >= min'[line']
                      /\ cbPc' = "sample" /\ timer' = NoTimer => stable' >= min'[line']
  BY TimesStep, <1>1 DEF Aging
<1>3. ASSUME NEW a \in Actor, pc'[a] \in {"min", "onCnt", "offCnt", "undefine", "sample", "cancel", "start"}
      PROVE  FALSE
  BY <1>2, <1>3 DEF Busy, Restarting
<1>4. CASE /\ UNCHANGED <<min, line, pc, desc, timer, irqPending, stable>> /\ cbPc' # "sample"
           /\ (timer # NoTimer => stale' = stale)
  BY <1>1, <1>2, <1>4 DEF Aging, Busy, Handling, Restarting
<1>5. CASE UNCHANGED <<min, line, pc, desc, timer, irqPending, stable, stale, cbPc>>
  BY <1>1, <1>2, <1>5 DEF Aging, Busy, Handling, Restarting
<1>6. CASE Edge
  <2>1. desc => irqOn
    BY <1>1 DEF Torn, Places
  <2> QED
    BY <1>2, <1>6, <2>1 DEF Edge, Busy, Handling, hardware
<1>7. CASE Tick
  <2>1. UNCHANGED <<min, line, pc, desc, irqPending, stale, cbPc>>
    BY <1>7 DEF Tick, bean, restart, callback, hardware
  <2>2. /\ timer' = IF timer > 0 THEN timer - 1 ELSE timer
        /\ stable' = IF stable < MaxStable THEN stable + 1 ELSE stable
    BY <1>7 DEF Tick
  <2>3. desc /\ ~stale /\ ~Busy
    BY <1>2, <2>1 DEF Busy, Handling, Restarting
  <2>4. stable' >= stable /\ (stable' = stable + 1 \/ stable' >= min[line])
    BY <1>1, <2>2
  <2>5. timer' = NoTimer <=> timer = NoTimer
    BY <1>1, <2>2 DEF NoTimer
  <2>6. timer # NoTimer => timer' \in Nat /\ timer' >= timer - 1 /\ timer \in Nat
    BY <1>1, <2>2 DEF NoTimer
  <2>7. stable' \in Nat
    BY <1>1, <2>2
  <2> QED
    BY <1>1, <2>1, <2>3, <2>4, <2>5, <2>6, <2>7 DEF Aging
<1>8. CASE IrqEnter
  BY <1>1, <1>3, <1>8, Moved DEF IrqEnter
<1>9. CASE Expire
  <2>1. /\ UNCHANGED <<min, line, pc, desc, irqPending, stable, stale>> /\ timer = 0
        /\ timer' = NoTimer
    BY <1>9 DEF Expire, bean, restart, hardware, history
  <2>2. desc /\ ~stale /\ ~Busy
    BY <1>2, <2>1 DEF Busy, Handling, Restarting
  <2> QED
    BY <1>1, <2>1, <2>2 DEF Aging, NoTimer
<1>10. CASE CbSample
  <2>1. timer # NoTimer => stale' = stale
    BY <1>1, <1>10 DEF CbSample, TypeOK
  <2> QED
    BY <1>4, <1>10, <2>1 DEF CbSample, bean, restart, hardware
<1>11. CASE CbUpdate \/ CbCount \/ CbNotify
  BY <1>4, <1>11 DEF CbUpdate, CbCount, CbNotify, bean, restart, hardware, history
<1>12. CASE Poll
  BY <1>5, <1>12 DEF Poll, PollBegin, PollRegister, PollRead, bean, restart, hardware, callback, history
<1>13. CASE Free
  BY <1>1, <1>2, <1>13 DEF Free, FreeDesc, FreeIrq, FreeTimer, Torn, hardware
<1>14. ASSUME NEW a \in Actor, Sample(a) \/ Cancel(a) PROVE FALSE
  BY <1>1, <1>3, <1>14, Moved DEF Sample, Cancel
<1>15. CASE \E a \in Actor : Start(a)
  <2>1. PICK a \in Actor : Start(a)
    BY <1>15
  <2>2. timer' = dur[a] /\ stale' = (dur[a] < Duration) /\ UNCHANGED <<min, line, desc, stable>>
    BY <2>1 DEF Start, bean, hardware
  <2>3. Duration = min[line]
    BY <1>1, <1>2, <2>2, ReadType DEF Duration
  <2>4. ~(dur[a] < Duration)
    BY <1>2, <2>2
  <2>5. dur[a] \in Nat /\ dur[a] >= min[line]
    BY <1>1, <2>3, <2>4
  <2> QED
    BY <1>1, <2>2, <2>5 DEF NoTimer
<1>16. ASSUME NEW w \in Writer, StoreBegin(w) \/ StoreStep(w) PROVE FALSE
  <2>1. pc'[w] \in {"min", "onCnt", "offCnt", "undefine", "sample"}
    BY <1>1, <1>16, Moved DEF StoreBegin, StoreStep, StoreMin, StoreOnCnt, StoreOffCnt, StoreUndefine
  <2> QED
    BY <1>3, <2>1
<1>17. CASE UNCHANGED vars
  BY <1>5, <1>17 DEF vars, bean, restart, hardware, callback, history
<1> QED
  BY <1>6, <1>7, <1>8, <1>9, <1>10, <1>11, <1>12, <1>13, <1>14, <1>15, <1>16, <1>17
     DEF Next, Callback, Restart

\* debounceTimerHandler adopts a level only after it has been there for the
\* time in force, whatever the times, the edges and the stores, but for the
\* two cases that MinStable names.
THEOREM StableLongEnough == Spec => MinStable
<1> DEFINE Adopt ==
      (/\ cbPc = "sample" /\ cbPc' = "update" /\ cbVal' # value
       /\ desc /\ ~Overtaken /\ ~stale)
        => stable >= min[cbVal']
<1>1. Init => Aging
  BY ConstAssumption, Actors DEF Init, Aging, NoTimer, Busy, Restarting
<1>2. Inv /\ Aging /\ [Next]_vars => Aging'
  BY AgingStep
<1>3. Inv /\ Aging /\ [Next]_vars => [Adopt]_vars
  <2> SUFFICES ASSUME Inv, Aging, [Next]_vars, cbPc = "sample", cbPc' = "update",
                      desc, ~Overtaken, ~stale
               PROVE  stable >= min[cbVal']
    OBVIOUS
  <2>1. ASSUME ~CbSample PROVE FALSE
    <3>1. UNCHANGED cbPc \/ cbPc' # "update"
      BY <2>1 DEF Next, Edge, Tick, IrqEnter, Callback, Expire, CbUpdate, CbCount, CbNotify, Poll,
         PollBegin, PollRegister, PollRead, Free, FreeDesc, FreeIrq, FreeTimer, Restart, Sample,
         Cancel, Start, StoreBegin, StoreStep, StoreMin, StoreOnCnt, StoreOffCnt, StoreUndefine,
         vars, callback
    <3> QED
      BY <3>1
  <2>2. cbVal' = line
    BY <2>1, ReadType DEF CbSample, Inv
  <2> QED
    BY <2>2 DEF Aging, Busy, Overtaken
<1> QED
  BY <1>1, <1>2, <1>3, Invariance, PTL DEF MinStable, Spec
=============================================================================
