------------------------------ MODULE Debounce ------------------------------
(***************************************************************************)
(* A debounced input of src/commons/gpio/gpio.c (digital inputs, button,   *)
(* watchdog expired): the edge interrupt that restarts a high resolution   *)
(* timer, the timer callback that samples the line, counts and notifies,   *)
(* the sysfs stores that change a debounce time and reset the counters,    *)
(* the pollable read, and the teardown.  There is no lock: interrupt,      *)
(* callback and stores run on different processors and share the bean.     *)
(*                                                                         *)
(* Time advances in ticks.  Levels are after gpioGetVal's inversion.  A     *)
(* local variable of a function is given its initial value back when the   *)
(* function is done with it.                                               *)
(***************************************************************************)
EXTENDS Integers

CONSTANTS
  Writer,     \* processes in a debounce time store
  Times,      \* debounce times, in ticks
  Default,    \* DEBOUNCE_DEFAULT_TIME_USEC
  Invert,     \* gpio.invert: what is read once the descriptor is gone
  Smp,        \* callback and interrupt may run while another one is running
  Freeing,    \* the driver may be unbound
  Polling,    \* a process polls the debounced file
  MaxEdges,   \* bound on the edges of the line
  MaxStores,  \* bound on the stores
  MaxStable   \* bound on the age of the level that is tracked

ASSUME ConstAssumption ==
  /\ Writer \cap {"irq", "task"} = {}
  /\ Times \subseteq Nat /\ Default \in Nat
  /\ {Invert, Smp, Freeing, Polling} \subseteq BOOLEAN
  /\ MaxEdges \in Nat /\ MaxStores \in Nat /\ MaxStable \in Nat
  /\ \A d \in Times \cup {Default} : d <= MaxStable

Level == {0, 1}
NotDefined == -1
NoTimer == -1

\* Those who call debounceTimerRestart: the interrupt handler, the bound
\* driver when it sets the input up (and later frees it), the stores.
Actor == {"irq", "task"} \cup Writer

VARIABLES
  line,        \* level of the line
  irqPending,  \* an edge has been latched and not handled
  irqOn,       \* the interrupt is requested
  desc,        \* the GPIO descriptor is held
  value,       \* debounced value
  min,         \* [1 |-> onMinTime_usec, 0 |-> offMinTime_usec]
  cnt,         \* [1 |-> onCnt, 0 |-> offCnt]
  timer,       \* ticks to expiry
  pc,          \* where each actor is
  dur,         \* the time it is about to start the timer with
  want,        \* what each store sets: <<level, time>>
  cbPc,        \* where the timer callback is
  cbVal,       \* the level it sampled
  cbCnt,       \* the counter it is about to write back
  notif,       \* notifKn is set
  pollPc,      \* where the reader of the pollable file is
  polled,      \* the value it got
  news,        \* it has been notified since
  stable,      \* history: ticks since the last edge
  stale,       \* history: when the timer was started, the time it was started
               \* with was shorter than that of the line's level
  counted,     \* history: changes counted since the last store began,
               \* with the one that is being counted
  edges, stores

bean == <<value, min, cnt>>
callback == <<cbPc, cbVal, cbCnt>>
poller == <<notif, pollPc, polled, news>>
restart == <<pc, dur>>
hardware == <<irqPending, irqOn, desc>>
history == <<stable, stale, counted, edges, stores>>
vars == <<line, hardware, bean, timer, restart, want, callback, poller, history>>

Init ==
  /\ line \in Level
  /\ irqPending = FALSE /\ irqOn = TRUE /\ desc = TRUE
  /\ value = NotDefined
  /\ min = [l \in Level |-> Default]
  /\ cnt = [l \in Level |-> 0]
  /\ timer = NoTimer
  /\ pc = [a \in Actor |-> IF a = "task" THEN "sample" ELSE "idle"]
  /\ dur = [a \in Actor |-> 0]
  /\ want = [w \in Writer |-> <<0, Default>>]
  /\ cbPc = "idle" /\ cbVal = 0 /\ cbCnt = 0
  /\ notif = FALSE /\ pollPc = "never" /\ polled = NotDefined /\ news = FALSE
  /\ stable = 0 /\ stale = FALSE /\ counted = 0 /\ edges = 0 /\ stores = 0

Goto(a, label) == pc' = [pc EXCEPT ![a] = label]

\* On one processor the callback and the handler run to their end.
MayRun(a) == Smp \/ (cbPc = "idle" /\ (a = "irq" \/ pc["irq"] = "idle"))

\* gpiod_get_value of no descriptor is 0, before the inversion.
Read == IF desc THEN line ELSE IF Invert THEN 1 ELSE 0

-----------------------------------------------------------------------------
(* The line and the time.                                                  *)

Edge ==
  /\ edges < MaxEdges
  /\ line' = 1 - line
  /\ irqPending' = irqOn
  /\ stable' = 0
  /\ edges' = edges + 1
  /\ UNCHANGED <<irqOn, desc, bean, timer, restart, want, callback, poller,
                 stale, counted, stores>>

Handling == irqPending \/ pc["irq"] # "idle"

Tick ==
  /\ timer > 0 \/ stable < MaxStable
  /\ timer' = IF timer > 0 THEN timer - 1 ELSE timer
  /\ stable' = IF stable < MaxStable THEN stable + 1 ELSE stable
  /\ UNCHANGED <<line, hardware, bean, restart, want, callback, poller, stale,
                 counted, edges, stores>>

-----------------------------------------------------------------------------
(* debounceIrqHandler and debounceTimerRestart.                            *)

\* Mutant: an interrupt that meets the callback running is dismissed.
IrqDismissed ==
  /\ irqOn /\ irqPending
  /\ pc["irq"] = "idle"
  /\ irqPending' = FALSE
  /\ Goto("irq", IF cbPc = "idle" THEN "sample" ELSE "idle")
  /\ UNCHANGED <<line, irqOn, desc, bean, timer, dur, want, callback, poller, history>>

IrqEnter ==
  /\ irqOn /\ irqPending
  /\ pc["irq"] = "idle"
  /\ Smp \/ cbPc = "idle"
  /\ irqPending' = FALSE
  /\ Goto("irq", "sample")
  /\ UNCHANGED <<line, irqOn, desc, bean, timer, dur, want, callback, poller, history>>

\* Mutant: one tick less, also than none.
DurationLess == min[Read] - 1

\* The time for the level the line has now.
Duration == min[Read]

Sample(a) ==
  /\ pc[a] = "sample"
  /\ MayRun(a)
  /\ dur' = [dur EXCEPT ![a] = Duration]
  /\ Goto(a, "cancel")
  /\ UNCHANGED <<line, hardware, bean, timer, want, callback, poller, history>>

\* hrtimer_cancel waits for a running callback.
Cancel(a) ==
  /\ pc[a] = "cancel"
  /\ MayRun(a)
  /\ cbPc = "idle"
  /\ timer' = NoTimer /\ stale' = FALSE
  /\ Goto(a, "start")
  /\ UNCHANGED <<line, hardware, bean, dur, want, callback, poller, stable, counted, edges,
                 stores>>

\* Mutant: half the time.
StartShort(a) ==
  /\ pc[a] = "start"
  /\ MayRun(a)
  /\ timer' = dur[a] \div 2
  /\ stale' = (dur[a] < Duration)
  /\ dur' = [dur EXCEPT ![a] = 0]
  /\ Goto(a, "idle")
  /\ UNCHANGED <<line, hardware, bean, want, callback, poller, stable, counted, edges,
                 stores>>

Start(a) ==
  /\ pc[a] = "start"
  /\ MayRun(a)
  /\ timer' = dur[a]
  /\ stale' = (dur[a] < Duration)
  /\ dur' = [dur EXCEPT ![a] = 0]
  /\ Goto(a, "idle")
  /\ UNCHANGED <<line, hardware, bean, want, callback, poller, stable, counted, edges,
                 stores>>

-----------------------------------------------------------------------------
(* debounceTimerHandler.                                                   *)

Expire ==
  /\ timer = 0
  /\ cbPc = "idle"
  /\ Smp \/ pc["irq"] = "idle"
  /\ timer' = NoTimer
  /\ cbPc' = "sample"
  /\ UNCHANGED <<line, hardware, bean, restart, want, cbVal, cbCnt, poller, history>>

CbSample ==
  /\ cbPc = "sample"
  /\ cbVal' = Read
  /\ cbPc' = "update"
  /\ stale' = (stale /\ timer # NoTimer)
  /\ UNCHANGED <<line, hardware, bean, timer, restart, want, cbCnt, poller, stable,
                 counted, edges, stores>>

\* Mutant: counts without comparing.
CbUpdateAlways ==
  /\ cbPc = "update"
  /\ value' = cbVal
  /\ cbCnt' = cnt[cbVal]
  /\ counted' = counted + 1
  /\ cbPc' = "count"
  /\ UNCHANGED <<line, hardware, min, cnt, timer, restart, want, cbVal, poller, stable,
                 stale, edges, stores>>

\* value is compared and set; the counter is read to be incremented.
CbUpdate ==
  /\ cbPc = "update"
  /\ IF value = cbVal
       THEN /\ cbPc' = "idle" /\ cbVal' = 0
            /\ UNCHANGED <<value, cbCnt, counted>>
       ELSE /\ value' = cbVal
            /\ cbCnt' = cnt[cbVal]
            /\ counted' = counted + 1
            /\ cbPc' = "count"
            /\ UNCHANGED cbVal
  /\ UNCHANGED <<line, hardware, min, cnt, timer, restart, want, poller, stable,
                 stale, edges, stores>>

CbCount ==
  /\ cbPc = "count"
  /\ cnt' = [cnt EXCEPT ![cbVal] = cbCnt + 1]
  /\ cbVal' = 0 /\ cbCnt' = 0
  /\ cbPc' = "notify"
  /\ UNCHANGED <<line, hardware, value, min, timer, restart, want, poller, history>>

\* Mutant: only a change to 1 is notified.
CbNotifyOn ==
  /\ cbPc = "notify"
  /\ news' = (news \/ (notif /\ value = 1))
  /\ cbPc' = "idle"
  /\ UNCHANGED <<line, hardware, bean, timer, restart, want, cbVal, cbCnt, notif,
                 pollPc, polled, history>>

CbNotify ==
  /\ cbPc = "notify"
  /\ news' = (news \/ notif)
  /\ cbPc' = "idle"
  /\ UNCHANGED <<line, hardware, bean, timer, restart, want, cbVal, cbCnt, notif,
                 pollPc, polled, history>>

-----------------------------------------------------------------------------
(* devAttrGpioDebMsOn_store (level 1) and devAttrGpioDebMsOff_store (0).   *)

StoreBegin(w) ==
  /\ pc[w] = "idle" /\ pc["task"] = "idle"
  /\ MayRun(w)
  /\ stores < MaxStores
  /\ \E l \in Level, d \in Times : want' = [want EXCEPT ![w] = <<l, d>>]
  /\ Goto(w, "min")
  /\ counted' = IF cbPc = "count" THEN 1 ELSE 0
  /\ stores' = stores + 1
  /\ UNCHANGED <<line, hardware, bean, timer, dur, callback, poller, stable, stale,
                 edges>>

StoreMin(w) ==
  /\ pc[w] = "min"
  /\ MayRun(w)
  /\ min' = [min EXCEPT ![want[w][1]] = want[w][2]]
  /\ want' = [want EXCEPT ![w] = <<0, Default>>]
  /\ Goto(w, "onCnt")
  /\ UNCHANGED <<line, hardware, value, cnt, timer, dur, callback, poller, history>>

StoreOnCnt(w) ==
  /\ pc[w] = "onCnt"
  /\ MayRun(w)
  /\ cnt' = [cnt EXCEPT ![1] = 0]
  /\ Goto(w, "offCnt")
  /\ UNCHANGED <<line, hardware, value, min, timer, dur, want, callback, poller, history>>

StoreOffCnt(w) ==
  /\ pc[w] = "offCnt"
  /\ MayRun(w)
  /\ cnt' = [cnt EXCEPT ![0] = 0]
  /\ Goto(w, "undefine")
  /\ UNCHANGED <<line, hardware, value, min, timer, dur, want, callback, poller, history>>

\* Mutant: the timer is not restarted.
StoreUndefineOnly(w) ==
  /\ pc[w] = "undefine"
  /\ MayRun(w)
  /\ value' = NotDefined
  /\ Goto(w, "idle")
  /\ UNCHANGED <<line, hardware, min, cnt, timer, dur, want, callback, poller, history>>

StoreUndefine(w) ==
  /\ pc[w] = "undefine"
  /\ MayRun(w)
  /\ value' = NotDefined
  /\ Goto(w, "sample")
  /\ UNCHANGED <<line, hardware, min, cnt, timer, dur, want, callback, poller, history>>

-----------------------------------------------------------------------------
(* A process that polls the file: kernfs takes note of the event count,    *)
(* then devAttrGpioDeb_show registers the node and reads the value.        *)

PollBegin ==
  /\ Polling
  /\ pollPc \in {"never", "idle"}
  /\ pc["task"] = "idle"
  /\ news' = FALSE
  /\ pollPc' = "register"
  /\ UNCHANGED <<line, hardware, bean, timer, restart, want, callback, notif, polled,
                 history>>

PollRegister ==
  /\ pollPc = "register"
  /\ notif' = TRUE
  /\ pollPc' = "read"
  /\ UNCHANGED <<line, hardware, bean, timer, restart, want, callback, polled, news,
                 history>>

PollRead ==
  /\ pollPc = "read"
  /\ polled' = value
  /\ pollPc' = "idle"
  /\ UNCHANGED <<line, hardware, bean, timer, restart, want, callback, notif, news,
                 history>>

-----------------------------------------------------------------------------
(* gpioFreeDebounce, once the files have been removed: removal waits for   *)
(* the calls in progress.                                                  *)

FreeDesc ==
  /\ Freeing
  /\ pc["task"] = "idle"
  /\ \A w \in Writer : pc[w] = "idle"
  /\ pollPc \in {"never", "idle"}
  /\ desc' = FALSE
  /\ Goto("task", "freeIrq")
  /\ UNCHANGED <<line, irqPending, irqOn, bean, timer, dur, want, callback, poller,
                 history>>

\* free_irq waits for a running handler.
FreeIrq ==
  /\ pc["task"] = "freeIrq"
  /\ pc["irq"] = "idle"
  /\ irqOn' = FALSE
  /\ irqPending' = FALSE
  /\ Goto("task", "cancelTimer")
  /\ UNCHANGED <<line, desc, bean, timer, dur, want, callback, poller, history>>

\* Mutant: the callback is not waited for.
FreeTimerTry ==
  /\ pc["task"] = "cancelTimer"
  /\ timer' = NoTimer
  /\ Goto("task", "freed")
  /\ UNCHANGED <<line, hardware, bean, dur, want, callback, poller, history>>

FreeTimer ==
  /\ pc["task"] = "cancelTimer"
  /\ cbPc = "idle"
  /\ timer' = NoTimer
  /\ Goto("task", "freed")
  /\ UNCHANGED <<line, hardware, bean, dur, want, callback, poller, history>>

-----------------------------------------------------------------------------
Restart(a) == Sample(a) \/ Cancel(a) \/ Start(a)
Callback == Expire \/ CbSample \/ CbUpdate \/ CbCount \/ CbNotify
StoreStep(w) == StoreMin(w) \/ StoreOnCnt(w) \/ StoreOffCnt(w) \/ StoreUndefine(w)
Poll == PollBegin \/ PollRegister \/ PollRead
Free == FreeDesc \/ FreeIrq \/ FreeTimer

Next ==
  \/ Edge \/ Tick \/ IrqEnter \/ Callback \/ Poll \/ Free
  \/ \E a \in Actor : Restart(a)
  \/ \E w \in Writer : StoreBegin(w) \/ StoreStep(w)

\* Time passes, interrupts are delivered, expired timers run and processes
\* in the kernel make progress.
Fairness ==
  /\ WF_vars(Tick) /\ WF_vars(IrqEnter) /\ WF_vars(Callback)
  /\ \A a \in Actor : WF_vars(Restart(a))
  /\ \A w \in Writer : WF_vars(StoreStep(w))

Spec == Init /\ [][Next]_vars
FairSpec == Spec /\ Fairness

-----------------------------------------------------------------------------
ActorPC == {"idle", "sample", "cancel", "start", "min", "onCnt", "offCnt", "undefine",
            "freeIrq", "cancelTimer", "freed"}

TypeOK ==
  /\ line \in Level
  /\ {irqPending, irqOn, desc, notif, news} \subseteq BOOLEAN
  /\ value \in Level \cup {NotDefined}
  /\ min \in [Level -> Nat] /\ cnt \in [Level -> Nat]
  /\ timer \in Nat \cup {NoTimer}
  /\ pc \in [Actor -> ActorPC] /\ dur \in [Actor -> Nat]
  /\ want \in [Writer -> Level \X Nat]
  /\ cbPc \in {"idle", "sample", "update", "count", "notify"}
  /\ cbVal \in Level /\ cbCnt \in Nat
  /\ pollPc \in {"never", "idle", "register", "read"}
  /\ polled \in Level \cup {NotDefined}
  /\ stale \in BOOLEAN
  /\ stable \in Nat /\ counted \in Nat /\ edges \in Nat /\ stores \in Nat

\* Something is on its way that will look at the line again.
Restarting(a) == pc[a] \in {"min", "onCnt", "offCnt", "undefine", "sample", "cancel", "start"}
InFlight ==
  \/ irqPending
  \/ timer # NoTimer
  \/ cbPc \in {"sample", "update"}
  \/ \E a \in Actor : Restarting(a)

\* While the input is in use, a debounced value that differs from the line
\* is never final: whatever the edges, stores and callbacks that raced, a
\* further sample is coming.
NoLostEdge == (desc /\ value # line) => InFlight

\* When everything has come to rest, a process that polls the file has the
\* current value or has been told to read it again.  (While the driver is bound
\* for the first time: nothing clears notifKn when it is unbound.)
PollerInformed ==
  (desc /\ ~InFlight /\ cbPc = "idle" /\ pollPc = "idle") => (polled = value \/ news)

\* Until the first store the counters keep in step with the changes of value:
\* they count alternate changes and end with the current one.
CountsAlternate ==
  (stores = 0 /\ cbPc \in {"idle", "notify"}) =>
    /\ cnt[0] - cnt[1] \in {-1, 0, 1}
    /\ value # NotDefined => cnt[value] >= cnt[1 - value] /\ cnt[value] > 0

\* Once the input is freed no timer, callback or handler is left to use it.
QuietAfterFree ==
  pc["task"] = "freed" => /\ timer = NoTimer /\ cbPc = "idle"
                          /\ ~irqPending /\ \A a \in Actor \ {"task"} : pc[a] = "idle"

\* The timer is being restarted, or has been since it expired.
Overtaken == Handling \/ timer # NoTimer \/ \E a \in Actor : Restarting(a)

\* README, di<n>_deb_on_ms: "Minimum stable time in ms to trigger change of
\* the debounced value": a level that the callback adopts has been there for
\* the time in force for it, whatever edges and stores came before, also the
\* first level after a store.  Two cases are excepted.  Between the expiry and
\* the sample a new edge or a store gets in, too late to stop the callback
\* (Overtaken).  Or debounceTimerRestart, called by a store, had read the line
\* and the time when an edge or another store got in and restarted the timer;
\* the store then restarts it once more with the time it had read, and the new
\* level is adopted early if that is the shorter one (stale; gpio.c:68-76).
MinStable ==
  [][(/\ cbPc = "sample" /\ cbPc' = "update" /\ cbVal' # value
      /\ desc /\ ~Overtaken /\ ~stale)
       => stable >= min[cbVal']]_vars

\* README: "Change in value of a debounce time automatically resets both
\* counters": between two stores the counters hold what has been counted
\* since the last of them began, and nothing older.
ResetClears ==
  (\A w \in Writer : pc[w] \notin {"min", "onCnt", "offCnt"}) /\ cbPc # "count"
    => cnt[0] + cnt[1] <= counted

\* Once edges and stores are over the debounced value is the line's, unless
\* the driver has been unbound.
Settles == <>[](value = line \/ ~desc)
=============================================================================
