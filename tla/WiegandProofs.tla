--------------------------- MODULE WiegandProofs ---------------------------
(***************************************************************************)
(* Theorems about Wiegand, for every length of a frame and all the limits  *)
(* that may be stored.  Each property has its part of the invariant:       *)
(*   Quiet     what is left of the timer once it was cancelled;            *)
(*   Stamped   what a time that was shown excludes;                        *)
(*   Followed  the decoder keeps up with a burst of good pulses;           *)
(*   Decoded   and has its bits;                                           *)
(*   Informing the timer of the last pulse, or what became of it;          *)
(*   Caught    an edge outside the limits cannot but leave a noise code.   *)
(***************************************************************************)
EXTENDS Wiegand, SequenceTheorems, TLAPS

Resetting == {"noise", "enabled", "data"} \cup HalfReset

\* The stages of a store, and what they have done to the wiring.
Staged ==
  /\ pc \in {"irq0", "irq1"} => ~enabled
  /\ pc \in {"data"} \cup HalfReset \cup Cancelled => enabled
  /\ (enabled /\ pc = "idle") \/ pc \in Resetting => held = Line /\ irqOn = Line
  /\ pc \in {"irq0", "irq1"} => held = Line
  /\ pc = "irq1" => 0 \in irqOn

Quiet == (~enabled /\ pc = "idle") \/ pc \in Cancelled => timer = NoTimer \/ late

\* A time that was shown, or that a read is about to show, is too long ago for
\* a pulse still to end well.
Stamped ==
  /\ ~tsNew /\ ~lax /\ rd \notin {"load", "torn"} =>
       /\ age > lim.wmax
       /\ changed => bitCount = 0 \/ pc = "bitCount"
  /\ rd = "load" /\ ~lax => age > lim.wmax

\* Only an edge of this tick waits for its handler.
Recent == \A l \in Line : pend[l] > 0 /\ level[l] = 0 => since = 0

\* A decoder that was reset and not disturbed.
Settled ==
  ~dirty =>
    /\ pc \in HalfReset => data = {}
    /\ pc \in {"activeLine", "low0", "low1"} => bitCount = 0
    /\ pc \in {"low0", "low1"} => activeLine = None
    /\ pc = "low1" => ~wasLow[0]
    /\ enabled /\ pc = "idle" =>
         /\ \A l \in Line : /\ wasLow[l] <=> activeLine = l
                            /\ wasLow[l] => level[l] = 0 \/ pend[l] > 0
         /\ age >= since \/ (bitCount = 0 /\ activeLine = None)
         /\ bitCount = 0 => data = {}

Count(n) == IF n < MaxBits THEN n ELSE MaxBits

Alone(l) == level[1 - l] = 1 /\ pend[1 - l] = 0

Falling(l) ==
  /\ level[l] = 0 /\ pend[l] = 1 /\ Alone(l)
  /\ activeLine = None /\ since = 0
  /\ IF burst = <<>> THEN bitCount = 0 \/ (age > lim.imax /\ age >= lim.imin)
     ELSE bitCount = Count(Len(burst)) /\ age \in lim.imin .. lim.imax

Lowered(l) ==
  /\ level[l] = 0 /\ pend[l] = 0 /\ Alone(l)
  /\ activeLine = l /\ age = since /\ bitCount = Count(Len(burst))

Rising(l) ==
  /\ level[l] = 1 /\ pend[l] = 1 /\ Alone(l)
  /\ activeLine = l /\ age = since /\ age \in lim.wmin .. lim.wmax
  /\ burst # <<>> /\ bitCount = Count(Len(burst) - 1)
  /\ Len(burst) <= MaxBits => burst[Len(burst)] = l

Pause ==
  /\ High /\ Calm
  /\ activeLine = None /\ age = since
  /\ burst # <<>> /\ bitCount = Count(Len(burst))

Followed ==
  /\ burst \in Seq(Line \cup {None})
  /\ clean => /\ enabled /\ pc = "idle" /\ ~dirty
              /\ Pause \/ \E l \in Line : Falling(l) \/ Lowered(l) \/ Rising(l)

\* data is the bits of the burst, once its first pulse was handled.
Decoded ==
  clean /\ (burst # <<>> \/ activeLine # None) =>
    \A i \in Places : i \in data <=> i < bitCount /\ burst[bitCount - i] = 1

Shown == ~tsNew /\ ~changed

\* Once the timer has expired whoever polls was told, was shown the frame, or
\* is about to be.
Informing ==
  /\ rd = "torn" => ~Shown
  /\ clean /\ ~retuned => ~Lax(lim)
  /\ clean /\ High /\ Calm /\ Len(burst) <= MaxBits /\ ~retuned =>
       \/ timer >= 0 /\ age + timer = lim.imax + 1
       \/ /\ age > lim.imax
          /\ notifKn => news \/ Shown \/ rd \in {"register", "clock", "load"}

\* The handler of an edge of this line finds something wrong, whatever else
\* happens before it: two edges in one interrupt; a pulse too short or too
\* long; the other line still low; or a pulse too early after the last.
Doomed(l) ==
  /\ Apart /\ pend[l] > 0
  /\ \/ pend[l] = 2 /\ (wasLow[l] <=> level[l] = 0)
     \/ wasLow[l] /\ activeLine = l /\ ~Full /\ (age < lim.wmin \/ age > lim.wmax)
     \/ ~wasLow[l] /\ activeLine = 1 - l /\ ~Full
     \/ ~wasLow[l] /\ bitCount # 0 /\ age < lim.imin
     \/ /\ \A m \in Line : pend[m] > 0 /\ ~wasLow[m]
        /\ activeLine = None /\ (Full => Silence)

Caught ==
  /\ pc \in {"enabled", "data"} \cup HalfReset => ~flaw
  /\ flaw /\ ~noise /\ ~lost /\ enabled /\ pc = "idle" => \E l \in Line : Doomed(l)

Inv ==
  /\ TypeOK /\ Staged /\ Quiet /\ Stamped
  /\ Recent /\ Settled /\ Followed /\ Decoded /\ Informing /\ Caught

-----------------------------------------------------------------------------
(* Types.                                                                  *)

LEMMA LineFacts == \A l \in Line : 1 - l \in Line /\ 1 - l # l /\ l # None /\ 1 - (1 - l) = l
BY DEF Line, None

\* A step of a read.
Show ==
  \/ DataOpen \/ DataRegister \/ DataClock \/ DataReturn
  \/ NoiseLoad \/ NoiseClear

LEMMA ShowFrame ==
  ASSUME Show
  PROVE  UNCHANGED <<wiring, lim, enabled, decoder, age, timer, pc, wave, dirty, late, retuned>>
BY DEF Show, DataOpen, DataRegister, DataClock, DataReturn, NoiseLoad, NoiseClear

LEMMA LimitTypes ==
  ASSUME lim \in [wmin : WidthMin, wmax : WidthMax, imin : IntervalMin, imax : IntervalMax]
  PROVE  /\ lim.wmin \in Nat /\ lim.wmax \in Nat /\ lim.imin \in Nat /\ lim.imax \in Nat
         /\ lim.wmax < MaxAge /\ lim.imax < MaxAge /\ MaxAge \in Nat
BY WiegandAssumption

LEMMA TypeInit == Init => TypeOK
<1> SUFFICES ASSUME Init PROVE TypeOK
  OBVIOUS
<1>1. data \subseteq Places /\ bitCount \in 0 .. MaxBits
  BY WiegandAssumption DEF Init
<1>2. age \in 0 .. MaxAge /\ since \in 0 .. MaxAge /\ timer \in NoTimer .. Far
  BY WiegandAssumption DEF Init, NoTimer, Far
<1>3. /\ level \in [Line -> {0, 1}] /\ pend \in [Line -> 0 .. 2]
      /\ wasLow \in [Line -> BOOLEAN]
  BY DEF Init
<1> QED
  BY <1>1, <1>2, <1>3 DEF Init, TypeOK, PC

LEMMA HandlerTypes ==
  ASSUME TypeOK, NEW l \in Line, DataIrqHandler(l)
  PROVE  TypeOK'
<1>1. /\ UNCHANGED <<level, held, irqOn, lim, since, pc>> /\ pend' = [pend EXCEPT ![l] = 0]
      /\ rd' \in {rd, "torn"}
  BY DEF DataIrqHandler, wave, Tear
<1>2. CASE ~enabled
  BY <1>1, <1>2 DEF DataIrqHandler, decoder, TypeOK
<1>3. CASE Same(l)
  <2>1. noise' \in BOOLEAN /\ nz' \in {nz, "late"} /\ UNCHANGED <<enabled, decoder, age, timer>>
    BY <1>3 DEF Same, NoiseSet, TypeOK
  <2> QED
    BY <1>1, <2>1 DEF decoder, TypeOK
<1>4. CASE Noise
  BY <1>1, <1>4, WiegandAssumption DEF Noise, NoiseSet, TypeOK, None
<1>5. CASE Fall(l) /\ ~Noise
  <2>1. age' = 0 /\ activeLine' = l /\ wasLow' = [wasLow EXCEPT ![l] = TRUE]
    BY <1>5 DEF Fall
  <2>2. data' \in {{}, data} /\ bitCount' \in {0, bitCount} /\ UNCHANGED <<enabled, noise, nz, timer>>
    BY <1>5 DEF Fall
  <2> QED
    BY <1>1, <2>1, <2>2, WiegandAssumption DEF TypeOK
<1>6. CASE Rise(l) /\ ~Noise
  <2>1. /\ activeLine' = None /\ wasLow' = [wasLow EXCEPT ![l] = FALSE]
        /\ UNCHANGED <<enabled, noise, nz, age>>
    BY <1>6 DEF Rise
  <2>2. CASE Full
    BY <1>1, <1>6, <2>1, <2>2 DEF Rise, TypeOK
  <2>3. CASE ~Full
    <3>1. Bit(l)
      BY <1>6, <2>3 DEF Rise
    <3>2. bitCount' \in 0 .. MaxBits
      BY <3>1, <2>3, WiegandAssumption DEF Bit, Full, TypeOK
    <3>3. data' \subseteq Places
      BY <3>1, WiegandAssumption DEF Bit, Shifted, Places
    <3>4. timer' \in NoTimer .. Far
      BY <3>1, LimitTypes DEF Bit, Remaining, Far, TypeOK, NoTimer
    <3> QED
      BY <1>1, <2>1, <3>2, <3>3, <3>4 DEF TypeOK
  <2> QED
    BY <2>2, <2>3
<1> QED
  BY <1>2, <1>3, <1>4, <1>5, <1>6 DEF DataIrqHandler

LEMMA TypeStep == TypeOK /\ [Next]_vars => TypeOK'
<1> SUFFICES ASSUME TypeOK, [Next]_vars PROVE TypeOK'
  OBVIOUS
<1> USE DEF TypeOK, PC
<1>1. ASSUME NEW l \in Line, Edge(l) PROVE TypeOK'
  BY <1>1, WiegandAssumption DEF Edge, decoder, reader
<1>2. ASSUME NEW l \in Line, DataIrqHandler(l) PROVE TypeOK'
  BY <1>2, HandlerTypes
<1>3. CASE Tick
  BY <1>3, WiegandAssumption DEF Tick, Later, wiring, decoder, reader, NoTimer, Far
<1>4. CASE TimerHandler
  BY <1>4, WiegandAssumption DEF TimerHandler, wiring, decoder, NoTimer, Far, wave
<1>5. ASSUME NEW l \in Line, RequestIrq(l) \/ DisablePut(l) \/ DisableUnhook(l) PROVE TypeOK'
  BY <1>5 DEF RequestIrq, DisablePut, DisableUnhook, decoder, wave, reader
<1>6. CASE Enable \/ EnableAgain \/ Disable \/ DisableOff
  <2>1. /\ UNCHANGED <<level, pend, irqOn, lim, data, bitCount, activeLine, wasLow, noise, age, since>>
        /\ UNCHANGED <<rd, nz>>
        /\ held' \in {held, Line} /\ timer' \in {timer, NoTimer}
    BY <1>6 DEF Enable, EnableAgain, Disable, DisableOff, Store, decoder, wiring, wave, reader
  <2>2. enabled' \in BOOLEAN /\ pc' \in PC
    BY <1>6 DEF Enable, EnableAgain, Disable, DisableOff, Store
  <2> QED
    BY <2>1, <2>2, WiegandAssumption DEF NoTimer, Far
<1>7. CASE Reset
  <2>1. data' \in {data, {}} /\ bitCount' \in {bitCount, 0} /\ activeLine' \in {activeLine, None}
    BY <1>7 DEF Reset, Assign, decoder
  <2>2. data' \subseteq Places /\ bitCount' \in 0 .. MaxBits
    BY <2>1, WiegandAssumption
  <2>3. /\ wasLow' \in [Line -> BOOLEAN] /\ enabled' \in BOOLEAN /\ noise' \in BOOLEAN
        /\ pc' \in PC
    BY <1>7 DEF Reset, Assign, decoder
  <2>4. UNCHANGED <<wiring, lim, age, timer, since, nz>> /\ rd' \in {rd, "torn"}
    BY <1>7 DEF Reset, Assign, wave, Tear
  <2> QED
    BY <2>1, <2>2, <2>3, <2>4 DEF wiring, None
<1>8. CASE LimitStore
  BY <1>8 DEF LimitStore, decoder, wiring, wave, reader
<1>9. CASE Show
  <2>1. rd' \in {"idle", "register", "clock", "early", "load", rd}
    BY <1>9 DEF Show, DataOpen, DataRegister, DataClock, DataReturn, NoiseLoad, NoiseClear, reader
  <2>2. nz' \in {"idle", "loaded", nz} /\ noise' \in BOOLEAN
    BY <1>9 DEF Show, DataOpen, DataRegister, DataClock, DataReturn, NoiseLoad, NoiseClear
  <2> QED
    BY <1>9, <2>1, <2>2, ShowFrame DEF wiring, decoder, wave
<1>10. CASE UNCHANGED vars
  BY <1>10 DEF vars, wiring, decoder, wave, reader
<1> QED
  BY <1>1, <1>2, <1>3, <1>4, <1>5, <1>6, <1>7, <1>8, <1>9, <1>10 DEF Next, Show

-----------------------------------------------------------------------------
(* The stages of the stores, the timer and the time that was shown.        *)

LEMMA StagedStep == TypeOK /\ Staged /\ [Next]_vars => Staged'
<1> SUFFICES ASSUME TypeOK, Staged, [Next]_vars PROVE Staged'
  OBVIOUS
<1> USE DEF Staged, Resetting, HalfReset, Cancelled
<1>1. ASSUME NEW l \in Line, Edge(l) PROVE Staged'
  BY <1>1 DEF Edge
<1>2. ASSUME NEW l \in Line, DataIrqHandler(l) PROVE Staged'
  <2>1. UNCHANGED <<pc, held, irqOn, enabled>>
    BY <1>2 DEF DataIrqHandler, Same, Fall, Rise, Noise, NoiseSet, TypeOK
  <2> QED
    BY <2>1
<1>3. CASE Tick \/ TimerHandler \/ LimitStore \/ Show
  BY <1>3, ShowFrame DEF Tick, TimerHandler, LimitStore, wiring
<1>4. ASSUME NEW l \in Line, RequestIrq(l) PROVE Staged'
  <2>1. CASE l = 0
    BY <1>4, <2>1 DEF RequestIrq
  <2>2. CASE l = 1
    <3>1. pc = "irq1" /\ pc' = "noise" /\ UNCHANGED <<held, enabled>>
      BY <1>4, <2>2 DEF RequestIrq
    <3>2. irqOn' = Line
      BY <1>4, <2>2, <3>1 DEF RequestIrq, Line, TypeOK
    <3> QED
      BY <3>1, <3>2
  <2> QED
    BY <2>1, <2>2 DEF Line
<1>5. ASSUME NEW l \in Line, DisablePut(l) \/ DisableUnhook(l) PROVE Staged'
  BY <1>5 DEF DisablePut, DisableUnhook
<1>6. CASE Enable \/ EnableAgain
  BY <1>6 DEF Enable, EnableAgain, Store
<1>7. CASE Disable \/ DisableOff
  BY <1>7 DEF Disable, DisableOff, Store, wiring
<1>8. CASE Reset
  BY <1>8 DEF Reset, Assign, wiring
<1>9. CASE UNCHANGED vars
  BY <1>9 DEF vars, wiring
<1> QED
  BY <1>1, <1>2, <1>3, <1>4, <1>5, <1>6, <1>7, <1>8, <1>9 DEF Next, Show

\* The handler starts the timer while the interface is enabled, and then says
\* so if hrtimer_cancel is past.
LEMMA QuietStep == TypeOK /\ Staged /\ Quiet /\ [Next]_vars => Quiet'
<1> SUFFICES ASSUME TypeOK, Staged, Quiet, [Next]_vars PROVE Quiet'
  OBVIOUS
<1> USE DEF Quiet, Cancelled
<1>1. ASSUME NEW l \in Line, Edge(l) PROVE Quiet'
  BY <1>1 DEF Edge
<1>2. ASSUME NEW l \in Line, DataIrqHandler(l) PROVE Quiet'
  <2>1. pc' = pc /\ enabled' = enabled /\ (enabled \/ timer' = timer)
    BY <1>2 DEF DataIrqHandler, Same, Fall, Rise, Noise, NoiseSet, TypeOK
  <2>2. late' = (late \/ pc \in Cancelled)
    BY <1>2 DEF DataIrqHandler
  <2> QED
    BY <2>1, <2>2
<1>3. CASE Tick \/ TimerHandler \/ LimitStore \/ Show
  BY <1>3, ShowFrame DEF Tick, TimerHandler, LimitStore, NoTimer
<1>4. ASSUME NEW l \in Line, RequestIrq(l) PROVE Quiet'
  BY <1>4 DEF RequestIrq
<1>5. ASSUME NEW l \in Line, DisablePut(l) \/ DisableUnhook(l) PROVE Quiet'
  BY <1>5 DEF DisablePut, DisableUnhook
<1>6. CASE Enable \/ EnableAgain
  BY <1>6 DEF Enable, EnableAgain, Store
<1>7. CASE Disable \/ DisableOff
  BY <1>7 DEF Disable, DisableOff, Store, wiring
<1>8. CASE Reset
  <2>1. pc' = "idle" => enabled'
    BY <1>8 DEF Staged, Reset, Assign, HalfReset
  <2> QED
    BY <1>8, <2>1 DEF Reset, Assign
<1>9. CASE UNCHANGED vars
  BY <1>9 DEF vars
<1> QED
  BY <1>1, <1>2, <1>3, <1>4, <1>5, <1>6, <1>7, <1>8, <1>9 DEF Next, Show

\* A pulse that began before the read looked at the clock is too long when it
\* ends; one that began after it has another time.
LEMMA StampedHandler ==
  ASSUME TypeOK, Stamped, NEW l \in Line, DataIrqHandler(l)
  PROVE  Stamped'
<1>1. /\ UNCHANGED <<pc, lim, lax>>
      /\ ~tsNew' => ~tsNew /\ ~Stamps
      /\ ~tsNew' => (changed' => changed \/ <<data', bitCount'>> # <<data, bitCount>>)
      /\ rd' = "load" => rd = "load" /\ ~Stamps
      /\ rd' # "torn" => rd' = rd
  BY DEF DataIrqHandler, Tear, Alters
<1>2. ~Stamps => age' = age
  <2>1. SUFFICES ASSUME activeLine' \in {activeLine, None} PROVE age' = age
    BY DEF Stamps
  <2> QED
    BY <2>1 DEF DataIrqHandler, Same, Fall, Rise, Noise, decoder, Line, None
<1>3. ASSUME ~tsNew', ~lax', rd' \notin {"load", "torn"}
      PROVE  age' > lim'.wmax /\ (changed' => bitCount' = 0 \/ pc' = "bitCount")
  <2>1. /\ age > lim.wmax /\ age' = age
        /\ changed => bitCount = 0 \/ pc = "bitCount"
    BY <1>1, <1>2, <1>3 DEF Stamped
  <2>2. CASE UNCHANGED <<data, bitCount>>
    BY <1>1, <1>3, <2>1, <2>2
  <2>3. CASE Noise
    BY <1>1, <2>1, <2>3 DEF Noise
  <2>4. CASE Fall(l) /\ ~Noise
    BY <1>1, <1>3, <2>4 DEF Fall, Stamps, Line, None
  <2>5. CASE Rise(l) /\ ~Noise
    <3>1. ~(age <= lim.wmax)
      BY <2>1, LimitTypes DEF TypeOK
    <3>2. UNCHANGED <<data, bitCount>>
      BY <2>5, <3>1 DEF Rise
    <3> QED
      BY <2>2, <3>2
  <2> QED
    BY <2>2, <2>3, <2>4, <2>5 DEF DataIrqHandler, Same, decoder
<1> QED
  BY <1>1, <1>2, <1>3 DEF Stamped

LEMMA StampedShow ==
  ASSUME TypeOK, Stamped, Show
  PROVE  Stamped'
<1>1. UNCHANGED <<lim, pc, age, bitCount>>
  BY ShowFrame DEF decoder
<1>2. CASE DataOpen \/ DataRegister
  BY <1>1, <1>2 DEF DataOpen, DataRegister, stamp, Stamped
<1>3. CASE DataClock
  <2>1. Readable /\ ~Lax(lim) => age > lim.wmax
    BY LimitTypes DEF Readable, Lax, TypeOK
  <2>2. /\ rd = "clock" /\ UNCHANGED stamp
        /\ \/ Readable /\ rd' = "load" /\ lax' = Lax(lim)
           \/ rd' = "early" /\ lax' = lax
    BY <1>3 DEF DataClock
  <2> QED
    BY <1>1, <2>1, <2>2 DEF Stamped, stamp
<1>4. CASE DataReturn
  <2>1. /\ rd' = "idle" /\ lax' = lax
        /\ \/ rd = "early" /\ tsNew' = tsNew /\ (changed' => changed)
           \/ rd = "load" /\ ~changed'
           \/ rd = "torn" /\ tsNew'
    BY <1>4 DEF DataReturn, stamp
  <2> QED
    BY <1>1, <2>1 DEF Stamped, stamp
<1>5. CASE NoiseLoad \/ NoiseClear
  BY <1>1, <1>5 DEF NoiseLoad, NoiseClear, reader, stamp, Stamped
<1> QED
  BY <1>2, <1>3, <1>4, <1>5 DEF Show

LEMMA StampedStep == TypeOK /\ Stamped /\ [Next]_vars => Stamped'
<1> SUFFICES ASSUME TypeOK, Stamped, [Next]_vars PROVE Stamped'
  OBVIOUS
<1> USE DEF Stamped, stamp, reader
<1>1. ASSUME NEW l \in Line, Edge(l) PROVE Stamped'
  BY <1>1 DEF Edge, decoder
<1>2. ASSUME NEW l \in Line, DataIrqHandler(l) PROVE Stamped'
  BY <1>2, StampedHandler
<1>3. CASE Tick
  <2>1. /\ age' >= age /\ age \in Nat /\ age' \in Nat
        /\ UNCHANGED <<lim, rd, pc, bitCount, tsNew, changed, lax>>
    BY <1>3, WiegandAssumption DEF Tick, Later, TypeOK, decoder
  <2> QED
    BY <2>1, LimitTypes DEF TypeOK
<1>4. CASE LimitStore
  <2>1. /\ UNCHANGED <<age, rd, pc, bitCount, tsNew, changed>>
        /\ ~lax' => ~lax /\ (rd = "load" \/ ~tsNew => ~(lim'.wmax > lim.wmax))
    BY <1>4 DEF LimitStore, decoder
  <2>2. lim'.wmax \in Nat /\ lim.wmax \in Nat /\ age \in Nat
    BY <1>4, WiegandAssumption DEF LimitStore, TypeOK
  <2> QED
    BY <2>1, <2>2
<1>5. CASE Show
  BY <1>5, StampedShow
<1>6. ASSUME NEW l \in Line, RequestIrq(l) \/ DisablePut(l) \/ DisableUnhook(l) PROVE Stamped'
  BY <1>6 DEF RequestIrq, DisablePut, DisableUnhook, decoder
<1>7. CASE Enable \/ EnableAgain \/ Disable \/ DisableOff
  BY <1>7 DEF Enable, EnableAgain, Disable, DisableOff, Store, decoder
<1>8. CASE Reset
  <2>1. /\ UNCHANGED <<age, lim, tsNew, lax>>
        /\ rd' \in {rd, "torn"}
        /\ ~tsNew => (changed' => changed \/ <<data', bitCount'>> # <<data, bitCount>>)
        /\ \/ pc' = "bitCount" \/ bitCount' = 0
           \/ UNCHANGED <<data, bitCount>> /\ pc # "bitCount"
    BY <1>8 DEF Reset, Assign, decoder, Tear, Alters
  <2> QED
    BY <2>1
<1>9. CASE TimerHandler \/ UNCHANGED vars
  BY <1>9 DEF TimerHandler, vars, decoder
<1> QED
  BY <1>1, <1>2, <1>3, <1>4, <1>5, <1>6, <1>7, <1>8, <1>9 DEF Next, Show

LEMMA RecentStep == TypeOK /\ Recent /\ [Next]_vars => Recent'
<1> SUFFICES ASSUME TypeOK, Recent, [Next]_vars PROVE Recent'
  OBVIOUS
<1> USE DEF Recent
<1>1. ASSUME NEW l \in Line, Edge(l) PROVE Recent'
  BY <1>1 DEF Edge, TypeOK
<1>2. ASSUME NEW l \in Line, DataIrqHandler(l) PROVE Recent'
  BY <1>2 DEF DataIrqHandler, wave, TypeOK
<1>3. CASE Tick
  BY <1>3 DEF Tick, Calm, wiring
<1>4. CASE TimerHandler \/ LimitStore \/ Show
  BY <1>4, ShowFrame DEF TimerHandler, LimitStore, wiring, wave
<1>5. ASSUME NEW l \in Line, RequestIrq(l) \/ DisablePut(l) \/ DisableUnhook(l) PROVE Recent'
  BY <1>5 DEF RequestIrq, DisablePut, DisableUnhook, wave, TypeOK
<1>6. CASE Enable \/ EnableAgain \/ Disable \/ DisableOff
  BY <1>6 DEF Enable, EnableAgain, Disable, DisableOff, Store, wiring, wave
<1>7. CASE Reset
  BY <1>7 DEF Reset, Assign, wiring, wave
<1>8. CASE UNCHANGED vars
  BY <1>8 DEF vars, wiring, wave
<1> QED
  BY <1>1, <1>2, <1>3, <1>4, <1>5, <1>6, <1>7, <1>8 DEF Next, Show

-----------------------------------------------------------------------------
(* A decoder that was reset and not disturbed.                             *)

LEMMA SettledEdge ==
  ASSUME TypeOK, Staged, Settled, NEW l \in Line, Edge(l)
  PROVE  Settled'
<1>1. UNCHANGED <<pc, enabled, dirty, activeLine, data, bitCount, wasLow, age>>
  BY DEF Edge, decoder
<1>2. since' \in {0, since} /\ age \in Nat
  BY DEF Edge, TypeOK
<1>3. \A m \in Line \ {l} : level'[m] = level[m] /\ pend'[m] = pend[m]
  BY DEF Edge, TypeOK
<1>4. enabled /\ pc = "idle" => pend'[l] > 0
  BY DEF Edge, TypeOK, Staged
<1> QED
  BY <1>1, <1>2, <1>3, <1>4 DEF Settled

LEMMA SettledHandler ==
  ASSUME TypeOK, Staged, Recent, Settled, NEW l \in Line, DataIrqHandler(l)
  PROVE  Settled'
<1> SUFFICES ASSUME ~dirty' PROVE Settled'
  BY DEF Settled
<1>1. /\ UNCHANGED <<pc, level, since, held>> /\ pend' = [pend EXCEPT ![l] = 0]
      /\ ~dirty /\ pc \notin HalfReset /\ pend[l] > 0
  BY DEF DataIrqHandler, wave
<1>2. enabled' = enabled
  BY DEF DataIrqHandler, Same, Fall, Rise, Noise, NoiseSet, TypeOK
<1>3. SUFFICES ASSUME enabled, pc = "idle"
               PROVE  /\ \A m \in Line : /\ wasLow'[m] <=> activeLine' = m
                                         /\ wasLow'[m] => level[m] = 0 \/ pend'[m] > 0
                      /\ age' >= since \/ (bitCount' = 0 /\ activeLine' = None)
                      /\ bitCount' = 0 => data' = {}
  BY <1>1, <1>2 DEF Settled, HalfReset
<1>4. /\ \A m \in Line : /\ wasLow[m] <=> activeLine = m
                         /\ wasLow[m] => level[m] = 0 \/ pend[m] > 0
      /\ age >= since \/ (bitCount = 0 /\ activeLine = None)
      /\ bitCount = 0 => data = {}
      /\ IsLow(l) <=> level[l] = 0
      /\ \A m \in Line \ {l} : pend'[m] = pend[m]
  BY <1>1, <1>3 DEF Settled, Staged, IsLow, TypeOK
<1>5. CASE Same(l)
  BY <1>4, <1>5 DEF Same, decoder, TypeOK
<1>6. CASE Noise
  BY <1>6, LineFacts DEF Noise
<1>7. CASE Fall(l) /\ ~Noise
  <2>1. /\ activeLine = None /\ activeLine' = l /\ wasLow' = [wasLow EXCEPT ![l] = TRUE]
        /\ age' = 0 /\ level[l] = 0
    BY <1>4, <1>7 DEF Fall
  <2>2. since = 0
    BY <1>1, <2>1 DEF Recent
  <2>3. bitCount' = 0 => data' = {}
    BY <1>4, <1>7 DEF Fall
  <2> QED
    BY <1>4, <2>1, <2>2, <2>3, LineFacts DEF TypeOK
<1>8. CASE Rise(l) /\ ~Noise
  <2>1. /\ activeLine = l /\ activeLine' = None /\ wasLow' = [wasLow EXCEPT ![l] = FALSE]
        /\ age' = age
    BY <1>8 DEF Rise
  <2>2. bitCount' = 0 => data' = {}
    BY <1>4, <1>8 DEF Rise, Bit, TypeOK
  <2> QED
    BY <1>4, <2>1, <2>2, LineFacts DEF TypeOK
<1> QED
  BY <1>3, <1>5, <1>6, <1>7, <1>8 DEF DataIrqHandler

LEMMA SettledStep == TypeOK /\ Staged /\ Recent /\ Settled /\ [Next]_vars => Settled'
<1> SUFFICES ASSUME TypeOK, Staged, Recent, Settled, [Next]_vars PROVE Settled'
  OBVIOUS
<1> USE DEF HalfReset
<1>1. ASSUME NEW l \in Line, Edge(l) PROVE Settled'
  BY <1>1, SettledEdge
<1>2. ASSUME NEW l \in Line, DataIrqHandler(l) PROVE Settled'
  BY <1>2, SettledHandler
<1>3. CASE Tick
  <2>1. age >= since => age' >= since'
    BY <1>3, WiegandAssumption DEF Tick, Later, TypeOK
  <2> QED
    BY <1>3, <2>1 DEF Settled, Tick, wiring, decoder
<1>4. CASE TimerHandler \/ LimitStore \/ Show
  BY <1>4, ShowFrame DEF Settled, TimerHandler, LimitStore, wiring, decoder, wave
<1>5. ASSUME NEW l \in Line, RequestIrq(l) \/ DisablePut(l) \/ DisableUnhook(l) PROVE Settled'
  BY <1>5 DEF Settled, RequestIrq, DisablePut, DisableUnhook, decoder, wave
<1>6. CASE Enable \/ EnableAgain
  BY <1>6 DEF Settled, Enable, EnableAgain, Store
<1>7. CASE Disable \/ DisableOff
  BY <1>7 DEF Settled, Disable, DisableOff, Store, wiring, decoder
<1>8. CASE Reset
  <2>1. /\ UNCHANGED <<level, pend, age, since, dirty>>
        /\ \/ pc' \in {"enabled", "data"} \/ (pc' = "bitCount" /\ data' = {})
           \/ pc \in {"bitCount", "activeLine", "low0", "low1"} /\ data' = data
    BY <1>8 DEF Reset, Assign, wiring, wave, decoder
  <2>2. CASE pc' \in {"enabled", "data"} \/ (pc' = "bitCount" /\ data' = {})
    BY <2>1, <2>2 DEF Settled
  <2>3. CASE pc = "bitCount"
    BY <1>8, <2>1, <2>3 DEF Settled, Reset, Assign
  <2>4. CASE pc = "activeLine"
    BY <1>8, <2>1, <2>4 DEF Settled, Reset, Assign
  <2>5. CASE pc = "low0"
    BY <1>8, <2>1, <2>5 DEF Settled, Reset, Assign, Line, TypeOK
  <2>6. CASE pc = "low1"
    <3>1. /\ pc' = "idle" /\ wasLow' = [wasLow EXCEPT ![1] = FALSE]
          /\ UNCHANGED <<data, bitCount, activeLine>>
      BY <1>8, <2>6 DEF Reset, Assign, Line
    <3>2. ~dirty => /\ data = {} /\ bitCount = 0 /\ activeLine = None
                    /\ \A l \in Line : ~wasLow'[l]
      BY <2>6, <3>1 DEF Settled, Line, TypeOK
    <3> QED
      BY <2>1, <3>1, <3>2, LineFacts DEF Settled
  <2> QED
    BY <2>1, <2>2, <2>3, <2>4, <2>5, <2>6
<1>9. CASE UNCHANGED vars
  BY <1>9 DEF vars, wiring, decoder, wave, Settled
<1> QED
  BY <1>1, <1>2, <1>3, <1>4, <1>5, <1>6, <1>7, <1>8, <1>9 DEF Next, Show

-----------------------------------------------------------------------------
(* The decoder keeps up with a burst of good pulses.                       *)

Phase == Pause \/ \E l \in Line : Falling(l) \/ Lowered(l) \/ Rising(l)

LEMMA BurstTypes ==
  ASSUME burst \in Seq(Line \cup {None})
  PROVE  Len(burst) \in Nat /\ (burst # <<>> <=> Len(burst) > 0)
BY EmptySeq

LEMMA BurstEdge ==
  ASSUME burst \in Seq(Line \cup {None}), NEW l \in Line, Edge(l)
  PROVE  burst' \in Seq(Line \cup {None})
<1>1. burst' = <<>> \/ burst' = burst \/ \E b \in Line \cup {None} : burst' = Append(burst, b)
  BY DEF Edge
<1>2. \A b \in Line \cup {None} : Append(burst, b) \in Seq(Line \cup {None})
  BY AppendProperties
<1>3. <<>> \in Seq(Line \cup {None})
  BY EmptySeq
<1> QED
  BY <1>1, <1>2, <1>3

\* The first pulse after a silence finds the decoder at rest.
LEMMA FollowedBegin ==
  ASSUME TypeOK, Staged, Settled, Followed, NEW l \in Line, Edge(l), level[l] = 1, Begins
  PROVE  Falling(l)'
<1>1. /\ UNCHANGED <<lim, activeLine, bitCount, age>>
      /\ burst' = <<>> /\ since' = 0
      /\ level' = [level EXCEPT ![l] = 0] /\ pend' = [pend EXCEPT ![l] = IF l \in irqOn THEN @ + 1 ELSE @]
  BY DEF Edge, decoder, Begins
<1>2. /\ \A m \in Line : level[m] = 1 /\ pend[m] = 0
      /\ since > lim.imax /\ since >= lim.imin
      /\ enabled /\ pc = "idle" /\ ~dirty /\ irqOn = Line
  BY DEF Begins, High, Calm, Staged
<1>3. activeLine = None
  BY <1>2 DEF Settled, TypeOK
<1>4. bitCount = 0 \/ (age > lim.imax /\ age >= lim.imin)
  BY <1>2, LimitTypes DEF Settled, TypeOK
<1>5. /\ level'[l] = 0 /\ pend'[l] = 1
      /\ level'[1 - l] = 1 /\ pend'[1 - l] = 0
  BY <1>1, <1>2, LineFacts DEF TypeOK
<1> QED
  BY <1>1, <1>3, <1>4, <1>5 DEF Falling, Alone

\* The next pulse begins in the pause after the last.
LEMMA FollowedFall ==
  ASSUME TypeOK, Staged, Followed, clean, NEW l \in Line, Edge(l), level[l] = 1, ~Begins, FallsWell(l)
  PROVE  Falling(l)'
<1>1. /\ UNCHANGED <<lim, activeLine, bitCount, age, burst>> /\ since' = 0
      /\ level' = [level EXCEPT ![l] = 0] /\ pend' = [pend EXCEPT ![l] = IF l \in irqOn THEN @ + 1 ELSE @]
  BY BurstTypes DEF Edge, decoder, Followed
<1>2. irqOn = Line /\ Phase
  BY DEF Followed, Staged, Phase
<1>3. level[1 - l] = 1 /\ Calm /\ since >= lim.imin /\ since <= lim.imax
  BY DEF FallsWell
<1>4. Pause
  <2>1. SUFFICES ASSUME NEW m \in Line, Falling(m) \/ Lowered(m) \/ Rising(m) PROVE FALSE
    BY <1>2 DEF Phase
  <2>2. m = l \/ m = 1 - l
    BY DEF Line
  <2> QED
    BY <1>3, <2>1, <2>2 DEF Calm, Falling, Lowered, Rising
<1>5. /\ level'[l] = 0 /\ pend'[l] = 1
      /\ level'[1 - l] = 1 /\ pend'[1 - l] = 0
  BY <1>1, <1>2, <1>3, <1>4, LineFacts DEF Pause, Calm, TypeOK
<1>6. age \in lim.imin .. lim.imax
  BY <1>3, <1>4, LimitTypes DEF Pause, TypeOK
<1> QED
  BY <1>1, <1>4, <1>5, <1>6 DEF Pause, Falling, Alone

\* A pulse ends: one bit more, of which the decoder does not know yet.
LEMMA FollowedRise ==
  ASSUME TypeOK, Staged, Followed, clean, NEW l \in Line, Edge(l), level[l] = 0, RisesWell(l)
  PROVE  Rising(l)'
<1>1. /\ UNCHANGED <<lim, activeLine, bitCount, age, since>>
      /\ level' = [level EXCEPT ![l] = 1] /\ pend' = [pend EXCEPT ![l] = IF l \in irqOn THEN @ + 1 ELSE @]
      /\ burst' = IF Len(burst) > MaxBits THEN burst
                  ELSE Append(burst, IF Len(burst) < MaxBits THEN l ELSE None)
  BY DEF Edge, decoder
<1>2. irqOn = Line /\ Phase
  BY DEF Followed, Staged, Phase
<1>3. pend[l] = 0 /\ since >= lim.wmin /\ since <= lim.wmax
  BY DEF RisesWell
<1>4. Lowered(l)
  <2>1. PICK m \in Line : Falling(m) \/ Lowered(m) \/ Rising(m)
    BY <1>2 DEF Phase, Pause, High
  <2>2. m = l \/ l = 1 - m
    BY DEF Line
  <2> QED
    BY <1>3, <2>1, <2>2 DEF Falling, Lowered, Rising, Alone
<1>5. /\ level'[l] = 1 /\ pend'[l] = 1
      /\ level'[1 - l] = 1 /\ pend'[1 - l] = 0
  BY <1>1, <1>2, <1>3, <1>4, LineFacts DEF Lowered, Alone, TypeOK
<1>6. /\ burst' # <<>> /\ Count(Len(burst') - 1) = Count(Len(burst))
      /\ Len(burst') <= MaxBits => burst'[Len(burst')] = l
  <2>1. /\ Len(burst) \in Nat /\ MaxBits \in Nat \ {0}
        /\ burst # <<>> <=> Len(burst) > 0
    BY BurstTypes, WiegandAssumption DEF Followed
  <2>2. CASE Len(burst) > MaxBits
    BY <1>1, <2>1, <2>2 DEF Count
  <2>3. CASE ~(Len(burst) > MaxBits)
    <3>1. PICK b \in Line \cup {None} : burst' = Append(burst, b)
      BY <1>1, <2>3
    <3>2. burst' # <<>> /\ Len(burst') = Len(burst) + 1 /\ burst'[Len(burst')] = b
      BY <3>1 DEF Followed
    <3>3. Len(burst) < MaxBits => burst'[Len(burst')] = l
      <4>1. Len(burst) < MaxBits => burst' = Append(burst, l)
        BY <1>1, <2>1
      <4> QED
        BY <2>1, <4>1 DEF Followed
    <3> QED
      BY <2>1, <3>2, <3>3
  <2> QED
    BY <2>2, <2>3
<1>7. age \in lim.wmin .. lim.wmax
  BY <1>3, <1>4, LimitTypes DEF Lowered, TypeOK
<1> QED
  BY <1>1, <1>4, <1>5, <1>6, <1>7 DEF Lowered, Rising, Alone, Count

LEMMA FollowedEdge ==
  ASSUME TypeOK, Staged, Settled, Followed, NEW l \in Line, Edge(l)
  PROVE  Followed'
<1>1. burst' \in Seq(Line \cup {None})
  BY BurstEdge DEF Followed
<1>2. SUFFICES ASSUME clean'
               PROVE  enabled' /\ pc' = "idle" /\ ~dirty' /\ (Falling(l)' \/ Rising(l)')
  BY <1>1 DEF Followed
<1>3. UNCHANGED <<enabled, pc, dirty>>
  BY DEF Edge
<1>4. CASE level[l] = 1 /\ Begins
  BY <1>3, <1>4, FollowedBegin DEF Begins
<1>5. CASE level[l] = 1 /\ ~Begins
  <2>1. clean /\ FallsWell(l)
    BY <1>2, <1>5 DEF Edge
  <2> QED
    BY <1>3, <1>5, <2>1, FollowedFall DEF Followed
<1>6. CASE level[l] = 0
  <2>1. clean' = (clean /\ RisesWell(l))
    BY <1>6 DEF Edge
  <2> QED
    BY <1>2, <1>3, <1>6, <2>1, FollowedRise DEF Followed
<1> QED
  BY <1>4, <1>5, <1>6 DEF TypeOK

\* The handler of a good edge: it finds the fall, or the rise and adds a bit.
LEMMA FollowedHandler ==
  ASSUME TypeOK, Staged, Settled, Followed, clean, NEW l \in Line, DataIrqHandler(l)
  PROVE  \/ Falling(l) /\ Lowered(l)' /\ noise' = noise
         \/ Rising(l) /\ Pause' /\ noise' = noise /\ (Full \/ Bit(l))
<1>1. /\ UNCHANGED <<level, lim, since, burst>> /\ pend' = [pend EXCEPT ![l] = 0]
      /\ pend[l] > 0
  BY DEF DataIrqHandler, wave
<1>2. /\ enabled /\ pc = "idle" /\ ~dirty /\ held = Line /\ Phase
      /\ burst \in Seq(Line \cup {None})
  BY DEF Followed, Staged, Phase
<1>3. /\ wasLow[l] <=> activeLine = l
      /\ IsLow(l) <=> level[l] = 0
      /\ Same(l) \/ Fall(l) \/ Rise(l)
  BY <1>2 DEF Settled, IsLow, DataIrqHandler
<1>4. Falling(l) \/ Rising(l)
  <2>1. ~Pause
    BY <1>1 DEF Pause, Calm
  <2>2. PICK m \in Line : Falling(m) \/ Lowered(m) \/ Rising(m)
    BY <1>2, <2>1 DEF Phase
  <2>3. m = l \/ l = 1 - m
    BY DEF Line
  <2> QED
    BY <1>1, <2>2, <2>3 DEF Falling, Lowered, Rising, Alone
<1>5. pend'[l] = 0 /\ pend'[1 - l] = pend[1 - l]
  BY <1>1, LineFacts DEF TypeOK
<1>6. CASE Falling(l)
  <2>1. Fall(l) /\ activeLine = None /\ level[l] = 0 /\ since = 0
    BY <1>3, <1>6, LineFacts DEF Falling, Same, Rise
  <2>2. ~TooEarly
    BY <1>6, LimitTypes DEF Falling, TooEarly, TypeOK
  <2>3. /\ activeLine' = l /\ age' = 0 /\ noise' = noise
        /\ bitCount' = IF Silence THEN 0 ELSE bitCount
    BY <2>1, <2>2 DEF Fall
  <2>4. bitCount' = Count(Len(burst))
    <3>1. CASE burst = <<>>
      <4>1. Len(burst) = 0 /\ bitCount' = 0
        BY <1>6, <2>3, <3>1 DEF Falling, Silence
      <4> QED
        BY <4>1, WiegandAssumption DEF Count
    <3>2. CASE burst # <<>>
      BY <1>6, <2>3, <3>2, LimitTypes DEF Falling, Silence, TypeOK
    <3> QED
      BY <3>1, <3>2
  <2> QED
    BY <1>1, <1>5, <1>6, <2>1, <2>3, <2>4 DEF Falling, Lowered, Alone, Count
<1>7. CASE Rising(l)
  <2>1. Rise(l) /\ activeLine = l /\ age = since
    BY <1>3, <1>7 DEF Rising, Same, Fall
  <2>2. ~(age < lim.wmin) /\ ~(age > lim.wmax)
    BY <1>7, LimitTypes DEF Rising, TypeOK
  <2>3. /\ activeLine' = None /\ UNCHANGED <<noise, age>>
        /\ IF Full THEN UNCHANGED <<data, bitCount, timer>> ELSE Bit(l)
    BY <2>1, <2>2 DEF Rise
  <2>4. bitCount' = Count(Len(burst))
    <3>1. Len(burst) \in Nat \ {0} /\ MaxBits \in Nat \ {0} /\ bitCount = Count(Len(burst) - 1)
      BY <1>2, <1>7, BurstTypes, WiegandAssumption DEF Rising
    <3> QED
      BY <2>3, <3>1 DEF Bit, Full, Count
  <2>5. \A m \in Line : level'[m] = 1 /\ pend'[m] = 0
    <3>1. \A m \in Line : m = l \/ m = 1 - l
      BY DEF Line
    <3> QED
      BY <1>1, <1>5, <1>7, <3>1 DEF Rising, Alone
  <2> QED
    BY <1>1, <1>7, <2>1, <2>3, <2>4, <2>5 DEF Rising, Pause, High, Calm, Count
<1> QED
  BY <1>4, <1>6, <1>7

LEMMA FollowedStep == TypeOK /\ Staged /\ Settled /\ Followed /\ [Next]_vars => Followed'
<1> SUFFICES ASSUME TypeOK, Staged, Settled, Followed, [Next]_vars PROVE Followed'
  OBVIOUS
<1>1. ASSUME NEW l \in Line, Edge(l) PROVE Followed'
  BY <1>1, FollowedEdge
<1>2. ASSUME NEW l \in Line, DataIrqHandler(l) PROVE Followed'
  <2>1. /\ UNCHANGED <<pc, clean, burst>> /\ dirty' = (dirty \/ pc \in HalfReset)
    BY <1>2 DEF DataIrqHandler, wave
  <2>2. enabled' = enabled
    BY <1>2 DEF DataIrqHandler, Same, Fall, Rise, Noise, NoiseSet, TypeOK
  <2>3. clean => Pause' \/ Lowered(l)'
    BY <1>2, FollowedHandler
  <2> QED
    BY <2>1, <2>2, <2>3 DEF Followed, HalfReset
<1>3. CASE Tick
  <2>1. age = since => age' = since'
    BY <1>3 DEF Tick
  <2>2. /\ UNCHANGED <<level, pend, activeLine, bitCount, burst, enabled, pc, dirty, clean>>
        /\ Calm
    BY <1>3 DEF Tick, wiring, decoder
  <2> QED
    BY <2>1, <2>2 DEF Followed, Pause, Falling, Lowered, Rising, Alone, High, Calm, Count
<1>4. CASE LimitStore
  <2>1. /\ UNCHANGED <<level, pend, activeLine, bitCount, burst, enabled, pc, dirty, clean, age, since>>
        /\ Calm
    BY <1>4 DEF LimitStore, wiring, decoder, wave
  <2> QED
    BY <2>1 DEF Followed, Pause, Falling, Lowered, Rising, Alone, High, Calm, Count
<1>5. CASE TimerHandler \/ Show \/ UNCHANGED vars
  <2>1. UNCHANGED <<level, pend, activeLine, bitCount, burst, enabled, pc, dirty, clean, age, since, lim>>
    BY <1>5, ShowFrame DEF TimerHandler, vars, wiring, decoder, wave
  <2> QED
    BY <2>1 DEF Followed, Pause, Falling, Lowered, Rising, Alone, High, Calm, Count
<1>6. ASSUME NEW l \in Line, RequestIrq(l) \/ DisablePut(l) \/ DisableUnhook(l) PROVE Followed'
  BY <1>6 DEF Followed, RequestIrq, DisablePut, DisableUnhook, wave
<1>7. CASE Enable \/ EnableAgain \/ Disable
  BY <1>7, EmptySeq DEF Followed, Enable, EnableAgain, Disable, Store
<1>8. CASE DisableOff \/ Reset
  BY <1>8 DEF Followed, DisableOff, Reset, Assign, wave
<1> QED
  BY <1>1, <1>2, <1>3, <1>4, <1>5, <1>6, <1>7, <1>8 DEF Next, Show

-----------------------------------------------------------------------------
(* The bits of a burst.                                                    *)

LEMMA PhaseBits ==
  ASSUME Followed, clean, TypeOK
  PROVE  bitCount \in Nat /\ Len(burst) \in Nat /\ (burst # <<>> \/ activeLine # None => bitCount <= Len(burst))
<1>1. Len(burst) \in Nat /\ MaxBits \in Nat /\ (burst # <<>> => Len(burst) > 0) /\ bitCount \in Nat
  BY BurstTypes, WiegandAssumption DEF Followed, TypeOK
<1>2. Phase
  BY DEF Followed, Phase
<1> QED
  BY <1>1, <1>2 DEF Phase, Pause, Falling, Lowered, Rising, Count

LEMMA DecodedEdge ==
  ASSUME TypeOK, Staged, Settled, Followed, Decoded, NEW l \in Line, Edge(l)
  PROVE  Decoded'
<1>1. UNCHANGED <<activeLine, data, bitCount>>
  BY DEF Edge, decoder
<1>2. SUFFICES ASSUME clean', burst' # <<>> \/ activeLine # None
               PROVE  \A i \in Places : i \in data <=> i < bitCount /\ burst'[bitCount - i] = 1
  BY <1>1 DEF Decoded
<1>3. ~(level[l] = 1 /\ Begins)
  <2>1. ASSUME level[l] = 1, Begins PROVE FALSE
    <3>1. Falling(l)' /\ burst' = <<>>
      BY <2>1, FollowedBegin DEF Edge
    <3> QED
      BY <1>1, <1>2, <3>1 DEF Falling
  <2> QED
    BY <2>1
<1>4. clean /\ (burst' = burst \/ (level[l] = 0 /\ RisesWell(l) /\ \E b \in Line \cup {None} : burst' = Append(burst, b)))
  <2>1. CASE level[l] = 1
    BY <1>2, <1>3, <2>1 DEF Edge
  <2>2. CASE level[l] # 1
    <3>1. clean' = (clean /\ RisesWell(l))
      BY <2>2, Zenon DEF Edge
    <3>2. burst' = burst \/ \E b \in Line \cup {None} : burst' = Append(burst, b)
      BY <1>2, <2>2, <3>1 DEF Edge
    <3> QED
      BY <1>2, <2>2, <3>1, <3>2 DEF TypeOK
  <2> QED
    BY <2>1, <2>2
<1>5. CASE burst' = burst
  BY <1>2, <1>4, <1>5 DEF Decoded
<1>6. CASE level[l] = 0 /\ RisesWell(l) /\ \E b \in Line \cup {None} : burst' = Append(burst, b)
  <2>1. Rising(l)'
    BY <1>4, <1>6, FollowedRise
  <2>2. activeLine = l
    BY <1>1, <2>1 DEF Rising
  <2>3. \A i \in Places : i \in data <=> i < bitCount /\ burst[bitCount - i] = 1
    BY <1>4, <2>2, LineFacts DEF Decoded
  <2>4. bitCount \in Nat /\ Len(burst) \in Nat /\ bitCount <= Len(burst)
    BY <1>4, <2>2, LineFacts, PhaseBits
  <2>5. \A j \in 1 .. bitCount : burst'[j] = burst[j]
    BY <1>6, <2>4 DEF Followed
  <2>6. \A i \in Places : i < bitCount => bitCount - i \in 1 .. bitCount
    BY <2>4, WiegandAssumption DEF Places
  <2> QED
    BY <2>3, <2>5, <2>6
<1> QED
  BY <1>4, <1>5, <1>6

\* The handler of the rise shifts in the bit that the burst ends with.
LEMMA DecodedHandler ==
  ASSUME TypeOK, Staged, Settled, Followed, Decoded, NEW l \in Line, DataIrqHandler(l)
  PROVE  Decoded'
<1>1. clean' = clean /\ burst' = burst
  BY DEF DataIrqHandler, wave
<1>2. SUFFICES ASSUME clean
               PROVE  \A i \in Places : i \in data' <=> i < bitCount' /\ burst[bitCount' - i] = 1
  BY <1>1 DEF Decoded
<1>3. /\ MaxBits \in Nat \ {0} /\ bitCount \in Nat /\ enabled /\ pc = "idle" /\ ~dirty
      /\ IsLow(l) <=> level[l] = 0
  BY <1>2, WiegandAssumption DEF TypeOK, Followed, Staged, IsLow
<1>4. CASE Falling(l) /\ Lowered(l)'
  <2>1. activeLine = None /\ activeLine' = l /\ level[l] = 0
    BY <1>4 DEF Falling, Lowered
  <2>2. Fall(l) /\ ~Noise
    BY <1>3, <2>1, LineFacts DEF DataIrqHandler, Same, Fall, Rise, Noise, Settled, decoder
  <2>3. /\ data' = IF Silence THEN {} ELSE data
        /\ bitCount' = IF Silence THEN 0 ELSE bitCount
    BY <2>2 DEF Fall
  <2>4. CASE bitCount' = 0
    <3>1. data' = {}
      BY <1>3, <2>3, <2>4 DEF Settled
    <3> QED
      BY <2>4, <3>1 DEF Places
  <2>5. CASE bitCount' # 0
    <3>1. ~Silence /\ burst # <<>>
      BY <1>4, <2>3, <2>5 DEF Falling, Silence
    <3> QED
      BY <1>2, <2>3, <3>1 DEF Decoded
  <2> QED
    BY <2>4, <2>5
<1>5. CASE Rising(l) /\ (Full \/ Bit(l))
  <2>1. \A i \in Places : i \in data <=> i < bitCount /\ burst[bitCount - i] = 1
    BY <1>2, <1>5 DEF Decoded, Rising
  <2>2. CASE Full
    <3>1. activeLine = l /\ wasLow[l] /\ ~IsLow(l)
      BY <1>3, <1>5 DEF Rising, Settled
    <3>2. Rise(l)
      BY <1>3, <3>1 DEF DataIrqHandler, Same, Fall
    <3>3. UNCHANGED <<data, bitCount>>
      BY <2>2, <3>1, <3>2 DEF Rise
    <3> QED
      BY <2>1, <3>3
  <2>3. CASE ~Full
    <3>1. bitCount' = bitCount + 1 /\ data' = Shifted(l) /\ bitCount < MaxBits
      <4>1. Bit(l)
        BY <1>5, <2>3
      <4> QED
        BY <1>3, <2>3, <4>1 DEF Bit, Full
    <3>2. burst[bitCount + 1] = l
      <4>1. Len(burst) \in Nat \ {0} /\ bitCount = Count(Len(burst) - 1)
        BY <1>5, BurstTypes DEF Rising, Followed
      <4>2. bitCount = Len(burst) - 1
        BY <1>3, <3>1, <4>1 DEF Count
      <4> QED
        BY <1>3, <1>5, <3>1, <4>1, <4>2 DEF Rising
    <3>3. ASSUME NEW i \in Places
          PROVE  i \in Shifted(l) <=> i < bitCount + 1 /\ burst[bitCount + 1 - i] = 1
      <4>1. i \in Nat /\ data \subseteq Places /\ Places \subseteq Nat
        BY <1>3 DEF Places, TypeOK
      <4>2. CASE i = 0
        <5>1. 0 \notin {j + 1 : j \in data}
          <6>1. \A j \in data : j \in Nat
            BY <4>1
          <6>2. \A j \in Nat : j + 1 # 0
            OBVIOUS
          <6> QED
            BY <6>1, <6>2
        <5>2. 0 \in Shifted(l) <=> l = 1
          BY <4>2, <5>1 DEF Shifted
        <5>3. bitCount + 1 - 0 = bitCount + 1 /\ 0 < bitCount + 1
          BY <1>3
        <5> QED
          BY <3>2, <4>2, <5>2, <5>3
      <4>3. CASE i # 0
        <5>1. i - 1 \in Places
          BY <1>3, <4>3 DEF Places
        <5>2. i \in Shifted(l) <=> i - 1 \in data
          BY <4>1, <4>3 DEF Shifted
        <5>3. bitCount - (i - 1) = bitCount + 1 - i /\ (i - 1 < bitCount <=> i < bitCount + 1)
          BY <1>3, <4>1
        <5> QED
          BY <2>1, <5>1, <5>2, <5>3
      <4> QED
        BY <4>2, <4>3
    <3>4. ASSUME NEW i \in Places PROVE i \in data' <=> i < bitCount' /\ burst[bitCount' - i] = 1
      <4>1. i \in Shifted(l) <=> i < bitCount + 1 /\ burst[bitCount + 1 - i] = 1
        BY <3>3
      <4>2. i \in Nat /\ bitCount \in Nat
        BY <1>3 DEF Places
      <4>3. i < bitCount' <=> i < bitCount + 1
        BY ONLY <3>1
      <4>4. bitCount' - i = bitCount + 1 - i
        BY ONLY <3>1, <4>2
      <4> QED
        BY ONLY <3>1, <4>1, <4>3, <4>4
    <3> QED
      BY <3>4
  <2> QED
    BY <2>2, <2>3
<1> QED
  BY <1>2, <1>4, <1>5, FollowedHandler

LEMMA DecodedStep == TypeOK /\ Staged /\ Settled /\ Followed /\ Decoded /\ [Next]_vars => Decoded'
<1> SUFFICES ASSUME TypeOK, Staged, Settled, Followed, Decoded, [Next]_vars PROVE Decoded'
  OBVIOUS
<1>1. ASSUME NEW l \in Line, Edge(l) PROVE Decoded'
  BY <1>1, DecodedEdge
<1>2. ASSUME NEW l \in Line, DataIrqHandler(l) PROVE Decoded'
  BY <1>2, DecodedHandler
<1>3. CASE Tick \/ LimitStore \/ TimerHandler \/ Show \/ UNCHANGED vars
  <2>1. UNCHANGED <<clean, burst, activeLine, data, bitCount>>
    BY <1>3, ShowFrame DEF Tick, LimitStore, TimerHandler, vars, decoder, wave
  <2> QED
    BY <2>1 DEF Decoded
<1>4. ASSUME NEW l \in Line, RequestIrq(l) \/ DisablePut(l) \/ DisableUnhook(l) PROVE Decoded'
  BY <1>4 DEF Decoded, Followed, RequestIrq, DisablePut, DisableUnhook, wave
<1>5. CASE Enable \/ EnableAgain \/ Disable \/ DisableOff \/ Reset
  BY <1>5 DEF Decoded, Followed, Enable, EnableAgain, Disable, DisableOff, Store, Reset, Assign, wave
<1> QED
  BY <1>1, <1>2, <1>3, <1>4, <1>5 DEF Next, Show

-----------------------------------------------------------------------------
(* The timer of the last pulse, or what became of it.                      *)

Due == timer >= 0 /\ age + timer = lim.imax + 1

Told ==
  /\ age > lim.imax
  /\ notifKn => news \/ Shown \/ rd \in {"register", "clock", "load"}

LEMMA TornStep == TypeOK /\ Informing /\ [Next]_vars => (rd = "torn" => ~Shown)'
<1> SUFFICES ASSUME TypeOK, Informing, [Next]_vars, rd' = "torn" PROVE ~Shown'
  OBVIOUS
<1> USE DEF Informing, Shown, stamp, reader
<1>1. ASSUME NEW l \in Line, DataIrqHandler(l) PROVE ~Shown'
  BY <1>1 DEF DataIrqHandler, Tear
<1>2. CASE Reset
  BY <1>2 DEF Reset, Assign, Tear
<1>3. CASE Show
  BY <1>3 DEF Show, DataOpen, DataRegister, DataClock, DataReturn, NoiseLoad, NoiseClear
<1>4. ASSUME NEW l \in Line, Edge(l) \/ RequestIrq(l) \/ DisablePut(l) \/ DisableUnhook(l) PROVE ~Shown'
  BY <1>4 DEF Edge, RequestIrq, DisablePut, DisableUnhook
<1>5. CASE Tick \/ TimerHandler \/ LimitStore \/ UNCHANGED vars
  BY <1>5 DEF Tick, TimerHandler, LimitStore, vars
<1>6. CASE Enable \/ EnableAgain \/ Disable \/ DisableOff
  BY <1>6 DEF Enable, EnableAgain, Disable, DisableOff, Store
<1> QED
  BY <1>1, <1>2, <1>3, <1>4, <1>5, <1>6 DEF Next, Show

LEMMA RetunedStep == TypeOK /\ Informing /\ [Next]_vars => (clean /\ ~retuned => ~Lax(lim))'
<1> SUFFICES ASSUME TypeOK, Informing, [Next]_vars, clean', ~retuned' PROVE ~Lax(lim')
  OBVIOUS
<1> USE DEF Informing
<1>1. ASSUME NEW l \in Line, Edge(l) PROVE ~Lax(lim')
  <2>1. CASE level[l] = 1 /\ Begins
    BY <1>1, <2>1 DEF Edge
  <2>2. CASE ~(level[l] = 1 /\ Begins)
    <3>1. (clean' => clean) /\ retuned' = (retuned /\ clean')
      BY <1>1, <2>2 DEF Edge
    <3>2. lim' = lim
      BY <1>1 DEF Edge
    <3> QED
      BY <3>1, <3>2
  <2> QED
    BY <2>1, <2>2
<1>2. ASSUME NEW l \in Line, DataIrqHandler(l) \/ RequestIrq(l) \/ DisablePut(l) \/ DisableUnhook(l)
      PROVE  ~Lax(lim')
  BY <1>2 DEF DataIrqHandler, RequestIrq, DisablePut, DisableUnhook, wave
<1>3. CASE LimitStore
  BY <1>3 DEF LimitStore, wave
<1>4. CASE Tick \/ TimerHandler \/ Show \/ UNCHANGED vars
  BY <1>4, ShowFrame DEF Tick, TimerHandler, vars, wave
<1>5. CASE Enable \/ EnableAgain \/ Disable \/ DisableOff \/ Reset
  BY <1>5 DEF Enable, EnableAgain, Disable, DisableOff, Store, Reset, Assign, wave
<1> QED
  BY <1>1, <1>2, <1>3, <1>4, <1>5 DEF Next, Show

\* A step of a read leaves the poller told, shown or still reading.
LEMMA ToldShow ==
  ASSUME TypeOK, Informing, enabled, Due \/ Told, Show
  PROVE  Due' \/ Told'
<1>1. UNCHANGED <<lim, age, timer>>
  BY ShowFrame
<1>2. CASE Due
  BY <1>1, <1>2 DEF Due
<1>3. CASE Told
  <2>1. SUFFICES ASSUME notifKn'
                 PROVE  news' \/ Shown' \/ rd' \in {"register", "clock", "load"}
    BY <1>1, <1>3 DEF Told
  <2>2. CASE DataOpen \/ DataRegister
    BY <2>2 DEF DataOpen, DataRegister
  <2>3. CASE DataClock
    BY <1>3, <2>3 DEF DataClock, Told, Readable
  <2>4. CASE DataReturn
    <3>1. /\ UNCHANGED <<notifKn, news>>
          /\ \/ rd = "early" /\ tsNew' = tsNew /\ (changed' => changed)
             \/ rd = "load" /\ ~tsNew' /\ ~changed'
             \/ rd = "torn"
      BY <2>4 DEF DataReturn
    <3> QED
      BY <1>3, <2>1, <3>1 DEF Told, Informing, Shown
  <2>5. CASE NoiseLoad \/ NoiseClear
    BY <1>3, <2>1, <2>5 DEF NoiseLoad, NoiseClear, reader, stamp, Shown, Told
  <2> QED
    BY <2>2, <2>3, <2>4, <2>5 DEF Show
<1> QED
  BY <1>2, <1>3

LEMMA InformingStep ==
  TypeOK /\ Staged /\ Settled /\ Followed /\ Informing /\ [Next]_vars => Informing'
<1> SUFFICES ASSUME TypeOK, Staged, Settled, Followed, Informing, [Next]_vars,
                    clean', High', Calm', Len(burst)' <= MaxBits, ~retuned'
             PROVE  Due' \/ Told'
  BY TornStep, RetunedStep DEF Informing, Due, Told
<1>1. ASSUME NEW l \in Line, Edge(l) PROVE FALSE
  <2>1. enabled' /\ pc' = "idle"
    BY <1>1, FollowedStep DEF Followed
  <2>2. l \in irqOn
    BY <1>1, <2>1 DEF Edge, Staged
  <2> QED
    BY <1>1, <2>2 DEF Edge, Calm, TypeOK
<1>2. ASSUME NEW l \in Line, DataIrqHandler(l) PROVE Due'
  <2>1. clean /\ ~retuned /\ UNCHANGED <<level, lim, burst>>
    BY <1>2 DEF DataIrqHandler, wave
  <2>2. Rising(l) /\ (Full \/ Bit(l))
    <3>1. level[l] = 1
      BY <2>1 DEF High
    <3> QED
      BY <1>2, <2>1, <3>1, FollowedHandler DEF Falling
  <2>3. ~Full
    <3>1. Len(burst) \in Nat /\ Len(burst) > 0 /\ Len(burst) <= MaxBits
      BY <2>1, <2>2, BurstTypes DEF Rising, Followed
    <3> QED
      BY <2>2, <3>1, WiegandAssumption DEF Rising, Count, Full
  <2>4. age \in Nat /\ age <= lim.imax /\ lim.imax \in Nat
    BY <2>1, <2>2, LimitTypes DEF Rising, TypeOK, Informing, Lax
  <2>5. age' = age
    BY <1>2, <2>2, <2>3, LineFacts DEF Rising, DataIrqHandler, Same, Fall, Rise, Noise, Bit, TypeOK
  <2> QED
    BY <2>1, <2>2, <2>3, <2>4, <2>5 DEF Bit, Due, Remaining
<1>3. /\ age \in Nat /\ age <= MaxAge /\ timer \in Int
      /\ lim.imax \in Nat /\ lim.imax < MaxAge /\ MaxAge \in Nat
  BY LimitTypes, WiegandAssumption DEF TypeOK, NoTimer, Far
<1>4. ASSUME clean, UNCHANGED <<level, pend, burst>>, retuned => retuned'
      PROVE  Due \/ Told
  BY <1>4 DEF Informing, High, Calm, Due, Told
<1>5. CASE Tick
  <2>1. Due \/ Told
    BY <1>4, <1>5 DEF Tick, wiring
  <2>2. /\ UNCHANGED <<lim, reader, stamp>> /\ age' = Later(age)
        /\ timer # 0 /\ timer' = IF timer \in 1 .. MaxAge THEN timer - 1 ELSE timer
    BY <1>5 DEF Tick
  <2>3. CASE Due
    BY <1>3, <2>2, <2>3 DEF Later, Due
  <2>4. CASE Told
    <3>1. age' > lim'.imax
      BY <1>3, <2>2, <2>4 DEF Later, Told
    <3> QED
      BY <2>2, <2>4, <3>1 DEF Told, Shown, reader, stamp
  <2> QED
    BY <2>1, <2>3, <2>4
<1>6. CASE TimerHandler
  <2>1. Due \/ Told
    BY <1>4, <1>6 DEF TimerHandler, wiring, wave
  <2>2. UNCHANGED <<age, lim, notifKn>> /\ timer = 0
    BY <1>6 DEF TimerHandler
  <2>3. notifKn => news'
    BY <1>6, Zenon DEF TimerHandler
  <2>4. age > lim.imax
    BY <1>3, <2>1, <2>2 DEF Due, Told
  <2> QED
    BY <2>2, <2>3, <2>4 DEF Told
<1>7. CASE LimitStore
  <2>1. Due \/ Told
    BY <1>4, <1>7 DEF LimitStore, wiring, wave
  <2>2. lim'.imax = lim.imax
    BY <1>7 DEF LimitStore, wave
  <2>3. UNCHANGED <<age, timer, reader, stamp>>
    BY <1>7 DEF LimitStore
  <2> QED
    BY <2>1, <2>2, <2>3 DEF Due, Told, Shown, reader, stamp
<1>8. CASE Show
  <2>1. clean /\ (Due \/ Told)
    BY <1>4, <1>8, ShowFrame DEF wiring, wave
  <2> QED
    BY <1>8, <2>1, ToldShow DEF Followed
<1>9. CASE UNCHANGED vars
  <2>1. Due \/ Told
    BY <1>4, <1>9 DEF vars, wiring, wave
  <2> QED
    BY <1>9, <2>1 DEF vars, reader, stamp, Due, Told, Shown
<1>10. ASSUME NEW l \in Line, RequestIrq(l) \/ DisablePut(l) \/ DisableUnhook(l) PROVE FALSE
  BY <1>10 DEF Followed, RequestIrq, DisablePut, DisableUnhook, wave
<1>11. CASE Enable \/ EnableAgain \/ Disable \/ DisableOff \/ Reset
  BY <1>11 DEF Followed, Enable, EnableAgain, Disable, DisableOff, Store, Reset, Assign, wave
<1> QED
  BY <1>1, <1>2, <1>5, <1>6, <1>7, <1>8, <1>9, <1>10, <1>11 DEF Next, Show

-----------------------------------------------------------------------------
(* An edge outside the limits cannot but leave a noise code.               *)

LEMMA DoomedEdge ==
  ASSUME TypeOK, NEW m \in Line, Doomed(m), NEW l \in Line, Edge(l)
  PROVE  Doomed(m)'
<1>1. UNCHANGED <<activeLine, bitCount, wasLow, age, lim>>
  BY DEF Edge, decoder
<1>2. \A k \in Line : /\ pend[k] > 0 => pend'[k] > 0
                      /\ pend[k] = 2 => pend'[k] = 2 /\ level'[k] = level[k]
  BY WiegandAssumption DEF Edge, WiegandAssumption, TypeOK
<1>3. /\ pend'[m] > 0
      /\ pend[m] = 2 /\ (wasLow[m] <=> level[m] = 0)
           => pend'[m] = 2 /\ (wasLow'[m] <=> level'[m] = 0)
  <2>1. wasLow'[m] = wasLow[m] /\ wasLow[m] \in BOOLEAN
    BY <1>1 DEF TypeOK
  <2>2. pend[m] = 2 => pend'[m] = 2 /\ level'[m] = level[m]
    BY <1>2
  <2>3. pend'[m] > 0
    BY <1>2 DEF Doomed
  <2> QED
    BY <2>1, <2>2, <2>3
<1>4. Full' = Full /\ Silence' = Silence /\ Apart' = Apart
  BY <1>1 DEF Full, Silence, Apart
<1> QED
  BY <1>1, <1>2, <1>3, <1>4 DEF Doomed

\* The first edge outside the limits, by where the decoder is.
LEMMA Flawed ==
  ASSUME TypeOK, Staged, Settled, Followed, NEW l \in Line, Edge(l), clean, Apart,
         Len(burst) < MaxBits,
         level[l] = 1 => ~Begins /\ ~FallsWell(l),
         level[l] = 0 => ~RisesWell(l)
  PROVE  \E m \in Line : Doomed(m)'
<1>1. UNCHANGED <<activeLine, bitCount, wasLow, age, lim>> /\ Apart'
  BY DEF Edge, decoder, Apart
<1>2. /\ enabled /\ pc = "idle" /\ ~dirty /\ irqOn = Line /\ Phase
      /\ \A k \in Line : wasLow[k] <=> activeLine = k
  BY DEF Followed, Staged, Phase, Settled
<1>3. /\ level'[l] = 1 - level[l] /\ pend'[l] = pend[l] + 1
      /\ level'[1 - l] = level[1 - l] /\ pend'[1 - l] = pend[1 - l]
  BY <1>2, LineFacts DEF Edge, TypeOK
<1>4. /\ MaxBits \in Nat \ {0} /\ Len(burst) \in Nat /\ bitCount \in Nat /\ age \in Nat
      /\ since \in Nat
      /\ (burst # <<>> => Len(burst) > 0) /\ Count(Len(burst)) = Len(burst)
      /\ Len(burst) > 0 => Count(Len(burst) - 1) = Len(burst) - 1
  BY <1>1, BurstTypes, WiegandAssumption DEF Followed, TypeOK, Count
<1>5. \A k \in Line : k # None /\ 1 - k \in Line /\ 1 - k # k
  BY LineFacts
<1>6. CASE Pause
  <2>1. level[l] = 1 /\ pend[l] = 0 /\ age = since /\ bitCount # 0 /\ ~wasLow[l]
    BY <1>2, <1>4, <1>5, <1>6 DEF Pause, High, Calm
  <2>2. since < lim.imin
    BY <1>1, <1>2, <1>5, <1>6, <2>1, LimitTypes DEF Pause, High, Begins, FallsWell, TypeOK
  <2>3. Doomed(l)'
    BY <1>1, <1>3, <2>1, <2>2 DEF Doomed
  <2> QED
    BY <2>3
<1>7. ASSUME NEW m \in Line, Falling(m) PROVE \E k \in Line : Doomed(k)'
  <2>1. CASE l = m
    <3>1. pend'[l] = 2 /\ level'[l] = 1 /\ ~wasLow[l]
      BY <1>2, <1>3, <1>5, <1>7, <2>1 DEF Falling
    <3>2. Doomed(l)'
      BY <1>1, <3>1 DEF Doomed
    <3> QED
      BY <3>2
  <2>2. CASE l = 1 - m
    <3>1. pend'[l] > 0 /\ pend'[1 - l] > 0 /\ activeLine = None
      BY <1>3, <1>5, <1>7, <2>2, LineFacts DEF Falling, Alone
    <3>2. \A k \in Line : pend'[k] > 0 /\ ~wasLow[k]
      BY <1>2, <1>5, <3>1 DEF Line
    <3>3. Full => Silence
      BY <1>1, <1>4, <1>7 DEF Falling, Full, Silence
    <3>4. Doomed(l)'
      BY <1>1, <3>1, <3>2, <3>3 DEF Doomed, Full, Silence
    <3> QED
      BY <3>4
  <2> QED
    BY <2>1, <2>2 DEF Line
<1>8. ASSUME NEW m \in Line, Lowered(m) PROVE \E k \in Line : Doomed(k)'
  <2>1. ~Full
    BY <1>1, <1>4, <1>8 DEF Lowered, Full
  <2>2. CASE l = m
    <3>1. pend'[l] > 0 /\ wasLow[l] /\ activeLine = l /\ (age < lim.wmin \/ age > lim.wmax)
      BY <1>1, <1>2, <1>3, <1>4, <1>8, <2>2, LimitTypes DEF Lowered, RisesWell, TypeOK
    <3>2. Doomed(l)'
      BY <1>1, <2>1, <3>1 DEF Doomed, Full
    <3> QED
      BY <3>2
  <2>3. CASE l = 1 - m
    <3>1. pend'[l] > 0 /\ ~wasLow[l] /\ activeLine = 1 - l
      BY <1>2, <1>3, <1>8, <2>3, LineFacts DEF Lowered, TypeOK, Alone
    <3>2. Doomed(l)'
      BY <1>1, <2>1, <3>1 DEF Doomed, Full
    <3> QED
      BY <3>2
  <2> QED
    BY <2>2, <2>3 DEF Line
<1>9. ASSUME NEW m \in Line, Rising(m) PROVE \E k \in Line : Doomed(k)'
  <2>1. ~Full
    BY <1>1, <1>4, <1>9 DEF Rising, Full
  <2>2. CASE l = m
    <3>1. pend'[l] = 2 /\ level'[l] = 0 /\ wasLow[l]
      BY <1>2, <1>3, <1>9, <2>2 DEF Rising
    <3>2. Doomed(l)'
      BY <1>1, <3>1 DEF Doomed
    <3> QED
      BY <3>2
  <2>3. CASE l = 1 - m
    <3>1. pend'[l] > 0 /\ ~wasLow[l] /\ activeLine = 1 - l
      BY <1>2, <1>3, <1>9, <2>3, LineFacts DEF Rising, TypeOK, Alone
    <3>2. Doomed(l)'
      BY <1>1, <2>1, <3>1 DEF Doomed, Full
    <3> QED
      BY <3>2
  <2> QED
    BY <2>2, <2>3 DEF Line
<1> QED
  BY <1>2, <1>6, <1>7, <1>8, <1>9 DEF Phase

\* The handler of the doomed edge: noise, or it is the first of two pulses
\* that overlap, and the other one is doomed.
LEMMA DoomedSelf ==
  ASSUME TypeOK, enabled, held = Line, NEW l \in Line, Doomed(l), DataIrqHandler(l), ~noise'
  PROVE  Doomed(1 - l)'
<1>1. /\ IsLow(l) <=> level[l] = 0
      /\ Fall(l) \/ Rise(l)
      /\ ~Noise /\ ~Same(l)
      /\ UNCHANGED lim /\ pend' = [pend EXCEPT ![l] = 0] /\ Apart'
  BY DEF IsLow, DataIrqHandler, Noise, NoiseSet, Same, Doomed, Apart
<1>2. CASE Fall(l)
  <2>1. /\ IsLow(l) /\ ~wasLow[l] /\ ~TooEarly /\ activeLine = None
        /\ activeLine' = l /\ wasLow' = [wasLow EXCEPT ![l] = TRUE]
        /\ bitCount' = IF Silence THEN 0 ELSE bitCount
    BY <1>1, <1>2 DEF Fall
  <2>2. (\A m \in Line : pend[m] > 0 /\ ~wasLow[m]) /\ (Full => Silence)
    BY <1>1, <2>1, LineFacts DEF Doomed, TooEarly
  <2>3. pend'[1 - l] > 0 /\ ~wasLow'[1 - l] /\ activeLine' = 1 - (1 - l)
    BY <1>1, <2>1, <2>2, LineFacts DEF TypeOK
  <2>4. ~Full'
    BY <2>1, <2>2, WiegandAssumption DEF Full, TypeOK
  <2> QED
    BY <1>1, <2>3, <2>4 DEF Doomed
<1>3. CASE Rise(l)
  <2>1. ~IsLow(l) /\ wasLow[l] /\ activeLine = l /\ (Full \/ (age >= lim.wmin /\ age <= lim.wmax))
    BY <1>1, <1>3 DEF Rise
  <2> QED
    BY <1>1, <2>1, LimitTypes DEF Doomed, TypeOK
<1> QED
  BY <1>1, <1>2, <1>3

\* The handler of the other line leaves a noise code, or the edge doomed.
LEMMA DoomedOther ==
  ASSUME TypeOK, enabled, held = Line, NEW l \in Line, NEW m \in Line, m = 1 - l,
         Doomed(m), ~Doomed(l), DataIrqHandler(l), ~noise'
  PROVE  Doomed(m)'
<1>1. /\ IsLow(l) <=> level[l] = 0
      /\ Fall(l) \/ Rise(l)
      /\ ~Noise /\ ~Same(l)
      /\ UNCHANGED <<lim, level>> /\ pend' = [pend EXCEPT ![l] = 0] /\ pend[l] > 0
      /\ Apart /\ Apart'
  BY DEF IsLow, DataIrqHandler, Noise, NoiseSet, Same, Doomed, Apart
<1>2. m # l /\ l = 1 - m /\ m # None /\ l # None
  BY LineFacts
<1>3. pend'[m] = pend[m] /\ wasLow'[m] = wasLow[m]
  BY <1>1, <1>2 DEF Fall, Rise, TypeOK
<1>4. CASE pend[m] = 2 /\ (wasLow[m] <=> level[m] = 0)
  BY <1>1, <1>3, <1>4 DEF Doomed
<1>5. CASE Fall(l)
  <2>1. ~TooEarly /\ activeLine = None
    BY <1>1, <1>5 DEF Fall
  <2> QED
    BY <1>1, <1>2, <1>4, <2>1 DEF Doomed, TooEarly
<1>6. CASE Rise(l) /\ ~(pend[m] = 2 /\ (wasLow[m] <=> level[m] = 0))
  <2>1. /\ activeLine = l /\ wasLow[l] /\ age' = age
        /\ Full \/ (age <= lim.wmax /\ Bit(l))
        /\ bitCount' \in {bitCount, bitCount + 1}
    BY <1>1, <1>6 DEF Rise, Bit
  <2>2. ~wasLow[m]
    <3>1. activeLine # m /\ activeLine # None
      BY <1>2, <2>1
    <3> QED
      BY <1>6, <3>1 DEF Doomed
  <2>3. bitCount' # 0 /\ age < lim.imin
    <3>1. CASE Full
      <4>1. bitCount # 0 /\ age < lim.imin
        BY <1>2, <1>6, <2>1, <2>2, <3>1 DEF Doomed
      <4> QED
        BY <2>1, <4>1 DEF TypeOK
    <3>2. CASE ~Full
      <4>1. bitCount' = bitCount + 1 /\ bitCount \in Nat
        BY <2>1, <3>2 DEF Bit, TypeOK
      <4>2. age < lim.imin
        BY <1>1, <2>1, <3>2, LimitTypes DEF TypeOK, Apart
      <4> QED
        BY <4>1, <4>2
    <3> QED
      BY <3>1, <3>2
  <2> QED
    BY <1>1, <1>3, <2>1, <2>2, <2>3 DEF Doomed
<1> QED
  BY <1>1, <1>4, <1>5, <1>6

LEMMA CaughtHandler ==
  ASSUME TypeOK, Staged, Caught, NEW l \in Line, DataIrqHandler(l)
  PROVE  Caught'
<1>1. pc' = pc /\ flaw' = flaw /\ lost' = lost
  BY DEF DataIrqHandler
<1>2. enabled' = enabled /\ (noise => noise')
  BY DEF DataIrqHandler, Same, Fall, Rise, Noise, NoiseSet, TypeOK
<1>3. SUFFICES ASSUME flaw, ~lost, ~noise, ~noise', enabled, pc = "idle"
               PROVE  \E m \in Line : Doomed(m)'
  BY <1>1, <1>2 DEF Caught
<1>4. PICK m \in Line : Doomed(m)
  BY <1>3 DEF Caught
<1>5. held = Line /\ 1 - l \in Line /\ (m = l \/ m = 1 - l)
  BY <1>3 DEF Staged, Line
<1> QED
  BY <1>3, <1>4, <1>5, DoomedSelf, DoomedOther

\* The edge that says so.
LEMMA FlawEdge ==
  ASSUME TypeOK, NEW l \in Line, Edge(l), flaw', ~lost'
  PROVE  \/ flaw /\ ~lost
         \/ /\ clean /\ Apart /\ Len(burst) < MaxBits
            /\ level[l] = 1 => ~Begins /\ ~FallsWell(l)
            /\ level[l] = 0 => ~RisesWell(l)
<1>1. CASE level[l] = 1 /\ Begins
  BY <1>1 DEF Edge
<1>2. CASE level[l] = 1 /\ ~Begins
  <2> DEFINE bad == clean /\ ~FallsWell(l) /\ Apart /\ Len(burst) < MaxBits
  <2>1. flaw' = (flaw \/ bad) /\ lost' = (lost /\ ~bad)
    BY <1>2 DEF Edge
  <2>2. bad \/ (flaw /\ ~lost)
    BY <2>1, Zenon
  <2> QED
    BY <1>2, <2>2
<1>3. CASE level[l] = 0
  <2> DEFINE bad == clean /\ ~RisesWell(l) /\ Apart /\ Len(burst) < MaxBits
  <2>1. level[l] # 1
    BY <1>3
  <2>2. flaw' = (flaw \/ bad) /\ lost' = (lost /\ ~bad)
    BY <2>1, Zenon DEF Edge
  <2>3. bad \/ (flaw /\ ~lost)
    BY <2>2, Zenon
  <2> QED
    BY <1>3, <2>3
<1> QED
  BY <1>1, <1>2, <1>3 DEF TypeOK

LEMMA CaughtStep ==
  TypeOK /\ Staged /\ Settled /\ Followed /\ Caught /\ [Next]_vars => Caught'
<1> SUFFICES ASSUME TypeOK, Staged, Settled, Followed, Caught, [Next]_vars PROVE Caught'
  OBVIOUS
<1>1. ASSUME NEW l \in Line, Edge(l) PROVE Caught'
  <2>1. /\ UNCHANGED <<pc, enabled, noise>>
        /\ flaw' => flaw \/ clean
    BY <1>1 DEF Edge
  <2>2. clean => enabled /\ pc = "idle"
    BY DEF Followed
  <2>3. ASSUME flaw', ~lost', ~noise, enabled, pc = "idle" PROVE \E m \in Line : Doomed(m)'
    <3>1. CASE flaw /\ ~lost
      BY <1>1, <2>3, <3>1, DoomedEdge DEF Caught
    <3>2. CASE ~(flaw /\ ~lost)
      BY <1>1, <2>3, <3>2, FlawEdge, Flawed
    <3> QED
      BY <3>1, <3>2
  <2> QED
    BY <2>1, <2>2, <2>3 DEF Caught, HalfReset
<1>2. ASSUME NEW l \in Line, DataIrqHandler(l) PROVE Caught'
  BY <1>2, CaughtHandler
<1>3. CASE Tick \/ LimitStore
  <2>1. Calm /\ UNCHANGED <<pc, enabled, noise, flaw, lost>>
    BY <1>3 DEF Tick, LimitStore
  <2>2. \A m \in Line : ~Doomed(m)
    BY <2>1 DEF Calm, Doomed
  <2> QED
    BY <2>1, <2>2 DEF Caught
<1>4. CASE TimerHandler \/ (Show /\ ~NoiseClear) \/ UNCHANGED vars
  <2>1. UNCHANGED <<pc, enabled, level, pend, activeLine, bitCount, wasLow, age, lim>>
    BY <1>4, ShowFrame DEF TimerHandler, vars, wiring, decoder
  <2>2. UNCHANGED <<noise, flaw, lost>>
    BY <1>4 DEF TimerHandler, Show, DataOpen, DataRegister, DataClock, DataReturn, NoiseLoad, vars
  <2> QED
    BY <2>1, <2>2 DEF Caught, Doomed, Full, Silence, Apart
<1>5. CASE NoiseClear
  <2>1. (flaw' => flaw) /\ (flaw' => lost') /\ UNCHANGED <<pc, enabled>>
    BY <1>5 DEF NoiseClear
  <2> QED
    BY <2>1 DEF Caught
<1>6. ASSUME NEW l \in Line, RequestIrq(l) \/ DisablePut(l) \/ DisableUnhook(l) PROVE Caught'
  BY <1>6 DEF Caught, HalfReset, RequestIrq, DisablePut, DisableUnhook
<1>7. CASE Enable \/ EnableAgain \/ Disable \/ DisableOff
  BY <1>7 DEF Caught, HalfReset, Enable, EnableAgain, Disable, DisableOff, Store
<1>8. CASE Reset
  BY <1>8 DEF Caught, HalfReset, Reset, Assign
<1> QED
  BY <1>1, <1>2, <1>3, <1>4, <1>5, <1>6, <1>7, <1>8 DEF Next, Show

-----------------------------------------------------------------------------
LEMMA InvInit == Init => Inv
<1> SUFFICES ASSUME Init PROVE Inv
  OBVIOUS
<1>1. burst \in Seq(Line \cup {None})
  BY EmptySeq DEF Init
<1> QED
  BY <1>1, TypeInit DEF Init, Inv, Staged, Resetting, HalfReset, Cancelled, Quiet, Stamped, Recent,
     Settled, Followed, Decoded, Informing, Shown, Caught

LEMMA InvStep == Inv /\ [Next]_vars => Inv'
BY TypeStep, StagedStep, QuietStep, StampedStep, RecentStep, SettledStep, FollowedStep,
   DecodedStep, InformingStep, CaughtStep DEF Inv

LEMMA Invariance == Spec => []Inv
BY InvInit, InvStep, PTL DEF Spec

\* The types, with bitCount and data in their bounds, for every length of a
\* frame and all the limits.
THEOREM TypeCorrect == Spec => []TypeOK
<1>1. Inv => TypeOK
  BY DEF Inv
<1> QED
  BY <1>1, Invariance, PTL

\* After wiegandDisable a timer runs only if an edge was handled after
\* hrtimer_cancel.
THEOREM CancelledQuietly == Spec => []DisabledQuiet
<1>1. Inv => DisabledQuiet
  BY DEF Inv, Quiet, DisabledQuiet
<1> QED
  BY <1>1, Invariance, PTL

\* Two reads of w<N>_data with one timestamp show the same bits, for all limits
\* in any order of size; but for a read that an edge handler came into, and for
\* a pulse that may last longer than the interval the read has waited for.
THEOREM TimestampsTell == Spec => []TimestampTells
<1>1. Inv => TimestampTells
  BY DEF Inv, Stamped, TimestampTells
<1> QED
  BY <1>1, Invariance, PTL

\* A burst of good pulses is read bit by bit: the bit count is its length and
\* the word its bits, for frames of any length and any limits.
THEOREM BurstsDecoded == Spec => []DecodedRight
<1>1. ASSUME Inv PROVE DecodedRight
  <2>1. SUFFICES ASSUME clean, burst # <<>>, Calm, High
                 PROVE  /\ bitCount = Count(Len(burst))
                        /\ \A i \in Places : i \in data <=> i < bitCount /\ burst[bitCount - i] = 1
    BY DEF DecodedRight, IsValue, Count
  <2>2. Pause
    BY <1>1, <2>1 DEF Inv, Followed, Falling, Lowered, Rising, Calm, High
  <2> QED
    BY <1>1, <2>1, <2>2 DEF Inv, Pause, Decoded
<1> QED
  BY <1>1, Invariance, PTL

\* An edge outside the limits leaves a noise code, whatever edges, steps of
\* reads and stores come between it and its handler, if a pulse is to end before
\* the next may begin; but for a code that the read of an older one clears.
THEOREM FlawsReported == Spec => []NoiseReported
<1>1. Inv => NoiseReported
  BY DEF Inv, Caught, Doomed, Calm, NoiseReported, TypeOK
<1> QED
  BY <1>1, Invariance, PTL

\* Whoever polls is shown a burst that is over, or told of it after its last
\* read, for all limits in any order of size; but for a pulse that may last
\* longer than the longest interval, and a change of that interval.
THEOREM PollersInformed == Spec => []PollerInformed
<1>1. ASSUME Inv PROVE PollerInformed
  <2>1. SUFFICES ASSUME clean, High, Calm, Len(burst) <= MaxBits, ~retuned, notifKn,
                        rd = "idle", age > lim.imax, timer # 0
                 PROVE  news \/ Shown
    BY DEF PollerInformed, Shown
  <2>2. age \in Nat /\ timer \in Int /\ lim.imax \in Nat
    BY <1>1, LimitTypes DEF Inv, TypeOK, NoTimer, Far
  <2> QED
    BY <1>1, <2>1, <2>2 DEF Inv, Informing
<1> QED
  BY <1>1, Invariance, PTL
=============================================================================
