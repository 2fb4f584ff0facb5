------------------------------ MODULE Wiegand ------------------------------
(***************************************************************************)
(* One Wiegand interface of src/commons/wiegand/wiegand.c while its lines  *)
(* are its own: the handler of the edges of D0 and D1, the timer that      *)
(* tells a poller that a frame is over, the stores of w<N>_enabled and of  *)
(* the pulse limits, and the reads of w<N>_data and w<N>_noise.  There is  *)
(* no lock: stores and reads are interrupted between any two assignments.  *)
(* The limits may be stored in any order of size.                          *)
(* (How the lines are obtained is the subject of DtLines.)                 *)
(*                                                                         *)
(* Time advances in ticks.  The handler runs in the tick of the edge, but  *)
(* a second edge may come first (MaxPend): both then make one interrupt (a *)
(* third, which nothing could tell from one, does not).  Two handlers do   *)
(* not overlap: the lines are on one chip.                                 *)
(***************************************************************************)
EXTENDS Integers, Sequences

CONSTANTS
  MaxBits,      \* WIEGAND_MAX_BITS
  WidthMin, WidthMax, IntervalMin, IntervalMax,  \* limits that may be stored
  Reads,        \* which files are read: "data" w<N>_data, "noise" w<N>_noise
  MaxPend,      \* edges of a line that may make one interrupt: 1 or 2
  MaxAge        \* ticks beyond which a time is not told apart

Line == {0, 1}  \* D0 and D1
None == 2
NoTimer == -1
Far == MaxAge + 1  \* a timer that is started and never expires

\* A word is the set of the places of its ones.
Places == 0 .. MaxBits - 1

ASSUME WiegandAssumption ==
  /\ MaxBits \in Nat \ {0} /\ MaxAge \in Nat /\ MaxPend \in {1, 2}
  /\ Reads \subseteq {"data", "noise"}
  /\ \A v \in WidthMin \cup WidthMax \cup IntervalMin \cup IntervalMax :
       v \in Nat /\ v < MaxAge
  /\ {} \notin {WidthMin, WidthMax, IntervalMin, IntervalMax}

VARIABLES
  level, pend,   \* of each line: its level; edges latched and not handled
  held, irqOn,   \* the lines whose descriptor, whose interrupt is there
  lim,           \* pulseWidthMin_usec, ...: [wmin, wmax, imin, imax]
  enabled, data, bitCount, activeLine, wasLow,
  noise,         \* whether the noise code is one of 10 to 15
  age,           \* ticks since lastBitTs
  timer,         \* ticks to expiry
  notifKn, news, \* somebody reads and polls; it has been notified since
  pc,            \* where the store of w<N>_enabled is
  rd,            \* where the read of w<N>_data is; "torn" if what it shows
                 \* has changed since it looked at the clock
  nz,            \* where the read of w<N>_noise is; "late" if a code has been
                 \* set since it loaded the last one
  tsNew,         \* history: lastBitTs is not the one shown last
  changed,       \* history: data or bitCount are not those shown last
  since,         \* history: ticks since a line last fell
  burst,         \* history: the pulses since the last silence, as bits
  clean,         \* history: all of them within the limits, seen from the start
  flaw,          \* history: an edge outside the limits, noise not read since
  lost,          \* history: the last read of noise has cleared a newer code, and
                 \* no such edge has come since
  dirty,         \* history: an interrupt came between assignments of a reset
  late,          \* history: an edge was handled after hrtimer_cancel
  lax,           \* history: since a read looked at the clock, a pulse longer
                 \* than the interval it waited for was within the limits
  retuned        \* history: the same during the burst, or imax has changed

decoder == <<data, bitCount, activeLine, wasLow>>
wiring == <<level, pend, held, irqOn>>
reader == <<notifKn, news, rd>>
stamp == <<tsNew, changed>>
wave == <<since, burst, clean>>
vars == <<wiring, lim, enabled, decoder, noise, age, timer, reader, pc, nz, stamp,
          wave, flaw, lost, dirty, late, lax, retuned>>

Init ==
  /\ level = [l \in Line |-> 1] /\ pend = [l \in Line |-> 0]
  /\ held = {} /\ irqOn = {}
  /\ lim \in [wmin : WidthMin, wmax : WidthMax, imin : IntervalMin, imax : IntervalMax]
  /\ enabled = FALSE /\ data = {} /\ bitCount = 0 /\ activeLine = None
  /\ wasLow = [l \in Line |-> FALSE] /\ noise = FALSE
  /\ age = MaxAge /\ timer = NoTimer
  /\ notifKn = FALSE /\ news = FALSE
  /\ pc = "idle" /\ rd = "idle" /\ nz = "idle"
  /\ tsNew = TRUE /\ changed = FALSE
  /\ since = MaxAge /\ burst = <<>> /\ clean = FALSE
  /\ flaw = FALSE /\ lost = FALSE /\ dirty = FALSE /\ late = FALSE
  /\ lax = FALSE /\ retuned = FALSE

-----------------------------------------------------------------------------
(* The lines and the time.  Of every edge the history tells whether it     *)
(* keeps to the limits.                                                    *)

Calm == \A l \in Line : pend[l] = 0
High == \A l \in Line : level[l] = 1

\* A first pulse after more than the longest interval begins a burst.
Begins ==
  /\ since > lim.imax /\ since >= lim.imin
  /\ High /\ Calm /\ enabled /\ pc = "idle" /\ ~dirty

FallsWell(l) == level[1 - l] = 1 /\ Calm /\ since >= lim.imin /\ since <= lim.imax

RisesWell(l) == pend[l] = 0 /\ since >= lim.wmin /\ since <= lim.wmax

\* A pulse is over before the next one may begin; and before the frame is.
Apart == lim.wmax < lim.imin
Lax(limits) == limits.wmax > limits.imax

Edge(l) ==
  LET falls == level[l] = 1
      well == IF falls THEN FallsWell(l) ELSE RisesWell(l)
      bad == clean /\ ~well /\ Apart /\ Len(burst) < MaxBits
  IN /\ pend[l] < MaxPend
     /\ level' = [level EXCEPT ![l] = 1 - @]
     /\ pend' = [pend EXCEPT ![l] = IF l \in irqOn THEN @ + 1 ELSE @]
     /\ since' = IF falls THEN 0 ELSE since
     /\ IF falls /\ Begins
          THEN burst' = <<>> /\ clean' = TRUE /\ retuned' = Lax(lim) /\ UNCHANGED <<flaw, lost>>
          ELSE /\ clean' = (clean /\ well)
               /\ flaw' = (flaw \/ bad)
               /\ lost' = (lost /\ ~bad)
               /\ burst' = IF ~clean \/ ~well THEN <<>>
                           ELSE IF falls \/ Len(burst) > MaxBits THEN burst
                           ELSE Append(burst, IF Len(burst) < MaxBits THEN l ELSE None)
               /\ retuned' = (retuned /\ clean')
     /\ UNCHANGED <<held, irqOn, lim, enabled, decoder, noise, age, timer, reader, pc, nz,
                    stamp, dirty, late, lax>>

Later(t) == IF t < MaxAge THEN t + 1 ELSE t

Tick ==
  /\ Calm /\ timer # 0
  /\ age' = Later(age)
  /\ since' = Later(since)
  /\ timer' = IF timer \in 1 .. MaxAge THEN timer - 1 ELSE timer
  /\ UNCHANGED <<wiring, lim, enabled, decoder, noise, reader, pc, nz, stamp, burst, clean,
                 flaw, lost, dirty, late, lax, retuned>>

\* wiegandTimerHandler
TimerHandler ==
  /\ timer = 0
  /\ timer' = NoTimer
  /\ news' = (news \/ notifKn)
  /\ UNCHANGED <<wiring, lim, enabled, decoder, noise, age, notifKn, rd, pc, nz, stamp, wave,
                 flaw, lost, dirty, late, lax, retuned>>

-----------------------------------------------------------------------------
(* wiegandDataIrqHandler.                                                  *)

\* A line that has been given back reads 0.
IsLow(l) == l \notin held \/ level[l] = 0

\* A code set now is not the one that a read of the noise has loaded.
NoiseSet == noise' = TRUE /\ nz' = IF nz = "loaded" THEN "late" ELSE nz

\* goto noise, with wiegandReset
Noise ==
  /\ NoiseSet
  /\ enabled' = TRUE
  /\ data' = {} /\ bitCount' = 0 /\ activeLine' = None
  /\ wasLow' = [l \in Line |-> FALSE]
  /\ UNCHANGED <<age, timer>>

\* The interrupt came but the level is the one known: a fast pulse, noted
\* unless there is a code.
Same(l) ==
  /\ wasLow[l] = IsLow(l)
  /\ IF noise THEN UNCHANGED <<noise, nz>> ELSE NoiseSet
  /\ UNCHANGED <<enabled, decoder, age, timer>>

TooEarly == bitCount # 0 /\ age < lim.imin
Silence == bitCount # 0 /\ age > lim.imax

\* Mutant: the interval between pulses has no lower limit.
FallUnchecked(l) ==
  /\ IsLow(l) /\ ~wasLow[l]
  /\ \/ activeLine # None /\ Noise
     \/ /\ activeLine = None
        /\ activeLine' = l /\ age' = 0
        /\ wasLow' = [wasLow EXCEPT ![l] = TRUE]
        /\ data' = IF Silence THEN {} ELSE data
        /\ bitCount' = IF Silence THEN 0 ELSE bitCount
        /\ UNCHANGED <<enabled, noise, nz, timer>>

Fall(l) ==
  /\ IsLow(l) /\ ~wasLow[l]
  /\ \/ TooEarly /\ Noise
     \/ ~TooEarly /\ activeLine # None /\ Noise
     \/ /\ ~TooEarly /\ activeLine = None
        /\ activeLine' = l /\ age' = 0
        /\ wasLow' = [wasLow EXCEPT ![l] = TRUE]
        /\ data' = IF Silence THEN {} ELSE data
        /\ bitCount' = IF Silence THEN 0 ELSE bitCount
        /\ UNCHANGED <<enabled, noise, nz, timer>>

\* Mutant: one bit more than data has room for.
FullLate == bitCount > MaxBits

Full == bitCount >= MaxBits

\* data <<= 1, and data |= 1 for D1
Shifted(l) == (Places \cap {i + 1 : i \in data}) \cup (IF l = 1 THEN {0} ELSE {})

\* The timer fires just after imax has passed.  If it has passed already the
\* difference is negative, which hrtimer_start takes for an overflow: it sets
\* the timer to the end of time (on a 32-bit kernel, to four seconds).
Remaining == IF age <= lim.imax THEN lim.imax - age + 1 ELSE Far

\* Mutant: the timer fires while a read is still refused.
BitTimerShort(l) ==
  /\ data' = Shifted(l)
  /\ bitCount' = bitCount + 1
  /\ timer' = IF age <= lim.imax THEN lim.imax - age ELSE Far

\* Mutant: the bits come in from the other end.
BitReversed(l) ==
  /\ data' = data \cup (IF l = 1 THEN {bitCount} ELSE {})
  /\ bitCount' = bitCount + 1
  /\ timer' = Remaining

Bit(l) ==
  /\ data' = Shifted(l)
  /\ bitCount' = bitCount + 1
  /\ timer' = Remaining

Rise(l) ==
  /\ ~IsLow(l) /\ wasLow[l]
  /\ \/ activeLine # l /\ Noise
     \/ activeLine = l /\ ~Full /\ age < lim.wmin /\ Noise
     \/ activeLine = l /\ ~Full /\ age > lim.wmax /\ Noise
     \/ /\ activeLine = l
        /\ activeLine' = None
        /\ wasLow' = [wasLow EXCEPT ![l] = FALSE]
        /\ IF Full THEN UNCHANGED <<data, bitCount, timer>>
           ELSE age >= lim.wmin /\ age <= lim.wmax /\ Bit(l)
        /\ UNCHANGED <<enabled, noise, nz, age>>

Cancelled == {"put0", "put1", "unhook0", "unhook1", "off"}
HalfReset == {"bitCount", "activeLine", "low0", "low1"}

Stamps == activeLine' \notin {activeLine, None}
Alters == <<data', bitCount'>> # <<data, bitCount>>

\* What a read in progress gets.  It was to be refused (EBUSY), but a time
\* stamp later than its clock passes for one long ago: diff_usec wraps.
Tear(stamps) ==
  rd' = IF (stamps /\ rd \in {"early", "load"}) \/ (Alters /\ rd = "load") THEN "torn" ELSE rd

DataIrqHandler(l) ==
  /\ pend[l] > 0
  /\ pend' = [pend EXCEPT ![l] = 0]
  /\ IF enabled THEN Same(l) \/ Fall(l) \/ Rise(l)
                ELSE UNCHANGED <<enabled, decoder, noise, nz, age, timer>>
  /\ tsNew' = (tsNew \/ Stamps)
  /\ changed' = (~tsNew' /\ (changed \/ Alters))
  /\ Tear(Stamps)
  /\ late' = (late \/ pc \in Cancelled)
  /\ dirty' = (dirty \/ pc \in HalfReset)
  /\ UNCHANGED <<level, held, irqOn, lim, notifKn, news, pc, wave, flaw, lost, lax, retuned>>

-----------------------------------------------------------------------------
(* devAttrWiegandEnabled_store, one assignment or call at a time.  The     *)
(* history of a store: what is on the lines is not a burst seen from its   *)
(* start.                                                                  *)

Store(label) ==
  /\ pc = "idle"
  /\ pc' = label
  /\ clean' = FALSE /\ burst' = <<>> /\ retuned' = FALSE
  /\ UNCHANGED <<level, lim, decoder, age, reader, nz, stamp, since, flaw, lost, lax>>

Enable ==
  /\ ~enabled
  /\ Store("irq0")
  /\ held' = Line
  /\ dirty' = FALSE /\ late' = FALSE
  /\ UNCHANGED <<pend, irqOn, enabled, noise, timer>>

\* An interface that is enabled is reset.
EnableAgain ==
  /\ enabled
  /\ Store("noise")
  /\ dirty' = FALSE
  /\ UNCHANGED <<pend, held, irqOn, enabled, noise, timer, late>>

RequestIrq(l) ==
  /\ pc = (IF l = 0 THEN "irq0" ELSE "irq1")
  /\ irqOn' = irqOn \cup {l}
  /\ pc' = IF l = 0 THEN "irq1" ELSE "noise"
  /\ UNCHANGED <<level, pend, held, lim, enabled, decoder, noise, age, timer, reader, nz, stamp,
                 wave, flaw, lost, dirty, late, lax, retuned>>

Assign(label, next) ==
  /\ pc = label
  /\ pc' = next
  /\ UNCHANGED <<wiring, lim, age, timer, notifKn, news, nz, tsNew, wave, dirty, late, lax,
                 retuned>>

\* wiegandReset after the noise is cleared
Reset ==
  /\ \/ /\ Assign("noise", "enabled")
        /\ noise' = FALSE /\ flaw' = FALSE /\ lost' = FALSE
        /\ UNCHANGED <<enabled, decoder>>
     \/ /\ Assign("enabled", "data")
        /\ enabled' = TRUE
        /\ UNCHANGED <<decoder, noise, flaw, lost>>
     \/ /\ Assign("data", "bitCount")
        /\ data' = {}
        /\ UNCHANGED <<enabled, bitCount, activeLine, wasLow, noise, flaw, lost>>
     \/ /\ Assign("bitCount", "activeLine")
        /\ bitCount' = 0
        /\ UNCHANGED <<enabled, data, activeLine, wasLow, noise, flaw, lost>>
     \/ /\ Assign("activeLine", "low0")
        /\ activeLine' = None
        /\ UNCHANGED <<enabled, data, bitCount, wasLow, noise, flaw, lost>>
     \/ \E l \in Line :
          /\ IF l = 0 THEN Assign("low0", "low1") ELSE Assign("low1", "idle")
          /\ wasLow' = [wasLow EXCEPT ![l] = FALSE]
          /\ UNCHANGED <<enabled, data, bitCount, activeLine, noise, flaw, lost>>
  /\ changed' = (~tsNew /\ (changed \/ Alters))
  /\ Tear(FALSE)

\* Mutant: wiegandDisable forgets the timer.
DisableOnly ==
  /\ enabled
  /\ Store("put0")
  /\ late' = FALSE
  /\ UNCHANGED <<pend, held, irqOn, enabled, noise, timer, dirty>>

\* wiegandDisable, to hrtimer_cancel
Disable ==
  /\ enabled
  /\ Store("put0")
  /\ timer' = NoTimer
  /\ late' = FALSE
  /\ UNCHANGED <<pend, held, irqOn, enabled, noise, dirty>>

DisablePut(l) ==
  /\ pc = (IF l = 0 THEN "put0" ELSE "put1")
  /\ held' = held \ {l}
  /\ pc' = IF l = 0 THEN "put1" ELSE "unhook0"
  /\ UNCHANGED <<level, pend, irqOn, lim, enabled, decoder, noise, age, timer, reader, nz, stamp,
                 wave, flaw, lost, dirty, late, lax, retuned>>

\* free_irq: a handler that is due may have run before, or never runs.
DisableUnhook(l) ==
  /\ pc = (IF l = 0 THEN "unhook0" ELSE "unhook1")
  /\ irqOn' = irqOn \ {l}
  /\ pend' = [pend EXCEPT ![l] = 0]
  /\ pc' = IF l = 0 THEN "unhook1" ELSE "off"
  /\ UNCHANGED <<level, held, lim, enabled, decoder, noise, age, timer, reader, nz, stamp,
                 wave, flaw, lost, dirty, late, lax, retuned>>

DisableOff ==
  /\ pc = "off"
  /\ pc' = "idle"
  /\ enabled' = FALSE
  /\ UNCHANGED <<wiring, lim, decoder, noise, age, timer, reader, nz, stamp,
                 wave, flaw, lost, dirty, late, lax, retuned>>

-----------------------------------------------------------------------------
(* The stores of the limits and the reads.                                 *)

\* devAttrWiegandPulseWidthMin_store and the three like it; not in the moment
\* an edge waits for its handler.
LimitStore ==
  /\ Calm
  /\ \/ \E v \in WidthMin : lim' = [lim EXCEPT !.wmin = v]
     \/ \E v \in WidthMax : lim' = [lim EXCEPT !.wmax = v]
     \/ \E v \in IntervalMin : lim' = [lim EXCEPT !.imin = v]
     \/ \E v \in IntervalMax : lim' = [lim EXCEPT !.imax = v]
  /\ lim' # lim
  /\ lax' = (lax \/ (lim'.wmax > lim.wmax /\ (rd = "load" \/ ~tsNew)))
  /\ retuned' = (clean /\ (retuned \/ Lax(lim') \/ lim'.imax # lim.imax))
  /\ UNCHANGED <<wiring, enabled, decoder, noise, age, timer, reader, pc, nz, stamp, wave,
                 flaw, lost, dirty, late>>

\* Mutant: a frame is shown before it is over.
ReadableSoon == age >= 0

Readable == age > lim.imax

\* devAttrWiegandData_show: sysfs has noted before it that the reader knows of
\* the notifications so far; it returns ENODEV, or goes on.
DataOpen ==
  /\ "data" \in Reads /\ rd = "idle"
  /\ news' = FALSE
  /\ rd' = IF ~enabled THEN "idle" ELSE IF notifKn THEN "clock" ELSE "register"
  /\ UNCHANGED <<wiring, lim, enabled, decoder, noise, age, timer, notifKn, pc, nz, stamp, wave,
                 flaw, lost, dirty, late, lax, retuned>>

DataRegister ==
  /\ rd = "register"
  /\ notifKn' = TRUE
  /\ rd' = "clock"
  /\ UNCHANGED <<wiring, lim, enabled, decoder, noise, age, timer, news, pc, nz, stamp, wave,
                 flaw, lost, dirty, late, lax, retuned>>

\* ktime_get_raw_ts64; the difference is taken in the next step.
DataClock ==
  /\ rd = "clock"
  /\ rd' = IF Readable THEN "load" ELSE "early"
  /\ lax' = IF Readable THEN Lax(lim) ELSE lax
  /\ UNCHANGED <<wiring, lim, enabled, decoder, noise, age, timer, notifKn, news, pc, nz, stamp,
                 wave, flaw, lost, dirty, late, retuned>>

\* EBUSY, or what was loaded, all of one frame or not.
DataReturn ==
  /\ rd \in {"early", "load", "torn"}
  /\ rd' = "idle"
  /\ tsNew' = IF rd = "early" THEN tsNew ELSE rd = "torn"
  /\ changed' = (rd = "early" /\ changed)
  /\ UNCHANGED <<wiring, lim, enabled, decoder, noise, age, timer, notifKn, news, pc, nz, wave,
                 flaw, lost, dirty, late, lax, retuned>>

\* devAttrWiegandNoise_show: the code is loaded, then cleared.
NoiseLoad ==
  /\ "noise" \in Reads /\ nz = "idle"
  /\ nz' = "loaded"
  /\ UNCHANGED <<wiring, lim, enabled, decoder, noise, age, timer, reader, pc, stamp, wave, flaw,
                 lost, dirty, late, lax, retuned>>

NoiseClear ==
  /\ nz # "idle"
  /\ nz' = "idle"
  /\ noise' = FALSE
  /\ lost' = (nz = "late")
  /\ flaw' = (flaw /\ nz = "late")
  /\ UNCHANGED <<wiring, lim, enabled, decoder, age, timer, reader, pc, stamp, wave, dirty, late,
                 lax, retuned>>

-----------------------------------------------------------------------------
Next ==
  \/ \E l \in Line : Edge(l) \/ DataIrqHandler(l) \/ RequestIrq(l) \/ DisablePut(l) \/ DisableUnhook(l)
  \/ Tick \/ TimerHandler
  \/ Enable \/ EnableAgain \/ Reset \/ Disable \/ DisableOff
  \/ LimitStore
  \/ DataOpen \/ DataRegister \/ DataClock \/ DataReturn
  \/ NoiseLoad \/ NoiseClear

Spec == Init /\ [][Next]_vars

-----------------------------------------------------------------------------
PC == {"idle", "irq0", "irq1", "noise", "enabled", "data", "bitCount", "activeLine", "low0", "low1",
       "put0", "put1", "unhook0", "unhook1", "off"}

\* The types: bitCount never passes WIEGAND_MAX_BITS, data has no more bits.
TypeOK ==
  /\ level \in [Line -> {0, 1}] /\ pend \in [Line -> 0 .. 2]
  /\ held \subseteq Line /\ irqOn \subseteq Line
  /\ lim \in [wmin : WidthMin, wmax : WidthMax, imin : IntervalMin, imax : IntervalMax]
  /\ enabled \in BOOLEAN /\ bitCount \in 0 .. MaxBits /\ data \subseteq Places
  /\ activeLine \in Line \cup {None} /\ wasLow \in [Line -> BOOLEAN]
  /\ noise \in BOOLEAN
  /\ age \in 0 .. MaxAge /\ since \in 0 .. MaxAge /\ timer \in NoTimer .. Far
  /\ pc \in PC /\ nz \in {"idle", "loaded", "late"}
  /\ rd \in {"idle", "register", "clock", "early", "load", "torn"}

\* The bits of a word, first bit highest.
IsValue(bits, word) ==
  LET k == IF Len(bits) < MaxBits THEN Len(bits) ELSE MaxBits
  IN  \A i \in Places : i \in word <=> i < k /\ bits[k - i] = 1

\* README, w<N>_data: bits "reports the number of bits received (max 64)",
\* data "is the sequence of bits received": when a frame may be read, a burst
\* of good pulses is there bit by bit, whatever was on the lines, was read or
\* was stored before it.  (A read gets it as it is unless a handler comes in.)
DecodedRight ==
  (enabled /\ Readable /\ pc = "idle" /\ clean /\ burst # <<>> /\ Calm /\ High) =>
    /\ bitCount = IF Len(burst) < MaxBits THEN Len(burst) ELSE MaxBits
    /\ IsValue(burst, data)

\* README, w<N>_data: the timestamp serves "to discern newly available data
\* from the previous one": what is there under the timestamp that was shown is
\* the bits that were shown, or none after a reset.  Excepted are a read that
\* an edge handler came into (torn: it may have shown anything), and a pulse
\* that may last longer than the interval after which the frame was shown
\* (lax: wiegand.c:314-436 store any limits).
TimestampTells ==
  (enabled /\ Readable /\ pc = "idle" /\ rd = "idle" /\ ~tsNew /\ ~lax /\ bitCount # 0)
    => ~changed

\* An edge that makes a burst irregular, be it too early, too late or on the
\* wrong line, leaves a noise code until the noise is read or reset, as long as
\* a pulse is to end before the next one may begin (Apart).  Excepted is a code
\* that is set between the load and the clear of a read (wiegand.c:307-309):
\* it is cleared and nobody has read it (lost).
NoiseReported ==
  (flaw /\ ~lost /\ Calm /\ enabled /\ pc = "idle") => noise

\* Once a burst of no more than WIEGAND_MAX_BITS good pulses is over, whoever
\* polls has been shown it, or has been told after its last read.  Excepted
\* (retuned) are a pulse that may last longer than the longest interval, which
\* starts the timer with a time gone by, and a change of that interval.
PollerInformed ==
  (notifKn /\ enabled /\ pc = "idle" /\ rd = "idle" /\ clean /\ burst # <<>>
     /\ Len(burst) <= MaxBits /\ ~retuned /\ Calm /\ High /\ age > lim.imax /\ timer # 0)
    => news \/ (~tsNew /\ ~changed)

\* wiegandDisable cancels the timer before it frees the interrupts: only an
\* edge handled in between leaves a timer running.
DisabledQuiet == (~enabled /\ pc = "idle") => (timer = NoTimer \/ late)
=============================================================================
