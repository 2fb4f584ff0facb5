# Iono Pi Max kernel module: verification

TLA+ models of the Iono Pi Max driver (`src/module.c` and `src/commons/`), the
TLC runs that check them on small instances and the TLAPS proofs of the
properties that matter most.

## The system

The driver exposes an Iono Pi Max (a Raspberry Pi carrier with an MCU, GPIO
lines and a secure element) as files under `/sys/class/ionopimax/`. Reading or
writing a file runs a show or store function in the calling process; any number
of processes may be inside the driver at once. There is one lock, for the I2C
bus. Everything else is shared without one, with interrupt handlers and timer
callbacks that run on other processors.

| Component | State | Operations | Hard part |
|---|---|---|---|
| I2C register access (`module.c:3861-4062`) | client pointer, `update_lock`, the MCU's registers | lock by 20 trylocks, framed or bare transfers with three attempts, read-modify-write with read-back | concurrent stores to fields of one register; transfers lost, repeated, altered; failures that must unlock |
| Firmware version cache (`4388-4412`) | `fwVerMajor`, `fwVerMinor` | read at probe and on every read of `fw_version`, consulted by every transfer | read three times during a transfer, assigned without the lock |
| I2C attribute tables and codecs (`248-3834`, `4064-4386`, `4495-4671`) | none of their own | about 130 files, each a field of a register, with numeric, enumerated and hand-packed encodings | fields sharing registers, values that do not fit, encodings that must invert each other |
| Analog input modes (`4163-4260`) | two registers per input | enable bit, then mode | two writes that can fail or interleave |
| MCU configuration, raw access (`4414-4493`) | registers 5 and 6, `mcuI2cReadVal` | command and poll, raw read and write | answers of other processes' commands |
| Debounced inputs (`commons/gpio/gpio.c:65-170, 348-449`) | `value`, debounce times, counters, timer, descriptor, `notifKn` | edge interrupt, timer callback, stores of the times, pollable show, set-up, teardown | interrupt, callback and stores on different processors |
| GPIO lines, DT modes (`gpio.c:172-333`) | descriptor, direction, owner | mode, value, flip, blink | ownership shared with Wiegand, no lock |
| Wiegand receiver (`commons/wiegand/wiegand.c`) | bits so far, active line, noise, timer | interrupts of two lines, enable, disable, show | two interrupts, timing limits, failure half way through enabling |
| Secure element (`commons/atecc/atecc.c`) | serial number | register a driver, let it probe, remove it, in a show | concurrent shows |
| Lifecycle (`4673-4932`) | class, devices, files, I2C driver, static pointers | init, cleanup, exit, remove | undoing half of an init, removal while files are open, pointers of an earlier bind |

Components meet in three places: every I2C file goes through register access
and so through the version cache; the files of one register meet in it, across
devices (fan, expansion bus, power output and pull-down share register 137);
the DT lines are shared between the DT files and the Wiegand receivers. Init and
cleanup surround everything: the files decide who can call, the lines and the
I2C driver what the calls find.

What makes each correct: register access must let a store change its own field
only, tell the truth about it, and always release the lock; the codecs must show
what was stored; a debounced input must end at the level of the line, adopt only
stable levels, count every change once, tell a poller, and leave nothing running
when it is freed; a DT line must have one owner; a Wiegand frame must be the bits
that came, or noise.

## Modules

| Module | Models | Role |
|---|---|---|
| `RegisterBank` | what the I2C attributes promise | abstract specification |
| `I2cBus` | register access, version cache, probe | detailed model; implements `RegisterBank` |
| `I2cBusProofs` | | theorems about `I2cBus` |
| `I2cBusRefinement` | | theorem: `I2cBus` implements `RegisterBank` |
| `MCI2cBus` | | instances of `I2cBus` |
| `AttrTables` | the tables of `devices[]` | constant definitions |
| `Attributes` | show and store functions over the tables | detailed model on a field-atomic bus |
| `AttributesProofs` | | theorems about `Attributes` |
| `MCAttributes` | | instance of `Attributes` |
| `Debounce` | a `DebouncedGpioBean` | detailed model |
| `DebounceProofs` | | theorems about `Debounce` |
| `MCDebounce` | | instances of `Debounce` |
| `LineOwners` | what mode files and Wiegand interfaces promise each other about the DT lines | abstract specification |
| `DtLines` | the DT lines, between mode files, Wiegand interfaces and cleanup | detailed model; implements `LineOwners` |
| `DtLinesProofs` | | theorems about `DtLines` |
| `DtLinesRefinement` | | theorem: `DtLines` implements `LineOwners` |
| `MCDtLines` | | instances of `DtLines` |
| `Wiegand` | one Wiegand interface on lines of its own | detailed model, against every wave |
| `WiegandProofs` | | theorems about `Wiegand` |
| `MCWiegand` | | instances of `Wiegand` |
| `Driver` | init, cleanup, exit and the processes in the files | detailed model |
| `DriverProofs` | | theorems about `Driver` |
| `MCDriver` | | instance of `Driver` |

Operators whose comment begins with "Mutant" are plausible bugs, one for each
property: with one put in place of the definition after it the property fails.

### I2cBus

A thread is a process inside a show or store function; `pc` is where it is. One
action is one step between two points where somebody else may act: a trylock
(`LockTaken`, `LockBusy`, `LockRefused`), the test of the version that sizes a
transfer (`ReadBegin`, `WriteBegin`), an attempt of a transfer (`ReadAccepted`,
`ReadRejected`, `WriteAcked`, `WriteFailed`), the test that strips the check byte
with the decision that follows (`ReadEnd`), the unlock, the assignment of the
version after the lock has been released (`AssignVersion`).

A register is the set of its bits that are 1, so masks and merges are set
operations. The version register is reduced to the answer to "at least 1.4?".
The two assignments of `fwVerMajor` and `fwVerMinor` are one step: from 0.0, and
between equal versions, the half-assigned pair gives no third answer. The bus
may refuse any attempt, a write attempt may leave the register changed or not
whatever it reports, and, when `Corruption` is set, a transfer without check
byte may carry anything. The check byte is taken to detect every alteration.

The MCU is external: a masked register takes the bits its second byte selects,
any other takes the word, and `Volatile` registers change by themselves. No
`Volatile` register has a writable field. A command that restores the factory
configuration rewrites the others; that is not modelled.

### RegisterBank and the refinement

A call is open until its fate is decided and then closed. Only an open call
touches the bank and only its field; a store that closes with success has its
value in the bank at that moment; a show returns a value its field has at that
moment. A call of `I2cBus` is decided when its last transfer is accepted, when
it gives up or when the lock is refused (`Decided`); what it will return is then
already determined (`BankOutcome`, `BankResult`).

### AttrTables and Attributes

`AttrTables` transcribes each table as a function from attribute names to
entries, so that a repeated pattern (five LEDs, four relays) is one expression in
its index. `Attributes` has one operator for each show and store function. A
store is turned into the field writes it makes; they happen in order, and the
call may fail at any of them. Texts are numbers, strings of the
`VALS_` arrays and, for the serial parameters, tuples; parsing is not modelled
beyond what it accepts. The texts tried are the ones the driver's README
documents and, for numbers, some it does not (negative, too large for the field,
too large for the register).

Up to `MaxOpen` stores overlap. Of the stores only that of an analog mode has
two writes (enable, then mode): `Store` makes the first, `StoreGoesOn` the second,
and other stores, to the same attribute too, come between. `last` of an attribute
is the set of texts that a show may return: those of the stores in progress and of
the ones that were in progress together, so that stores that overlap may end in
either order but not in a mixture. A store of one write that fails has been made
or has changed nothing, which is no step of its own. A failed store of an analog
mode may leave the enable bit and the mode of two texts (`StoreFails`,
`StoreGoesOnFails`); no document says what it should leave, so that the mode it
then has is taken for the one it may show (`ModeLost`), until the next store.

The MCU changes registers by itself. Two such changes are in the driver's README
and are steps here, external ones: an output develops a fault or loses it
(`Fault`; `README.md:146-152`, where `F` and `S` are the two states with a fault),
and `watchdog/sd_switch` is set while `watchdog/enable_mode` is `D` (`SwitchSet`;
`README.md:224`). `ShownAsStored` is about the state of an output, its fault left
out (`State`), and takes what the MCU stores for a store like any other. A raw
write (`mcu/i2c_write`) and a restored configuration change any register; they
are outside this module.

All attributes but the analog inputs are fields of one register (`ShowSingle`,
`StoreSingle`). Four facts about the tables are assumptions that TLC evaluates in
full, since they are about constants: no two attributes that can be stored share a
bit (`CellsDisjoint`), a store writes where the show reads, inside the word
(`EntriesFit`), every documented text is read back after it was stored to
registers that were empty (`RoundTrip`), and what the MCU stores to `sd_switch` is
a documented text (`SwitchFits`). The signed readings are modelled
(`SignExtended`) and compared with nothing: they are read only, and nothing in the
repository says what they should be.

The bus under `Attributes` is the field-atomic bank, which is what the
refinement above shows `I2cBus` to be, and a behaviour is about one group of
registers: no attribute has bits in two groups.

### Debounce

The bean's fields are variables of the same names; `min` and `cnt` are indexed by
level. Actors are the interrupt handler, the task that binds and unbinds the
driver and the processes in a store; each runs `debounceTimerRestart` as
`Sample`, `Cancel`, `Start`. The callback is `CbSample`, `CbUpdate`, `CbCount`,
`CbNotify`: sampling, comparing and setting, writing the counter back, and
notifying are separate because a store on another processor may come between.
`hrtimer_cancel` waits for a running callback, `free_irq` for a running handler,
and the removal of the files for the calls in progress.

`Smp` tells whether handler and callback may overlap anything. Nothing is assumed
of how soon an interrupt is handled or an expired timer runs.

`MinStable` is for every adoption of a level, also the first one after a store,
and with the time in force for that level. The code breaks it in two cases, which
the property excepts and names. `Overtaken`: an edge or a store comes between the
expiry of the timer and the sample of the callback, which samples the line as it
is then. `stale`: `debounceTimerRestart` reads the line and its time before it
cancels and starts the timer; when an edge or another store comes in between, its
own restart comes first, and a store then starts the timer again with the time of
the old level. If that is the shorter one the new level is adopted early.

The bean outlives the driver's unbinding and only `notifKn` is not set anew: a
second bind begins with the node of the first. The module is about the first.

### DtLines

An agent is a process inside a store of `dt<n>_mode` or `w<N>_enabled`, or the task
that unbinds the driver. Each reads and writes `owner`, `desc`, `flags` and
`irqRequested` in the order of the code, one action for each step between which
another process may come. Either request may be refused (`MayFail`). `requested`
is how gpiolib has given the line out; with it the bean's fields are compared.

`LineOwners` is the contract between the users: a line has one holder at a time and
goes to the next one by way of nobody; an interface takes both its lines in one
step and gives them up in one; a line leaves its holder only after the kernel has
it back. Owners and requests of `DtLines` are its variables; that the test of the
owners and their claim, two steps of the code, may count as one is what `OwnersSpec`
says.

There is no lock, and the kernel serialises the calls on one open file only, so
that the calls in `DtLines` overlap as they please. Two calls on one line may both
pass the test of its owner (`gpio.c:214`, `wiegand.c:208`) before either sets it
(`gpio.c:234`, `wiegand.c:211-212`), and of that line nothing is true afterwards:
an enabled interface may be without its lines, a line requested without an owner,
and one left requested after cleanup. `contended` collects the lines of every two
calls that were under way on one line at a time. The properties except these
lines, for good, and show that the damage stays there: a contended line may be
the neighbour of one that is not, an interface may have one of each, and mode files
and interfaces go on to use all of them. In `LineOwners` such a line is `Lost`.
`gpioInit` and `gpioFree` are one step each; only a call that meets another could
tell.

`spoiled` marks the lines of an enable that failed: the error path calls
`wiegandDisable`, which returns at once because `enabled` is still false, so that
owner, line and first interrupt stay. The properties say what is true
nevertheless. What `flags`, `owner` and `enabled` hold when the driver is bound
again is not modelled.

### Wiegand

The wave on the two lines is arbitrary: each line may change in any tick. The
handler runs in the tick of the edge, but an edge may be followed by another
before it does (`pend`, up to `MaxPend`; a third one, which nothing could tell
from one, does not come). `since`, `burst`, `clean` and `flaw` remember what came,
independently of the decoder; the properties compare the two. `data` is the set of
the places of its ones, so that `data <<= 1` moves every place by one (`Shifted`).

Stores and reads take no lock and an interrupt may come between any two of their
assignments and loads. The stores of `w<N>_enabled` are split at each assignment
(`Reset`, `DisablePut`, `DisableUnhook`). A read of `w<N>_data` notes the
notifications so far (`DataOpen`), registers itself (`DataRegister`), takes the
clock (`DataClock`) and returns (`DataReturn`); a handler that comes in between is
noted in `rd`, as what the read returns is then anything: it may be a mixture of two
frames, and a time stamp later than the clock makes the unsigned age of the frame
so large that the read is not refused. A read of `w<N>_noise` loads the code
(`NoiseLoad`) and clears it (`NoiseClear`). The limits may be stored in any order
of size. When a pulse may be longer than the interval the timer is started with a
time that has gone by; the unsigned difference wraps and the timer is set to the
end of time (`Remaining`, `Far`). A limit is stored when no edge waits for its
handler (`Calm`), since the history judges an edge when it comes.

What the properties exclude, each by a history variable, is what the code does
not promise.

| Excepted | What has happened |
|---|---|
| `dirty` | an interrupt between the assignments of a re-enable has left a bit or an active line of before |
| `late` | an edge was handled after `hrtimer_cancel` and before `free_irq`, and has started the timer of a disabled interface |
| `torn` | a handler came into a read of the frame: that read is excepted, not the next one |
| `lost` | a noise code was set between the load and the clear of a read, which nobody has read |
| `lax` | a pulse may last longer than the interval after which the frame was shown |
| `retuned` | the same during a burst, or the longest interval was changed in it |

`NoiseReported` is about edges that come while a pulse is over before the next one
may begin (`Apart`); otherwise the same edge is good and bad. After a reset by
noise the rest of a malformed burst is decoded as a frame of its own; noise is
reported once. Beyond 64 bits (`MaxBits`) the widths are not checked and the timer
is not started again. Two handlers are taken not to overlap, since the lines belong
to one chip.

### Driver

`next` is the index of the loop that init or cleanup is in. Each request of init
is an action, with an action for its failure, and every failure goes to the one
`cleanup` that `ionopimax_exit` calls. `desc`, `pDeviceClass` and `pDevice` are the
static pointers, which survive into the next bind; `class`, `devices` and `files`
are what the kernel has. `device_destroy` finds a device by its number, and all of
them have number 0: the first one created goes. Processes enter a file as soon
as it exists (`Open`) and removal waits for those inside.

`misused` says that cleanup has passed a pointer to nothing, after which nothing
is modelled. It happens in two ways, which `CleanupValid` names: when
`class_create` fails its error pointer goes to `device_destroy`, and when a bind
that is not the first one fails, `pDevice` and `pDeviceClass` are those of the bind
before. `i2c_add_driver`'s result is ignored, so the files exist without a chip;
then every I2C call finds no client. A probe that never comes leaves the client
of an earlier bind (`unprobed`). `cleanup` deletes the I2C driver before the files,
so that a call may find the client without its data: `ClientHasData` says that it
is only then.

## Runs

| Run | Shows | Bounds |
|---|---|---|
| `i2c_bus` | types, mutual exclusion (`LockInv`), a version that stays (`VersionKnown`), freshness (`RmwFresh`), isolation (`FieldIsolation`) and refinement (`BankSpec`) for two fields of one register, also written raw | 2 threads, 2 one-bit fields, 2 trylocks, 2 attempts, altering bus |
| `i2c_relay` | isolation and refinement for masked registers and for an input that changes while it is shown | 2 threads, 1 trylock, 2 attempts |
| `i2c_probe` | every call returns (`CallsReturn`), step by step (`CallsAdvance`), while the chip is probed | 2 threads, 2 trylocks, 2 attempts |
| `i2c_version` | violated: CRC is not always used when supported | the same, with an altering bus |
| `attributes` | `ShownAsStored` over all registers, with overlapping and failing stores, faults of outputs and the MCU setting `sd_switch` | 2 stores at a time, the ends of the ranges, MCU registers all 0 or all 1 |
| `debounce` | `NoLostEdge`, `PollerInformed`, `QuietAfterFree`, `CountsAlternate`, `MinStable`, `Settles` on two processors | 2 edges, 1 store of either time, which becomes 0 ticks from 1, 1 poller, teardown |
| `debounce_reset` | violated: a store does not always reset the counters on two processors | 3 edges, 1 store |
| `dt_lines` | `LinesAccounted`, `EnabledHolds`, `UnboundFree` and refinement (`OwnersSpec`) with calls that meet on a line, requests that fail and the driver unbound at any moment | 1 interface and its 2 lines, 2 processes |
| `dt_mode` | violated: a line that was given back is shown as an input | 2 interfaces, 4 lines, 1 process, nothing fails |
| `wiegand` | `DecodedRight`, `NoiseReported`, `DisabledQuiet` for every wave and every order of stores and reads of the noise | frames of 2 bits, pulses of 1 tick, intervals of 2, times up to 3, 2 edges in one interrupt |
| `wiegand_read` | `PollerInformed`, `TimestampTells` with reads of the frame and pulses that may be longer than the interval | frames of 1 bit, pulses of 0 or, when that limit is stored, up to 1 tick, intervals of 0, times up to 2, 1 edge in one interrupt |
| `driver` | `NothingLeft`, `CleanupValid`, `FilesServed`, `ClientHasData`, `EndsUnbound` with init failing anywhere | 4 lines, 4 devices of 2 files, 2 processes, 3 binds |

Why the bounds are enough. Two threads show every interference on a register: a
third adds another thread that waits for the same lock, and the proofs are for any
number. Two bits are one field and everything else in the register. Two attempts
are a failed one and a last one; one trylock is a refusal, two a wait first. Two
edges are a level that goes and comes back, so that the timer is started for one
level and samples the other; the times before and after the store, 1 and 0, are a
level that has to last and one that need not, and with them a store that restarts
the timer for the wrong level is seen. Two lines are an interface, and two
processes two calls that meet on one of them or on both, or work on one each, so
that the interface can have one line that is contended and one that is not; a
second interface beside it needs more states than a run has time for and is left
to the proofs, which are for any lines, interfaces and processes. `MaxBits` is 2
or 1 instead of 64: an empty, a started and a full frame, and the bits beyond it;
the ticks are the smallest in which a pulse and an interval can be short, right
and long, and past `MaxAge` no time is told from another. The run `wiegand` has
limits that keep pulse and interval apart; in `wiegand_read` one is stored that
does not, and the timer wraps. Both files are not read in one run, since neither
read changes what the other depends on; for the same reason `wiegand_read` has a
`VIEW` without the noise code and its histories, which decide no step of the
variables that are left. The limit that changes in the runs is the longest width;
the proofs are for every order of stores of all four. Three binds are one, one
with the pointers of the first, and one with those of a bind that had stale ones
itself; a failure in the middle of the devices and of the files needs two of each.
`SYMMETRY` exchanges the two threads in the safety runs of `I2cBus`, where none of
them probes, and the two processes of `dt_lines`. Deadlock is checked wherever the
model cannot stop. `Attributes` has groups of read-only registers, in which
nothing happens, `Debounce` ends when its edges and stores are used up, `DtLines`
when the driver is unbound and `Driver` when its binds are, so it is off for
these.

Fairness. `CallsReturn` assumes that a process inside the driver keeps running
(`Fairness` in `I2cBus`): it sleeps for bounded times and the bus adapter ends
every transfer. It assumes nothing about success, so the mutex may be busy at
every attempt. `Settles` assumes that time passes, interrupts are delivered,
expired timers run and stores make progress. `EndsUnbound` assumes that init and
cleanup go on and that a call that was begun returns, which `CallsReturn` shows
for those on the bus; without it the removal of a file waits for ever. None
assumes that anybody makes a call, that an edge comes or that the driver is bound
or unbound.

### What the violations show

* `i2c_version`: `getFwVersion` reads the version before the driver knows that
  it could be checked. An altered minor version makes it work without CRC on a
  firmware that has it, until `fw_version` is read again.
* `debounce_reset`: the callback's `onCnt++` overlaps a store's reset on another
  processor and writes the old count plus one back. On one processor the reset
  holds (theorem `ResetsOnOneProcessor`).
* `dt_mode`: `wiegandDisable` gives the lines back and clears their owner but
  leaves `flags`, and `dt<n>_mode` shows `in` for a line that, by `README.md:158-160`,
  should be `x`.

Four more disagreements have no run of their own: the properties of passing runs
except them by a history variable, and fail when the exception is taken away.

* `wiegand.c:208` (`contended`): two stores at once both find a DT line free, and
  an interface stays enabled without its lines.
* `gpio.c:68` (`stale`, `Overtaken`): a level is adopted before its debounce time
  has passed.
* `wiegand.c:309` (`lost`): a noise code is cleared and was never read.
* `wiegand.c:295` (`torn`): a read of a frame is a mixture of two, or is not
  refused in the middle of one.

## Proofs

Run `tlapm` on `I2cBusProofs`, `I2cBusRefinement`, `AttributesProofs`,
`DebounceProofs`, `DtLinesProofs`, `DtLinesRefinement`, `WiegandProofs` and
`DriverProofs`. Every invariant and every action property that a passing run checks
is stated by a theorem, and so are both refinements.

`I2cBusProofs` is for any threads, registers, fields and attempts, and in three
parts. With or without a chip the types hold, and `CallsAdvance`: each step of a call
brings it nearer to its end (`StepsLeft`) or spends one of its attempts, and no step
of anybody else sets it back. That is the safety half of `CallsReturn`; the other
half, that the steps are taken, is fairness. Once the chip has been probed
`LockInv` holds, on any bus and with any firmware: it needs no more than that the
client stays (`Excluded`). During a probe it does not hold, since a probe renews the
mutex and one that fails withdraws the client between a lock and its unlock. The
rest assumes `Settled`: the version has been read right and, if the bus may alter
transfers, the firmware checks them. Under it `VersionKnown`, `RmwFresh` and
`FieldIsolation` hold. `RmwFresh` is not inductive. Its strengthening `Inv` says where fresh
words come from: the lock excludes (`LockInv`), a read that was merged is still
the register's content (`ReadFresh`), the version never changes so that check
bytes are added and taken off consistently (`VersionKnown`, `FwRegOK`, `Framing`,
`VersionBuf`), and a word about to be sent differs from the register in its own
field only (`WordOK`). `FieldIsolation` follows from `WordOK` at the only two
steps that change a register on behalf of a call.

`I2cBusRefinement` proves, under the same assumption, that `I2cBus` implements
`RegisterBank` (`BankSpec`). A step of a thread moves the refined variables of that
thread only (`Moves`, `Mapped`). A call that goes on has not failed, and what is
compared after a write is what was asked for (`Linked`); with `Inv` that makes each
step an open, an update, a close, both at once, a reply or a drift of the bank, or
a stutter, and there is one lemma for each of these. The runs show `BankSpec` for
two threads, the theorem for any number of them, of registers and of attempts.

`AttributesProofs` divides the work with TLC, which decides what is finite: the four
facts about the tables. From these the theorems follow for any groups of registers,
any contents, any numbers stored and any number of overlapping stores. A show
depends on the cells of its attribute only (`ShowAlike`, and `StateAlike` without
the fault of an output), a write stays in them (`WritesOwn`), so that the other
attributes keep what they show (`LandOthers`, `OneStore`); and what a single write
leaves in the cells does not depend on what was there (`LandAlike`), so that what
TLC has found for empty registers holds for all (`SingleShown`). A fault changes a
bit that no state depends on (`FaultKeeps`), and the MCU's own store is a store
(`SwitchKeeps`). An analog mode has two writes and its own part of the invariant
(`ModeOpen`): while its store is open its text is among those it may show, and its
enable bit is off only if `0` was stored meanwhile. That is what makes overlapping
stores of one mode end as one of them.

`DebounceProofs` assumes nothing beyond the constants' types, but for one theorem
named below. `NoLostEdge` is
strengthened by `Coming`: if no sample is ahead, the callback that is about to
compare holds the line's present level, or else the value does already. `Torn`
says what each step of the teardown has undone and gives `QuietAfterFree`.
`CountsAlternate` follows from `Counting`, which also describes the moment
between setting the value and writing the counter. `PollerInformed` follows from
`Informing`: a poller that is about to sleep has seen the value or is about to be
told. `MinStable` follows from `Aging`: as long as nobody restarts the timer and it
was not started with too short a time, the timer and the age of the level make up
the time in force for it, also while a store changes that time, since the store
then restarts the timer. `ResetClears` is what needs one processor (`~Smp`): then a
counter the latest store has cleared holds no more than what was counted since it
began (`Cleared`).

`DtLinesProofs` assumes nothing of how calls overlap. Calls that meet have the lines
they use contended (`Apart`), so that a call on a line that is not contended is the
only one there. The invariant says what each call may rely on at each of its steps
(`AgentInv`, one formula for the mode store, the enable and the disable) and what
is left of a line or an interface that no call is on (`LineRest`, `BeanRest`), of the
lines that are not contended and the interfaces that have such a line (`Fine`). A
step touches only the lines and the interface of its own call (`Local`); the lemma
`Others` says that all calls that have not met it then keep what they rely on, and
is used once for each step. The unbinding first waits for the calls to leave
(`DriverInv`) and then is alone.

`DtLinesRefinement` proves from the same invariant that `DtLines` implements
`LineOwners` (`OwnersSpec`). The abstract variables are the owners and requests
themselves, and `Lost` for a contended line. What has to be shown is that each step
finds the lines that are left as the contract requires it: free at the claim, which
the code tested a step before; back from the kernel when an owner is cleared; and,
in cleanup, with an owner for every line that is taken back.

`WiegandProofs` is for limits in any order of size. The pulses are followed through
their phases: of a burst that keeps to the limits the decoder is at rest, has a fall
or a rise before it, or waits for the rise, and has counted all the bits but that one
(`Followed`); and `data` holds the bits it has counted, the first one highest
(`Decoded`), from which `DecodedRight` follows. That is an invariant of steps and
needs no induction over bits, because a word is the set of the places of its ones
and a shift moves every place by one. The first edge that breaks the limits then
leaves one of five situations in which a line is `Doomed`: whatever edges, handlers,
stores and reads follow, the handler of that line leaves a noise code or dooms the
other line. `Doomed` is kept until then, and gives `NoiseReported` (`Caught`), with
the load of a read told from its clear. `PollerInformed` follows from the timer of
the last bit and the age of its pulse, which make up the longest interval
(`Informing`): a burst in which the timer may wrap is `retuned`. `TimestampTells`
follows from the fact that a pulse that began before a read took the clock is too
long when it ends, but for `lax` (`Stamped`); `DisabledQuiet` from `Quiet`.

`DriverProofs` assumes nothing beyond the constants' types: any lines, devices,
files, processes and binds, any set of steps that may fail. Its invariant gives the
loops their meaning: which lines are held below `next` (`LinesInv`), and which
devices exist at each round of init and of cleanup (`DevicesInv`). In the removal
loop the remaining devices are those from `next` on, in order, so that destroying
the first one is destroying the right one, and since there are never more of them
than rounds left none is left after the last. Files need their device and calls
their file (`FilesInv`); with the order of init that gives `FilesServed`. The
pointers are true of this bind unless it failed and was not the first
(`PointersInv`), which is `CleanupValid`.

Only model-checked: liveness (`CallsReturn`, `Settles`, `EndsUnbound`), since the
prover has no fairness, and the facts about the tables (`CellsDisjoint`,
`EntriesFit`, `RoundTrip`, `SwitchFits`), which TLC evaluates completely.

## Not modelled

* The MCU's side of a configuration command: `devAttrMcuConfig_store` polls
  register 6, but when the MCU clears it, and which registers a restore rewrites, is
  in the firmware and not in this repository. The answer in `mcuI2cReadVal`, one
  word for all processes, goes with it.
* The secure element: what overlapping shows do is decided in the I2C core
  (registering one driver twice).
* The value files of GPIO lines, flip and blink: they read and set an output and
  keep nothing. Two flips at once may be one; nothing promises otherwise.
* What the beans keep when the driver is unbound and bound again (`notifKn`, the
  owners, flags and limits): `Debounce`, `DtLines` and `Wiegand` are about one bind,
  `Driver` about several.
* Error numbers: `mcuI2cWrite_store` returns `EIO` where other stores return `EBUSY`
  (`module.c:4488-4490`); a call of `I2cBus` has failed or has not.
* Numeric widths of debounce times and counters (`gpio.c:398`, `gpio.h:28`): the
  numbers are out of reach of a run; they are listed as hazards.
* The arithmetic of the CRC (taken to detect every alteration), the formatting of
  texts, the device tree, udev rules and packaging.
