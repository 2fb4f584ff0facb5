------------------------------ MODULE DtLines ------------------------------
(***************************************************************************)
(* The four DT lines and who uses them: dt<n>_mode takes a line as input   *)
(* or output (devAttrGpioMode_store of src/commons/gpio/gpio.c), w<N>_     *)
(* enabled takes two lines for a Wiegand interface                         *)
(* (devAttrWiegandEnabled_store and wiegandDisable of                      *)
(* src/commons/wiegand/wiegand.c), and cleanup of src/module.c gives all   *)
(* of them back.  There is no lock and the calls overlap as they please; a *)
(* line is claimed by its bean's owner field, which is tested in one step  *)
(* and set in another.  Two calls that both pass their tests then work on  *)
(* the same line: the history variable contended has the lines of every    *)
(* two calls that ever met in this way, and the properties say of which    *)
(* lines they speak.                                                       *)
(*                                                                         *)
(* A store that is refused (EBUSY) or that does not understand its text,   *)
(* and a store of 0 to an interface that is not enabled, change nothing    *)
(* and are no step.  gpioInit and gpioFree are one step each: only a       *)
(* second call on the line, which is contended then, could tell.           *)
(***************************************************************************)
EXTENDS Integers

CONSTANTS
  Line,       \* the DT lines
  Bean,       \* the Wiegand interfaces
  D0, D1,     \* their lines
  Process,    \* processes that write dt<n>_mode and w<N>_enabled
  MayFail     \* what the kernel may refuse: "get" a line, "irq"

Nobody == "nobody"
ModeFile == "mode"
Driver == "driver"

ASSUME LinesAssumption ==
  /\ D0 \in [Bean -> Line] /\ D1 \in [Bean -> Line]
  /\ \A b \in Bean : D0[b] # D1[b]
  /\ \A b, c \in Bean : b # c => {D0[b], D1[b]} \cap {D0[c], D1[c]} = {}
  /\ Bean \cap (Line \cup {ModeFile}) = {}
  /\ {Nobody, "lost"} \cap (Line \cup Bean) = {} /\ Driver \notin Process
  /\ MayFail \subseteq {"get", "irq"}

Agent == Process \cup {Driver}

VARIABLES
  requested,  \* how gpiolib has given the line out
  desc,       \* GpioBean.desc: "null", "held" or "err" (an error pointer)
  flags,      \* GpioBean.flags; "asis" is 0, shown as mode x
  owner,      \* GpioBean.owner
  enabled,    \* WiegandBean.enabled
  hooked,     \* the irqRequested fields that are set: their interrupts
  bound,      \* the driver is bound and its files exist
  pc, call,   \* where each agent is; the call it is in: on what, with what text
  spoiled,    \* history: lines of an enable that failed after it began
  contended   \* history: lines of calls that were under way on one line at a time

lines == <<requested, desc, flags, owner>>
beans == <<enabled, hooked>>
control == <<pc, call>>
history == <<spoiled, contended>>
vars == <<lines, beans, bound, control, history>>

NoCall == [on |-> Nobody, text |-> "x"]

Init ==
  /\ requested = [l \in Line |-> "no"]
  /\ desc = [l \in Line |-> "null"]
  /\ flags = [l \in Line |-> "asis"]
  /\ owner = [l \in Line |-> Nobody]
  /\ enabled = [b \in Bean |-> FALSE]
  /\ hooked = [b \in Bean |-> {}]
  /\ bound = TRUE
  /\ pc = [a \in Agent |-> "idle"]
  /\ call = [a \in Agent |-> NoCall]
  /\ spoiled = {} /\ contended = {}

-----------------------------------------------------------------------------
LinesOf(b) == {D0[b], D1[b]}
Wire(b, k) == IF k = 0 THEN D0[b] ELSE D1[b]

\* The lines a call on x works on.
Uses(x) == IF x \in Bean THEN LinesOf(x) ELSE {x} \cap Line
InUse(l) == \E a \in Agent : l \in Uses(call[a].on)

Meet(x, y) == Uses(x) \cap Uses(y) # {}

\* A process enters a store on x (a line or an interface), whoever else is in
\* a call there.
Begin(p, x, text, label) ==
  /\ bound
  /\ pc[p] = "idle"
  /\ pc' = [pc EXCEPT ![p] = label]
  /\ call' = [call EXCEPT ![p] = [on |-> x, text |-> text]]
  /\ contended' = contended \cup
       UNION {Uses(x) \cup Uses(call[a].on) : a \in {c \in Agent : Meet(x, call[c].on)}}

At(a, label) == pc[a] = label
Goto(a, label) == pc' = [pc EXCEPT ![a] = label] /\ UNCHANGED call
Return(a) ==
  /\ pc' = [pc EXCEPT ![a] = IF a = Driver THEN "cleanup" ELSE "idle"]
  /\ call' = [call EXCEPT ![a] = NoCall]

\* gpioInit: gpiod_get with the flags of the bean.
Get(l) ==
  /\ requested[l] = "no"
  /\ requested' = [requested EXCEPT ![l] = flags[l]]
  /\ desc' = [desc EXCEPT ![l] = "held"]

GetFails(l) ==
  /\ requested[l] # "no" \/ "get" \in MayFail
  /\ desc' = [desc EXCEPT ![l] = "err"]
  /\ UNCHANGED requested

\* gpioFree: a descriptor that is none is left alone.
Put(l) ==
  /\ requested' = [requested EXCEPT ![l] = IF desc[l] = "held" THEN "no" ELSE @]
  /\ desc' = [desc EXCEPT ![l] = IF @ = "held" THEN "null" ELSE @]

-----------------------------------------------------------------------------
(* devAttrGpioMode_store.                                                  *)

Texts == {"in", "out", "x"}

\* Mutant: any text is taken for a mode.
FlagsAsText(text) == text

\* Any text that is neither an input nor an output means x.
FlagsFor(text) == IF text \in {"in", "out"} THEN text ELSE "asis"

\* Mutant: the owner is not looked at.
ModeStoreAnyway(p) ==
  /\ \E l \in Line, text \in Texts : Begin(p, l, text, "modeFree")
  /\ UNCHANGED <<lines, beans, bound, spoiled>>

ModeStore(p) ==
  /\ \E l \in Line, text \in Texts :
       /\ owner[l] \in {Nobody, ModeFile}
       /\ Begin(p, l, text, "modeFree")
  /\ UNCHANGED <<lines, beans, bound, spoiled>>

ModeFree(p) ==
  /\ At(p, "modeFree")
  /\ Put(call[p].on)
  /\ Goto(p, "modeFlags")
  /\ UNCHANGED <<flags, owner, beans, bound, history>>

ModeFlags(p) ==
  LET l == call[p].on
      f == FlagsFor(call[p].text)
  IN /\ At(p, "modeFlags")
     /\ owner' = [owner EXCEPT ![l] = Nobody]
     /\ flags' = [flags EXCEPT ![l] = f]
     /\ IF f = "asis" THEN Return(p) ELSE Goto(p, "modeGet")
     /\ UNCHANGED <<requested, desc, beans, bound, history>>

ModeGet(p) ==
  /\ At(p, "modeGet")
  /\ Get(call[p].on)
  /\ Goto(p, "modeOwn")
  /\ UNCHANGED <<flags, owner, beans, bound, history>>

ModeGetFails(p) ==
  /\ At(p, "modeGet")
  /\ GetFails(call[p].on)
  /\ flags' = [flags EXCEPT ![call[p].on] = "asis"]
  /\ Return(p)
  /\ UNCHANGED <<owner, beans, bound, history>>

ModeOwn(p) ==
  /\ At(p, "modeOwn")
  /\ owner' = [owner EXCEPT ![call[p].on] = ModeFile]
  /\ Return(p)
  /\ UNCHANGED <<requested, desc, flags, beans, bound, history>>

-----------------------------------------------------------------------------
(* devAttrWiegandEnabled_store: enable.                                    *)

\* Mutant: the owner of the second line is not looked at.
EnableFirstFree(p) ==
  /\ \E b \in Bean :
       /\ ~enabled[b]
       /\ owner[D0[b]] = Nobody
       /\ Begin(p, b, "x", "take")
  /\ UNCHANGED <<lines, beans, bound, spoiled>>

Enable(p) ==
  /\ \E b \in Bean :
       /\ ~enabled[b]
       /\ \A l \in LinesOf(b) : owner[l] = Nobody
       /\ Begin(p, b, "x", "take")
  /\ UNCHANGED <<lines, beans, bound, spoiled>>

EnableTake(p) ==
  LET mine == LinesOf(call[p].on) IN
  /\ At(p, "take")
  /\ owner' = [l \in Line |-> IF l \in mine THEN call[p].on ELSE owner[l]]
  /\ flags' = [l \in Line |-> IF l \in mine THEN "in" ELSE flags[l]]
  /\ Goto(p, "get0")
  /\ UNCHANGED <<requested, desc, beans, bound, history>>

GetAt(k) == IF k = 0 THEN "get0" ELSE "get1"
HookAt(k) == IF k = 0 THEN "hook0" ELSE "hook1"

EnableGet(p, k) ==
  /\ At(p, GetAt(k))
  /\ Get(Wire(call[p].on, k))
  /\ Goto(p, IF k = 0 THEN "get1" ELSE "hook0")
  /\ UNCHANGED <<flags, owner, beans, bound, history>>

\* The store goes on to wiegandDisable.
EnableGetFails(p, k) ==
  /\ At(p, GetAt(k))
  /\ GetFails(Wire(call[p].on, k))
  /\ Goto(p, "disable")
  /\ spoiled' = spoiled \cup LinesOf(call[p].on)
  /\ UNCHANGED <<flags, owner, beans, bound, contended>>

EnableHook(p, k) ==
  LET b == call[p].on IN
  /\ At(p, HookAt(k))
  /\ k \notin hooked[b]
  /\ hooked' = [hooked EXCEPT ![b] = @ \cup {k}]
  /\ Goto(p, IF k = 0 THEN "hook1" ELSE "enable")
  /\ UNCHANGED <<lines, enabled, bound, history>>

EnableHookFails(p, k) ==
  LET b == call[p].on IN
  /\ At(p, HookAt(k))
  /\ k \in hooked[b] \/ "irq" \in MayFail
  /\ Goto(p, "disable")
  /\ spoiled' = spoiled \cup LinesOf(b)
  /\ UNCHANGED <<lines, beans, bound, contended>>

\* An interface that is enabled already is only reset, by wiegandReset.
EnableAgain(p) ==
  /\ \E b \in Bean : enabled[b] /\ Begin(p, b, "x", "again")
  /\ UNCHANGED <<lines, beans, bound, spoiled>>

\* wiegandReset: the interface is enabled, whatever has become of it.
EnableDone(p) ==
  /\ pc[p] \in {"enable", "again"}
  /\ enabled' = [enabled EXCEPT ![call[p].on] = TRUE]
  /\ Return(p)
  /\ UNCHANGED <<lines, hooked, bound, history>>

-----------------------------------------------------------------------------
(* wiegandDisable, from a store of 0, a failed enable or cleanup.          *)

Disable(p) ==
  /\ \E b \in Bean : enabled[b] /\ Begin(p, b, "x", "free0")
  /\ UNCHANGED <<lines, beans, bound, spoiled>>

\* An enable that failed calls it: nothing is done for an interface that is
\* not enabled, as this one is unless another call has enabled it.
DisableTest(a) ==
  /\ At(a, "disable")
  /\ IF enabled[call[a].on] THEN Goto(a, "free0") ELSE Return(a)
  /\ UNCHANGED <<lines, beans, bound, history>>

FreeAt(k) == IF k = 0 THEN "free0" ELSE "free1"
UnhookAt(k) == IF k = 0 THEN "unhook0" ELSE "unhook1"

DisableFree(a, k) ==
  /\ At(a, FreeAt(k))
  /\ Put(Wire(call[a].on, k))
  /\ Goto(a, IF k = 0 THEN "free1" ELSE "unhook0")
  /\ UNCHANGED <<flags, owner, beans, bound, history>>

DisableUnhook(a, k) ==
  /\ At(a, UnhookAt(k))
  /\ hooked' = [hooked EXCEPT ![call[a].on] = @ \ {k}]
  /\ Goto(a, IF k = 0 THEN "unhook1" ELSE "disown")
  /\ UNCHANGED <<lines, enabled, bound, history>>

\* Mutant: the second line keeps its owner.
DisownFirst(a) ==
  /\ At(a, "disown")
  /\ owner' = [owner EXCEPT ![D0[call[a].on]] = Nobody]
  /\ enabled' = [enabled EXCEPT ![call[a].on] = FALSE]
  /\ Return(a)
  /\ UNCHANGED <<requested, desc, flags, hooked, bound, history>>

Disown(a) ==
  /\ At(a, "disown")
  /\ owner' = [l \in Line |-> IF l \in LinesOf(call[a].on) THEN Nobody ELSE owner[l]]
  /\ enabled' = [enabled EXCEPT ![call[a].on] = FALSE]
  /\ Return(a)
  /\ UNCHANGED <<requested, desc, flags, hooked, bound, history>>

-----------------------------------------------------------------------------
(* cleanup, after the removal of the files has waited for the stores in    *)
(* progress.                                                               *)

Unbind ==
  /\ bound
  /\ \A a \in Agent : pc[a] = "idle"
  /\ bound' = FALSE
  /\ Goto(Driver, "cleanup")
  /\ UNCHANGED <<lines, beans, history>>

CleanWiegand ==
  /\ At(Driver, "cleanup")
  /\ \E b \in Bean :
       /\ enabled[b]
       /\ call' = [call EXCEPT ![Driver] = [on |-> b, text |-> "x"]]
  /\ pc' = [pc EXCEPT ![Driver] = "free0"]
  /\ UNCHANGED <<lines, beans, bound, history>>

\* Mutant: the interfaces are left enabled.
CleanLinesOnly ==
  /\ At(Driver, "cleanup")
  /\ requested' = [l \in Line |-> IF desc[l] = "held" THEN "no" ELSE requested[l]]
  /\ desc' = [l \in Line |-> IF desc[l] = "held" THEN "null" ELSE desc[l]]
  /\ Goto(Driver, "unbound")
  /\ UNCHANGED <<flags, owner, beans, bound, history>>

CleanLines ==
  /\ At(Driver, "cleanup")
  /\ \A b \in Bean : ~enabled[b]
  /\ requested' = [l \in Line |-> IF desc[l] = "held" THEN "no" ELSE requested[l]]
  /\ desc' = [l \in Line |-> IF desc[l] = "held" THEN "null" ELSE desc[l]]
  /\ Goto(Driver, "unbound")
  /\ UNCHANGED <<flags, owner, beans, bound, history>>

-----------------------------------------------------------------------------
ModeStep(p) ==
  ModeStore(p) \/ ModeFree(p) \/ ModeFlags(p) \/ ModeGet(p) \/ ModeGetFails(p) \/ ModeOwn(p)

EnableStep(p) ==
  \/ Enable(p) \/ EnableAgain(p) \/ EnableTake(p) \/ EnableDone(p)
  \/ \E k \in {0, 1} :
       EnableGet(p, k) \/ EnableGetFails(p, k) \/ EnableHook(p, k) \/ EnableHookFails(p, k)

DisableStep(a) ==
  \/ DisableTest(a) \/ Disown(a)
  \/ \E k \in {0, 1} : DisableFree(a, k) \/ DisableUnhook(a, k)

Next ==
  \/ \E p \in Process : ModeStep(p) \/ EnableStep(p) \/ Disable(p)
  \/ \E a \in Agent : DisableStep(a)
  \/ Unbind \/ CleanWiegand \/ CleanLines

Spec == Init /\ [][Next]_vars

-----------------------------------------------------------------------------
ModePC == {"modeFree", "modeFlags", "modeGet", "modeOwn"}
EnablePC == {"take", "get0", "get1", "hook0", "hook1", "enable", "again"}
DisablePC == {"disable", "free0", "free1", "unhook0", "unhook1", "disown"}

TypeOK ==
  /\ requested \in [Line -> {"no", "asis", "in", "out"}]
  /\ desc \in [Line -> {"null", "held", "err"}]
  /\ flags \in [Line -> {"asis", "in", "out"}]
  /\ owner \in [Line -> Bean \cup {Nobody, ModeFile}]
  /\ enabled \in [Bean -> BOOLEAN] /\ hooked \in [Bean -> SUBSET {0, 1}]
  /\ bound \in BOOLEAN
  /\ pc \in [Agent -> ModePC \cup EnablePC \cup DisablePC \cup {"idle", "cleanup", "unbound"}]
  /\ call \in [Agent -> [on : Line \cup Bean \cup {Nobody}, text : Texts]]
  /\ spoiled \subseteq Line /\ contended \subseteq Line

AtRest(l) == ~InUse(l)

\* As long as no enable has failed half way on it and no two calls were under
\* way on it at once, a line that nobody works on is claimed, held and
\* requested together, or none of the three: nothing is lost and nobody is
\* refused a line that is free.  (gpio.c:214-238 and wiegand.c:207-221 test
\* the owner long before they set it: of a contended line nothing is said.)
LinesAccounted ==
  bound => \A l \in Line \ (spoiled \cup contended) : AtRest(l) =>
    /\ owner[l] # Nobody <=> desc[l] = "held"
    /\ requested[l] # "no" <=> desc[l] = "held"
    /\ owner[l] \in Bean => enabled[owner[l]]

\* Calls on an interface that met others have all its lines contended.
Fine(b) == ~(LinesOf(b) \subseteq contended)

\* An enabled interface has both its lines, as inputs, and both interrupts,
\* until it is disabled, whatever the dt<n>_mode files are told after the
\* enable has looked at the owners.  (Not so when another call was under way
\* on its lines together with one of its own: both its lines are contended.)
EnabledHolds ==
  \A b \in Bean : (enabled[b] /\ Fine(b) /\ \A l \in LinesOf(b) : AtRest(l)) =>
    /\ hooked[b] = {0, 1}
    /\ \A l \in LinesOf(b) : owner[l] = b /\ requested[l] = "in" /\ desc[l] = "held"

\* After cleanup no line is left requested, and no interrupt either unless an
\* enable had failed after its first interrupt was there: on the lines that
\* no two calls were under way on at once.
UnboundFree ==
  pc[Driver] = "unbound" =>
    /\ \A l \in Line \ contended : requested[l] = "no"
    /\ \A b \in Bean : /\ enabled[b] = FALSE
                       /\ hooked[b] # {} => ~Fine(b) \/ LinesOf(b) \subseteq spoiled

Owners == INSTANCE LineOwners WITH
  User <- Bean, Needs <- [b \in Bean |-> LinesOf(b)], File <- ModeFile, Lost <- "lost",
  holder <- [l \in Line |-> IF l \in contended THEN "lost" ELSE owner[l]],
  given <- [l \in Line |-> IF l \in contended THEN "no" ELSE requested[l]]

\* The stores and cleanup, step by step, do to owners and requests what
\* LineOwners allows: a line has one holder at a time, an interface takes and
\* gives up both its lines at once, also when it fails to get them, and a line
\* leaves its holder only after gpiolib has it back.  A line on which two
\* calls met is lost for good: the code has no lock to prevent it.
OwnersSpec == Owners!OwnersSpec

\* README, dt<n>_mode: "x: line not controlled by kernel module", "in: line
\* set as input", "out: line set as output": what the file shows is what the
\* line is.
ModeShown ==
  bound => \A l \in Line : AtRest(l) =>
    requested[l] = IF flags[l] = "asis" THEN "no" ELSE flags[l]
=============================================================================
