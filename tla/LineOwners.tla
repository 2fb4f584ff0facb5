---------------------------- MODULE LineOwners -----------------------------
(***************************************************************************)
(* What dt<n>_mode and w<N>_enabled promise to those who use the DT lines: *)
(* a line has one holder at a time and goes to the next one by way of      *)
(* nobody, after the kernel has taken it back; an interface takes all its  *)
(* lines at once and gives them up at once; a line that an interface holds *)
(* is an input and nothing else.  All this is promised of a line until two *)
(* calls meet on it; then it is lost, and an interface that shares it does *)
(* with the lines that it has left.                                        *)
(*                                                                         *)
(* A mode file owns its line only when it has it; an interface claims its  *)
(* lines before it has them, and may fail to get them.                     *)
(***************************************************************************)
CONSTANTS
  Line,    \* the DT lines
  User,    \* the Wiegand interfaces
  Needs,   \* the lines of each
  File,    \* stands for the mode file of a line
  Nobody,
  Lost     \* stands for those that met on a line

VARIABLES
  holder,  \* who may use each line
  given    \* how the kernel has given it out: "no", "in" or "out"

ownersVars == <<holder, given>>

OwnersInit ==
  /\ holder = [l \in Line |-> Nobody]
  /\ given = [l \in Line |-> "no"]

Hand(ls, u) == holder' = [l \in Line |-> IF l \in ls THEN u ELSE holder[l]]

\* The lines of an interface that are not lost.
Left(u) == {l \in Needs[u] : holder[l] # Lost}

Claim(u) ==
  /\ \A l \in Left(u) : holder[l] = Nobody /\ given[l] = "no"
  /\ Hand(Left(u), u)
  /\ UNCHANGED given

Release(u) ==
  /\ \A l \in Left(u) : holder[l] = u /\ given[l] = "no"
  /\ Hand(Left(u), Nobody)
  /\ UNCHANGED given

\* The kernel gives a line out to the interface that holds it, or to its file.
Get(l) ==
  /\ given[l] = "no" /\ holder[l] \notin {File, Lost}
  /\ \E way \in IF holder[l] = Nobody THEN {"in", "out"} ELSE {"in"} :
       given' = [given EXCEPT ![l] = way]
  /\ UNCHANGED holder

Own(l) ==
  /\ holder[l] = Nobody /\ given[l] # "no"
  /\ Hand({l}, File)
  /\ UNCHANGED given

Disown(l) ==
  /\ holder[l] = File /\ given[l] = "no"
  /\ Hand({l}, Nobody)
  /\ UNCHANGED given

\* Lines are taken back while they still have their holders.
Put(ls) ==
  /\ \A l \in ls : holder[l] \notin {Nobody, Lost}
  /\ given' = [l \in Line |-> IF l \in ls THEN "no" ELSE given[l]]
  /\ UNCHANGED holder

\* Calls meet on lines.
Lose(ls) ==
  /\ Hand(ls, Lost)
  /\ given' = [l \in Line |-> IF l \in ls THEN "no" ELSE given[l]]

OwnersNext ==
  \/ \E u \in User : Claim(u) \/ Release(u)
  \/ \E l \in Line : Get(l) \/ Own(l) \/ Disown(l)
  \/ \E ls \in SUBSET Line : Put(ls) \/ Lose(ls)

OwnersSpec == OwnersInit /\ [][OwnersNext]_ownersVars
=============================================================================
