----------------------------- MODULE MCDtLines -----------------------------
(***************************************************************************)
(* Instances of DtLines for TLC: one interface on two lines, or the four   *)
(* lines and two interfaces of the board.                                  *)
(***************************************************************************)
EXTENDS DtLines, TLC

CONSTANTS dt1, dt2, dt3, dt4, w1, w2, p1, p2

OneD0 == w1 :> dt1
OneD1 == w1 :> dt2

BothD0 == w1 :> dt1 @@ w2 :> dt3
BothD1 == w1 :> dt2 @@ w2 :> dt4

\* The processes are alike.
MCSymmetry == Permutations({p1, p2})
=============================================================================
