----------------------------- MODULE MCDebounce -----------------------------
(***************************************************************************)
(* Instances of Debounce for TLC: one input, short debounce times.         *)
(***************************************************************************)
EXTENDS Debounce

MCTimes == {0}
=============================================================================
