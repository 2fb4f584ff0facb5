------------------------------ MODULE MCDriver ------------------------------
(***************************************************************************)
(* Instances of Driver for TLC: four lines, four devices of two files, the *)
(* last of which, like the I2C devices, use no line.                       *)
(***************************************************************************)
EXTENDS Driver

MCUses == [x \in Device \X File |-> IF x[1] = 4 THEN 0 ELSE x[1]]
=============================================================================
