------------------------------ MODULE MCI2cBus ------------------------------
(***************************************************************************)
(* Instances of I2cBus for TLC.  Registers of two bits, one per byte:      *)
(*   "fw"   the version register                                           *)
(*   "cfg"  two one-bit fields in one register, like expbus/enabled and    *)
(*          power_out/5vo_enabled in register 137; also written raw        *)
(*   "rly"  a masked register, like the relays' 84, two fields             *)
(*   "in"   an input, rewritten by the MCU, read only                      *)
(***************************************************************************)
EXTENDS I2cBus, TLC

CONSTANTS t1, t2

Threads == {t1, t2}
\* The threads make the same calls; none of them probes the chip where this
\* is used.
Exchange == Permutations(Threads)

MCField(r, m, k) == [reg |-> r, mask |-> m, masked |-> k]

Shared == {MCField("cfg", {"lo"}, FALSE), MCField("cfg", {"hi"}, FALSE)}
Relay == {MCField("rly", {"lo"}, TRUE), MCField("rly", {"hi"}, TRUE)}
RelayInput == Relay \cup {MCField("in", {"lo"}, FALSE)}
LowField == {MCField("cfg", {"lo"}, FALSE)}
=============================================================================
