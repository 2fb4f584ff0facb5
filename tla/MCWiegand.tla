----------------------------- MODULE MCWiegand -----------------------------
(***************************************************************************)
(* Instances of Wiegand for TLC: frames of one or two bits, pulses of one  *)
(* tick or two, and limits that may be stored in the wrong order of size.  *)
(***************************************************************************)
EXTENDS Wiegand

\* All that a read of w<N>_data, its timer and the interrupts depend on.  While
\* w<N>_noise is not read, noise, nz, flaw, lost and late decide no step of the
\* others: with this VIEW TLC does not tell states apart by them.
ReadView ==
  <<wiring, lim, enabled, decoder, age, timer, reader, pc, stamp, wave, dirty, lax, retuned>>
=============================================================================
