---------------------------- MODULE MCHislipDevice ----------------------------
(***************************************************************************)
(* HislipDevice for TLC: two instruments on the bus.                       *)
(***************************************************************************)
EXTENDS HislipDevice

CONSTANTS i1, i2

MCInstruments == {i1, i2}
=============================================================================
