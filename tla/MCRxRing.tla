------------------------------- MODULE MCRxRing -------------------------------
(***************************************************************************)
(* RxRing for TLC: two packets that the host sends over and over.          *)
(***************************************************************************)
EXTENDS RxRing

CONSTANTS p1, p2

MCPackets == {p1, p2}
=============================================================================
