--------------------------- MODULE MCRxRingHistory ---------------------------
(***************************************************************************)
(* RxRingHistory for TLC: three packets.                                   *)
(***************************************************************************)
EXTENDS RxRingHistory

CONSTANTS p1, p2, p3

MCPackets == {p1, p2, p3}
=============================================================================
