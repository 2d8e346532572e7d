-------------------------------- MODULE BulkIn --------------------------------
(***************************************************************************)
(* What a USBTMC host may expect of the bulk-IN endpoint, without the      *)
(* firmware that serves it: it asks for a response, gets the response in   *)
(* order in packets that are all full but the last, and the last one, and  *)
(* only the last, is short (empty, when the length is a multiple of the    *)
(* packet size).                                                           *)
(***************************************************************************)
EXTENDS Naturals

CONSTANTS
  MaxPacketSize,  (* the endpoint's packet size                            *)
  Responses,      (* the responses an instrument may give                  *)
  Length,         (* response |-> its bytes, header included               *)
  NoResponse      (* nothing is asked for                                  *)

VARIABLES
  asked,          (* the response the host waits for                       *)
  got             (* the bytes of it that the host has                     *)

vars == <<asked, got>>

Init == asked = NoResponse /\ got = 0

Ask(r) ==
  /\ asked = NoResponse
  /\ asked' = r
  /\ got' = 0

Full ==
  /\ asked # NoResponse
  /\ got + MaxPacketSize <= Length[asked]
  /\ got' = got + MaxPacketSize
  /\ UNCHANGED asked

Short ==
  /\ asked # NoResponse
  /\ got + MaxPacketSize > Length[asked]
  /\ got' = Length[asked]
  /\ asked' = NoResponse

(* The host stops waiting.                                                 *)
GiveUp ==
  /\ asked # NoResponse
  /\ asked' = NoResponse
  /\ got' = 0

Next ==
  \/ \E r \in Responses : Ask(r)
  \/ Full
  \/ Short
  \/ GiveUp

Spec == Init /\ [][Next]_vars

=============================================================================
