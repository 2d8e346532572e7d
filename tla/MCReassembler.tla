---------------------------- MODULE MCReassembler -----------------------------
(***************************************************************************)
(* Reassembler for TLC, with a 9-bit int.  A message is named by its size; *)
(* 12 is a header without payload (RequestDevDepMsgIn, Trigger).           *)
(***************************************************************************)
EXTENDS Reassembler

MCDevDepMsgOut == {m \in Messages : m > HeaderSize}

MCSizeOf == [m \in Messages |-> m]

MCDeclares == [m \in Messages |-> m - HeaderSize]

(* Up to three packets and a bit, with each padding, around the sizes of   *)
(* one, two and three packets; the last packet is a header long at least.  *)
LongTails == {12, 13, 18, 61, 64, 75, 76, 126, 128, 139, 192}

(* As well, a transfer of 64 + 4 bytes and one of 2 * 64 + 8.              *)
AnyTails == LongTails \cup {67, 136}
=============================================================================
