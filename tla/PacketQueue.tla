----------------------------- MODULE PacketQueue -----------------------------
(***************************************************************************)
(* What the firmware's receive ring promises, without the ring: packets    *)
(* come in one at a time, wait in a queue, and are taken out whole and in  *)
(* the order they came.  The consumer takes a packet (Get), and some time  *)
(* later hands it on unchanged to whoever processes it (Hand).             *)
(***************************************************************************)
EXTENDS Naturals, Sequences

CONSTANT Packets    (* the packets that may come in                        *)

VARIABLES
  queue,      (* the packets that wait, oldest first                       *)
  taken,      (* << >>, or the packet taken out and not yet handed on      *)
  handed      (* << >>, or the packet being processed                      *)

vars == <<queue, taken, handed>>

Init ==
  /\ queue = <<>>
  /\ taken = <<>>
  /\ handed = <<>>

Put(p) ==
  /\ queue' = Append(queue, p)
  /\ UNCHANGED <<taken, handed>>

Get ==
  /\ taken = <<>>
  /\ handed = <<>>
  /\ queue # <<>>
  /\ taken' = <<Head(queue)>>
  /\ queue' = Tail(queue)
  /\ UNCHANGED handed

Hand ==
  /\ taken # <<>>
  /\ handed' = taken
  /\ taken' = <<>>
  /\ UNCHANGED queue

Finish ==
  /\ handed # <<>>
  /\ handed' = <<>>
  /\ UNCHANGED <<queue, taken>>

Next ==
  \/ \E p \in Packets : Put(p)
  \/ Get
  \/ Hand
  \/ Finish

Spec == Init /\ [][Next]_vars

=============================================================================
