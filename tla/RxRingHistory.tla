---------------------------- MODULE RxRingHistory ----------------------------
(***************************************************************************)
(* The receive ring under a host that does not wait for it, with the       *)
(* history that says which packet main ought to be handed next.            *)
(*                                                                         *)
(* waiting is the queue the firmware's comments promise: first in, first   *)
(* out, and when RingSize packets wait, the oldest of them is dropped for  *)
(* the new one (debug.go, rxOverflows).  lapped records that since main    *)
(* last emptied the ring a packet arrived for which the ring had no slot   *)
(* to spare.                                                               *)
(***************************************************************************)
EXTENDS RxRing

VARIABLES
  waiting,        (* the packets promised to main, oldest first            *)
  due,            (* the packet promised for the slot main took            *)
  lapped          (* the handler has run into the loop                     *)

historyVars == <<waiting, due, lapped>>

HistoryInit ==
  /\ Boot
  /\ waiting = <<>>
  /\ due = NoPacket
  /\ lapped = FALSE

Arrives(p) ==
  /\ Burst(p)
  /\ waiting' = Append(IF Len(waiting) < RingSize THEN waiting ELSE Tail(waiting), p)
  /\ lapped' = (lapped \/ ~Room)
  /\ UNCHANGED due

Takes ==
  /\ TakeSlot
  /\ due' = IF waiting = <<>> THEN NoPacket ELSE Head(waiting)
  /\ waiting' = IF waiting = <<>> THEN <<>> ELSE Tail(waiting)
  /\ UNCHANGED lapped

(* Main finds the ring empty: what was promised and lost stays lost, and   *)
(* the account starts afresh.                                              *)
FindsEmpty ==
  /\ EndDrain
  /\ waiting' = <<>>
  /\ lapped' = FALSE
  /\ UNCHANGED due

HistoryNext ==
  \/ \E p \in Packets : Arrives(p)
  \/ Takes
  \/ FindsEmpty
  \/ CopyWord /\ UNCHANGED historyVars
  \/ Processed /\ UNCHANGED historyVars
  \/ NextTick /\ UNCHANGED historyVars
  \/ ClearStats /\ UNCHANGED historyVars

HistorySpec == HistoryInit /\ [][HistoryNext]_<<vars, historyVars>> /\ WF_vars(Main)

-----------------------------------------------------------------------------
HistoryTypeOK ==
  /\ TypeOK
  /\ waiting \in Seq(Packets)
  /\ Len(waiting) <= RingSize
  /\ due \in Packets \cup {NoPacket}
  /\ lapped \in BOOLEAN

(* As long as the handler has not run into the loop, main gets the packet  *)
(* it is due, whole; and one empty ring is enough to be exact again,       *)
(* whatever overruns there were before.                                    *)
ExactUnlessLapped == ~lapped /\ pc = "process" => Handed = <<due>>

=============================================================================
