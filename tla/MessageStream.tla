----------------------------- MODULE MessageStream ----------------------------
(***************************************************************************)
(* What the reassembly of bulk-OUT packets promises, without packets: the  *)
(* host sends one message at a time, and each that nothing is lost of      *)
(* comes out once, as it was sent, before the next one is begun.           *)
(***************************************************************************)
CONSTANTS
  Messages,       (* the messages a host may send                          *)
  NoMessage,      (* nothing                                               *)
  MayBeLost       (* a message may be lost, or spoilt by what was          *)

VARIABLES
  owed,           (* the message sent and not yet out, or NoMessage        *)
  spoilt,         (* what was sent last is lost                            *)
  out             (* the message that has come out, or NoMessage           *)

vars == <<owed, spoilt, out>>

Init == owed = NoMessage /\ spoilt = FALSE /\ out = NoMessage

Send(m) ==
  /\ owed = NoMessage
  /\ owed' = m
  /\ spoilt' = FALSE
  /\ out' = NoMessage

Deliver ==
  /\ owed # NoMessage
  /\ out' = owed
  /\ owed' = NoMessage
  /\ UNCHANGED spoilt

Lose ==
  /\ MayBeLost
  /\ owed' = NoMessage
  /\ spoilt' = TRUE
  /\ out' = NoMessage

Next == (\E m \in Messages : Send(m)) \/ Deliver \/ Lose

Spec == Init /\ [][Next]_vars

=============================================================================
