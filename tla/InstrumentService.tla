-------------------------- MODULE InstrumentService ---------------------------
(***************************************************************************)
(* What the gateway promises a host about the instrument behind it,        *)
(* without packets, buffers or endpoints: the instrument is called once    *)
(* for each message the host has issued and in that order, but for those   *)
(* that may be refused; what was read from it for a request is the reply   *)
(* to this request and no other, is given whole, or not at all, and then   *)
(* the host gives up.                                                      *)
(***************************************************************************)
EXTENDS Naturals, Sequences

CONSTANTS
  Messages,       (* what a host may issue                                 *)
  Writes,         (* those with something for the instrument               *)
  Requests,       (* those it waits for a reply to                         *)
  Refusable,      (* those that need not reach the instrument              *)
  Tag,            (* message |-> the tag its reply carries                 *)
  Most,           (* message |-> the bytes it asks for                     *)
  Answers,        (* the lengths of the instrument's answers               *)
  Nothing         (* no request, no reply                                  *)

VARIABLES
  issued,         (* what the host has issued and nobody has performed     *)
  waiting,        (* the request the host waits for, or Nothing            *)
  reply,          (* the reply to it, or Nothing                           *)
  given,          (* the last reply given to the host, or Nothing          *)
  answer,         (* the length of the instrument's answer                 *)
  at,             (* the bytes of it that were read                        *)
  calls           (* how often the instrument was called, modulo 2         *)

vars == <<issued, waiting, reply, given, answer, at, calls>>

Init ==
  /\ issued = <<>>
  /\ waiting = Nothing /\ reply = Nothing /\ given = Nothing
  /\ answer = 0 /\ at = 0 /\ calls = 0

Issue(m) ==
  /\ waiting = Nothing
  /\ issued' = Append(issued, m)
  /\ waiting' = IF m \in Requests THEN m ELSE Nothing
  /\ given' = Nothing
  /\ UNCHANGED <<reply, answer, at, calls>>

(* The instrument is called for the message that comes next.               *)
Perform(Kind) ==
  /\ issued # <<>>
  /\ Head(issued) \in Kind
  /\ issued' = Tail(issued)
  /\ calls' = 1 - calls
  /\ UNCHANGED <<waiting, given>>

(* A write makes the instrument forget the answer, and it may have a new   *)
(* one; or it fails at once.                                               *)
PerformWrite ==
  /\ Perform(Writes)
  /\ \/ answer' \in Answers \cup {0} /\ at' = 0
     \/ UNCHANGED <<answer, at>>
  /\ UNCHANGED reply

(* What was read is the reply, or is lost with the error of the read.      *)
PerformRequest ==
  /\ Perform(Requests)
  /\ at' \in at .. answer
  /\ at' - at <= Most[Head(issued)]
  /\ reply' \in {[tag |-> Tag[Head(issued)], n |-> at' - at], Nothing}
  /\ UNCHANGED answer

PerformTrigger ==
  /\ Perform(Messages \ (Writes \cup Requests))
  /\ UNCHANGED <<reply, answer, at>>

Refuse ==
  /\ issued # <<>>
  /\ Head(issued) \in Refusable
  /\ issued' = Tail(issued)
  /\ UNCHANGED <<waiting, reply, given, answer, at, calls>>

Give ==
  /\ reply # Nothing
  /\ given' = reply
  /\ reply' = Nothing
  /\ waiting' = Nothing
  /\ UNCHANGED <<issued, answer, at, calls>>

GiveUp ==
  /\ waiting # Nothing
  /\ issued = <<>>
  /\ waiting' = Nothing
  /\ reply' = Nothing
  /\ UNCHANGED <<issued, given, answer, at, calls>>

Next ==
  \/ \E m \in Messages : Issue(m)
  \/ PerformWrite
  \/ PerformRequest
  \/ PerformTrigger
  \/ Refuse
  \/ Give
  \/ GiveUp

Spec == Init /\ [][Next]_vars

=============================================================================
