----------------------------- MODULE UsbTmcFront ------------------------------
(***************************************************************************)
(* A host that talks to an instrument through usbtmcfront.Handler.  It     *)
(* splits its program messages into USBTMC messages as it likes, declares  *)
(* what it likes in them, and reads the answer in parts.                   *)
(***************************************************************************)
EXTENDS Handler

CONSTANTS
  Sizes,               (* the transfer sizes a host may declare            *)
  Lens,                (* the lengths of messages the handler is called    *)
                       (* with                                             *)
  MaxProgram,          (* bound: the bytes of a program message            *)
  None                 (* no response                                      *)

ASSUME FrontAssumption ==
  /\ HeaderSize \in Nat
  /\ IntMod \in Nat
  /\ IntMod % 2 = 0
  /\ MaxResponsePayload \in Nat
  /\ Sizes \subseteq 0 .. IntMod - 1
  /\ Lens \subseteq 0 .. IntMod \div 2 - 1
  /\ Answers \subseteq Nat
  /\ MaxProgram \in Nat

VARIABLES
  told,        (* the bytes of its program message the host has sent       *)
  toldEnd,     (* and whether that was all of it                           *)
  heard,       (* the bytes of it the instrument has                       *)
  heardEnd,    (* and whether it was given END                             *)
  has,         (* the bytes of the answer the host has                     *)
  hasEnd,      (* and whether it was told that this is all                 *)
  lost,        (* the bytes of the answer that failing reads took          *)
  request,     (* the transfer size of the last request, or of the message *)
               (* the handler panicked on                                  *)
  response,    (* the payload of the response to it, or None               *)
  fault,       (* an Instrument.Write has failed or a message did not      *)
               (* carry what it declares, and the host and the instrument  *)
               (* have not begun a program message together since          *)
  panicked     (* a slice expression went out of range                     *)

programVars == <<told, toldEnd, heard, heardEnd>>
answerVars == <<has, hasEnd, lost, answer, at>>
vars == <<programVars, answerVars, request, response, fault, panicked>>

Init ==
  /\ told = 0 /\ toldEnd = TRUE /\ heard = 0 /\ heardEnd = TRUE
  /\ has = 0 /\ hasEnd = FALSE /\ lost = 0 /\ answer = 0 /\ at = 0
  /\ request = 0
  /\ response = None
  /\ fault = FALSE
  /\ panicked = FALSE

-----------------------------------------------------------------------------
(* What a host means by a message: the payload it declares, or as much of  *)
(* it as the message has room for; and whether it carries less than that.  *)
Carried(size, len) == IF len < HeaderSize THEN 0 ELSE Min2(size, len - HeaderSize)

FallsShort(size, len) == len < HeaderSize \/ size > len - HeaderSize

(* The host's side of a program message: it goes on with one, or begins    *)
(* the next.                                                               *)
Tells(n, end) ==
  /\ told' = IF toldEnd THEN n ELSE told + n
  /\ toldEnd' = end

(* A fault is over once both begin a program message.                      *)
Lasting == fault /\ ~(toldEnd /\ heardEnd)

Hears(n) == heard' = IF heardEnd THEN n ELSE heard + n

(* The instrument's answer to what it heard, which nobody has read yet.    *)
NewAnswer(end) ==
  /\ Answering(end)
  /\ has' = 0
  /\ hasEnd' = FALSE
  /\ lost' = 0

(* A message that is returned with an error.  The host has sent it, and is *)
(* not told.                                                               *)
Reject(size, len, end) ==
  /\ ~panicked
  /\ Refused(size, len)
  /\ Tells(Carried(size, len), end)
  /\ fault' = (Lasting \/ FallsShort(size, len))
  /\ response' = None
  /\ UNCHANGED <<heard, heardEnd, answerVars, request, panicked>>

Panic(size, len) ==
  /\ ~panicked
  /\ OutOfRange(size, len)
  /\ panicked' = TRUE
  /\ request' = size
  /\ UNCHANGED <<programVars, answerVars, response, fault>>

(* handleDevDepMsgOut, with an Instrument.Write that succeeds ...          *)
Write(size, len, end) ==
  /\ ~panicked
  /\ Sliced(size, len)
  /\ Tells(Carried(size, len), end)
  /\ Hears(PayloadEnd(size) - HeaderSize)
  /\ heardEnd' = end
  /\ NewAnswer(end)
  /\ fault' = Lasting
  /\ response' = None
  /\ UNCHANGED <<request, panicked>>

(* ... or that fails, after none, some or all of the payload.              *)
WriteFails(size, len, end) ==
  /\ ~panicked
  /\ Sliced(size, len)
  /\ Tells(Carried(size, len), end)
  /\ \E n \in 0 .. PayloadEnd(size) - HeaderSize, done \in BOOLEAN :
       /\ done => end /\ n = PayloadEnd(size) - HeaderSize
       /\ Hears(n)
       /\ heardEnd' = done
       /\ NewAnswer(done)
  /\ fault' = TRUE
  /\ response' = None
  /\ UNCHANGED <<request, panicked>>

(* handleRequestDevDepMsgIn, with an Instrument.Read that succeeds: with   *)
(* what was asked for or less, which may be nothing, and with END when     *)
(* nothing is left of the answer.                                          *)
Read(size) ==
  /\ ~panicked
  /\ TakenFrom(size)
  /\ has' = has + Declared(at' - at, Want(size))
  /\ hasEnd' = (at' = answer)
  /\ response' = Declared(at' - at, Want(size))
  /\ request' = size
  /\ UNCHANGED <<programVars, lost, fault, panicked>>

(* ... or that fails, with nothing to read or after some bytes: the        *)
(* handler drops those.                                                    *)
ReadFails(size) ==
  /\ ~panicked
  /\ TakenFrom(size)
  /\ lost' = lost + (at' - at)
  /\ request' = size
  /\ response' = None
  /\ UNCHANGED <<programVars, has, hasEnd, fault, panicked>>

(* Trigger, with either outcome.                                           *)
Trigger ==
  /\ ~panicked
  /\ response' = None
  /\ UNCHANGED <<programVars, answerVars, request, fault, panicked>>

(* The bound on a program message: what is left of an interrupted one in   *)
(* the instrument counts as well.                                          *)
Bounded(len) ==
  /\ toldEnd \/ told + len - HeaderSize <= MaxProgram
  /\ heardEnd \/ heard + len - HeaderSize <= MaxProgram

DevDepMsgOut(size, len, end) ==
  \/ Panic(size, len)
  \/ Bounded(len) /\ Reject(size, len, end)
  \/ Bounded(len) /\ Write(size, len, end)
  \/ Bounded(len) /\ WriteFails(size, len, end)

Next ==
  \/ \E size \in Sizes, len \in Lens, end \in BOOLEAN : DevDepMsgOut(size, len, end)
  \/ \E size \in Sizes : Read(size)
  \/ \E size \in Sizes : ReadFails(size)
  \/ Trigger

Spec == Init /\ [][Next]_vars

-----------------------------------------------------------------------------
TypeOK ==
  /\ {told, heard, answer, at, has, lost, request} \subseteq Nat
  /\ {toldEnd, hasEnd, heardEnd, fault, panicked} \subseteq BOOLEAN
  /\ at <= answer
  /\ response = None \/ response \in 0 .. at

(* Whatever way the host splits its program messages and its requests, and *)
(* the instrument its answer: the instrument has heard just what the host  *)
(* has told it, END included, unless a write has failed or a message did   *)
(* not carry what it declares; padding is no reason to refuse one.  Every  *)
(* byte read of the answer is the host's, but for those that failing reads *)
(* took; the host is told that this is all only when nothing is left, and  *)
(* by each response that leaves nothing.                                   *)
NothingLost ==
  /\ ~fault => heard = told /\ heardEnd = toldEnd
  /\ has + lost = at
  /\ hasEnd => at = answer
  /\ response # None => hasEnd = (at = answer)

(* payloadBytes' comment: the payload is checked against the length of the *)
(* message rather than trusting the declared size.  This keeps the slice   *)
(* expression in range for every size to which an int can add a header.    *)
PanicsOnlyOnWrap == panicked => HeaderSize + request >= IntMod \div 2

=============================================================================
