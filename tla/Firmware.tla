------------------------------ MODULE Firmware --------------------------------
(***************************************************************************)
(* The firmware from end to end: a host's messages come as packets through *)
(* the ring, the Reassembler and the Handler to the instrument, and the    *)
(* responses go back through the ChunkSender and the endpoint's buffer.    *)
(*                                                                         *)
(* The parts are the modules Reassembler, Handler and UsbTx.  The ring is  *)
(* the queue it implements while the host keeps to its size (RxRing).      *)
(* Driver calls and sends may fail.  The host waits for each reply as long *)
(* as anything moves.  It may send other than what its headers declare:    *)
(* the promises that depend on these are made to a host that does not.     *)
(***************************************************************************)
EXTENDS Integers, Sequences

CONSTANTS
  HeaderSize, PacketSize, Alignment, IntMod,   (* as in Reassembler        *)
  MaxResponsePayload, Answers,                 (* as in Handler            *)
  RingSize,       (* rxRingSize                                            *)
  Messages,       (* the messages a host may send ...                      *)
  Writes,         (* ... of which these are DevDepMsgOut,                  *)
  Requests,       (* these RequestDevDepMsgIn,                             *)
  Triggers,       (* these Trigger, and the others of an unknown type      *)
  SizeOf,         (* message |-> its bytes as far as the host sends them   *)
  Declares,       (* message |-> its TransferSize                          *)
  Tag,            (* request |-> its bTag                                  *)
  Nothing         (* no message, no request, no response                   *)

Responses == [tag : {Tag[m] : m \in Requests}, n : 0 .. MaxResponsePayload]

ASSUME FirmwareAssumption ==
  /\ RingSize \in Nat \ {0}
  /\ Writes \cup Requests \cup Triggers \subseteq Messages
  /\ Writes \cap Requests = {}
  /\ Triggers \cap (Writes \cup Requests) = {}
  /\ MaxResponsePayload \in Nat
  /\ Nothing \notin Responses
  /\ Answers \subseteq Nat
  /\ IntMod % 2 = 0

(* What Reassembler and UsbTx assume; -1 and -2 are Mangled and Panicked.  *)
ASSUME PartsAssumption ==
  /\ HeaderSize \in Nat \ {0}
  /\ PacketSize \in Nat \ {0}
  /\ Alignment \in Nat \ {0}
  /\ PacketSize % Alignment = 0
  /\ HeaderSize <= PacketSize
  /\ IntMod \in Nat \ {0}
  /\ Declares \in [Messages -> 0 .. IntMod - 1]
  /\ SizeOf \in [Messages -> Nat]
  /\ \A m \in Messages : SizeOf[m] >= HeaderSize
  /\ Nothing \notin Messages
  /\ {-1, -2} \cap (Messages \cup {Nothing}) = {}

VARIABLES
  current, sent,                         (* the host's transfer, as in     *)
                                         (* Reassembler                    *)
  waiting,        (* the request the host waits for, or Nothing            *)
  given,          (* the reply the host was given since it last sent       *)
  queue,          (* rxRing: the packets waiting for main                  *)
  buf, out,                              (* as in Reassembler              *)
  answer, at,                            (* as in Handler                  *)
  calls,          (* how often the instrument was called, modulo 2         *)
  asked, got, requests, pc, resp, end, packet, txPending, data, offset, sentFinal,
  endpoint, completion, panicked,        (* as in UsbTx; asked is the      *)
                                         (* response to waiting, if any    *)
  counted,        (* handleErrors or txSendFailures went up for waiting    *)
  honest,         (* history: every message so far was Sendable            *)
  issued          (* history: the messages an honest host has begun and    *)
                  (* the Handler was not yet called with                   *)

hostVars == <<current, sent, waiting, given, honest>>
instrumentVars == <<answer, at, calls>>
txVars == <<pc, resp, end, packet, txPending, data, offset, sentFinal, endpoint, completion>>
vars == <<hostVars, queue, buf, out, instrumentVars, asked, got, requests, txVars, panicked,
          counted, issued>>

(* The bytes a request asks of the instrument.                             *)
Most == [m \in Requests |-> IF Declares[m] < MaxResponsePayload
                              THEN Declares[m] ELSE MaxResponsePayload]

Reasm == INSTANCE Reassembler
           WITH DevDepMsgOut <- Writes, NoMessage <- Nothing, MayBeLost <- FALSE,
                spoilt <- FALSE

Front == INSTANCE Handler

Tx == INSTANCE UsbTx
        WITH MaxPacketSize <- PacketSize, NoResponse <- Nothing,
             Length <- [r \in Responses |-> HeaderSize + r.n],
             Capacity <- [r \in Responses |-> HeaderSize + r.n],
             SendMayFail <- TRUE, HostGivesUp <- FALSE, MaxRequests <- 1

Init ==
  /\ current = Nothing /\ sent = 0
  /\ waiting = Nothing /\ given = Nothing
  /\ queue = <<>>
  /\ buf = Reasm!Empty /\ out = Nothing
  /\ answer = 0 /\ at = 0 /\ calls = 0
  /\ Tx!Init
  /\ counted = FALSE
  /\ honest = TRUE
  /\ issued = <<>>

-----------------------------------------------------------------------------
(* The host.  What it sends of a message is what the firmware takes the    *)
(* message's length to be; or, that length having wrapped below a          *)
(* header's, the message is dropped packet by packet: none of these is so  *)
(* short that it is kept as the beginning of a header.                     *)
Sendable(m) ==
  \/ Reasm!MessageLength(m) = SizeOf[m]
  \/ /\ Reasm!MessageLength(m) < HeaderSize
     /\ \A n \in 0 .. Reasm!Transfer(m) - 1 :
          n % PacketSize = 0 => Reasm!PacketAt(m, n).size >= HeaderSize

(* It begins the transfer of a message when it waits for no reply, and     *)
(* sends its packets as the ring has room for them.                        *)
Begin(m) ==
  /\ ~panicked
  /\ waiting = Nothing
  /\ Reasm!Between
  /\ current' = m
  /\ sent' = 0
  /\ waiting' = IF m \in Requests THEN m ELSE Nothing
  /\ given' = Nothing
  /\ counted' = FALSE
  /\ honest' = (honest /\ Sendable(m))
  /\ issued' = IF honest' THEN Append(issued, m) ELSE <<>>
  /\ UNCHANGED <<queue, buf, out, instrumentVars, asked, got, requests, txVars, panicked>>

SendPacket ==
  /\ ~panicked
  /\ ~Reasm!Between
  /\ Len(queue) < RingSize
  /\ LET p == Reasm!PacketAt(current, sent) IN
       /\ sent' = sent + p.size
       /\ queue' = Append(queue, p)
  /\ UNCHANGED <<current, waiting, given, honest, buf, out, instrumentVars, asked, got,
                 requests, txVars, panicked, counted, issued>>

(* It takes a packet of a reply, the last one if it is short.              *)
Receive ==
  /\ waiting # Nothing
  /\ endpoint # <<>>
  /\ LET p == endpoint[1] IN
       /\ got' = IF p.of = asked /\ p.from = got THEN p.to ELSE Tx!Garbled
       /\ IF Tx!IsFinal(p)
            THEN /\ given' = IF got' = HeaderSize + p.of.n
                               THEN p.of
                               ELSE [tag |-> p.of.tag, n |-> Tx!Garbled]
                 /\ waiting' = Nothing /\ asked' = Nothing
            ELSE UNCHANGED <<given, waiting, asked>>
  /\ endpoint' = <<>>
  /\ completion' = TRUE
  /\ UNCHANGED <<current, sent, honest, queue, buf, out, instrumentVars, requests, pc, resp,
                 end, packet, txPending, data, offset, sentFinal, panicked, counted, issued>>

(* Nothing moves any more, and its timeout expires.                        *)
Resting == Tx!Resting /\ queue = <<>> /\ Reasm!Between

GiveUp ==
  /\ ~panicked
  /\ waiting # Nothing
  /\ Resting
  /\ waiting' = Nothing /\ asked' = Nothing /\ got' = 0
  /\ UNCHANGED <<current, sent, given, honest, queue, buf, out, instrumentVars, requests,
                 txVars, panicked, counted, issued>>

-----------------------------------------------------------------------------
(* The last packet of a transfer.                                          *)
EndsTransfer(p) == p.from + p.size = Reasm!Transfer(p.of)

(* The message whose header is at the front of what Feed has returned: the *)
(* one that was sent, or one with less of it than a header or with bytes   *)
(* of other transfers in it.                                               *)
Returned(p) == IF out' = Reasm!Mangled THEN Reasm!Grown(buf, p).of ELSE out'

(* processPacket, up to startSend: there is a response to send, an error   *)
(* is counted, or neither.                                                 *)
Sends(r) ==
  /\ asked' = r /\ got' = 0
  /\ requests' = <<r>>
  /\ UNCHANGED counted

CountsError == counted' = TRUE /\ UNCHANGED <<asked, got, requests>>

Silent == UNCHANGED <<asked, got, requests, counted>>

Called == calls' = 1 - calls

(* History: the Handler was called with m, which is what comes next of the *)
(* messages issued, or should not have been.                               *)
Takes(m) ==
  issued' = IF ~honest THEN <<>>
            ELSE IF issued # <<>> /\ Head(issued) = m THEN Tail(issued)
            ELSE <<Nothing>>

(* HandleBulkOut, by the type of the message.  An error that is not about  *)
(* a request makes no difference here.  Instrument.Write may fail before   *)
(* the instrument has taken a byte.  Mutant: it is not called.             *)
HandleWriteInVain(m) ==
  /\ UNCHANGED <<instrumentVars, panicked>>
  /\ Silent

HandleWrite(m) ==
  LET size == Declares[m]
      len == Reasm!MessageLength(m) IN
    /\ IF Front!Sliced(size, len)
         THEN /\ Called
              /\ Front!Answering(TRUE) \/ Front!Answering(FALSE) \/ UNCHANGED <<answer, at>>
         ELSE UNCHANGED instrumentVars
    /\ panicked' = Front!OutOfRange(size, len)
    /\ Silent

HandleRequest(m) ==
  /\ Called
  /\ Front!TakenFrom(Declares[m])
  /\ \/ Sends([tag |-> Tag[m], n |-> Front!Declared(at' - at, Most[m])])
     \/ CountsError
  /\ UNCHANGED panicked

HandleTrigger == Called /\ UNCHANGED <<answer, at, panicked>> /\ Silent

HandleUnknown == UNCHANGED <<instrumentVars, panicked>> /\ Silent

HandleBulkOut(m) ==
  \/ m \in Writes /\ HandleWrite(m)
  \/ m \in Requests /\ HandleRequest(m)
  \/ m \in Triggers /\ HandleTrigger
  \/ m \notin Writes \cup Requests \cup Triggers /\ HandleUnknown

(* Feed returns nothing, or its slice expression goes out of range.        *)
NotReady ==
  /\ panicked' = (out' = Reasm!Panicked)
  /\ UNCHANGED <<issued, instrumentVars>>
  /\ Silent

Process ==
  /\ Tx!MainAt("idle")
  /\ requests = <<>>
  /\ queue # <<>>
  /\ queue' = Tail(queue)
  /\ Reasm!Feed(Head(queue))
  /\ LET m == Returned(Head(queue)) IN
       IF m \in Messages THEN Takes(m) /\ HandleBulkOut(m) ELSE NotReady
  /\ UNCHANGED <<hostVars, txVars>>

(* startSend and usbtmcTxHandler, with sendPacket's count of failures.     *)
Transmit ==
  /\ Tx!Main
  /\ counted' = (counted \/ (pc = "send" /\ endpoint' = <<>>))
  /\ UNCHANGED <<hostVars, queue, buf, out, instrumentVars, issued>>

TxHandler ==
  /\ Tx!TxHandler
  /\ counted' = (counted \/ (txPending /\ ~sentFinal /\ endpoint' = <<>>))
  /\ UNCHANGED <<hostVars, queue, buf, out, instrumentVars, issued>>

Main == Process \/ Transmit

Next ==
  \/ \E m \in Messages : Begin(m)
  \/ SendPacket
  \/ Receive
  \/ GiveUp
  \/ Main
  \/ TxHandler

(* The loop never stops, a pending interrupt is served, and a host goes on *)
(* with what it has begun.                                                 *)
Spec ==
  /\ Init /\ [][Next]_vars
  /\ WF_vars(SendPacket) /\ WF_vars(Receive) /\ WF_vars(Main) /\ WF_vars(TxHandler)

-----------------------------------------------------------------------------
TypeOK ==
  /\ Reasm!TypeOK
  /\ Tx!TypeOK
  /\ waiting \in Requests \cup {Nothing}
  /\ given \in Responses \cup {Nothing}
  /\ queue \in Seq([of : Messages, from : Nat, size : Nat]) /\ Len(queue) <= RingSize
  /\ at \in Nat /\ answer \in Nat /\ at <= answer
  /\ calls \in 0 .. 1
  /\ {counted, honest} \subseteq BOOLEAN

(* An int has no room for the length of these, or they are not as long as  *)
(* they declare, or they are of no known type.                             *)
Refusable ==
  {m \in Writes : SizeOf[m] # HeaderSize + Declares[m] \/ SizeOf[m] >= IntMod \div 2}
  \cup (Messages \ (Writes \cup Requests \cup Triggers))

(* From end to end: whatever calls and sends fail, what an honest host     *)
(* issues reaches the instrument once and in order, unless it must be      *)
(* refused; and the reply the host is given is whole and what was read for *)
(* the request it waits for.                                               *)
Service == INSTANCE InstrumentService WITH reply <- asked

ServiceImplemented == Service!Init /\ [][honest' => Service!Next]_(Service!vars)

(* And none of it is left undone: when nothing moves any more, everything  *)
(* an honest host has issued has come to the Handler.                      *)
NothingLeftUndone == honest /\ Resting /\ ~panicked => issued = <<>>

(* The firmware has no way to tell a host that its request has failed      *)
(* (processPacket's comment): it drops the request.  But whenever an       *)
(* honest host is left to wait in vain, an error was counted for its       *)
(* request.                                                                *)
SilenceIsCounted == honest /\ waiting # Nothing /\ Resting /\ ~panicked => counted

(* Behind the Reassembler, the Handler's slice expressions are safe,       *)
(* whatever Feed hands to it: where an int has no room for a declared      *)
(* size, Feed is the one that panics.                                      *)
HandlerIsSafe == panicked => out = Reasm!Panicked

(* A request comes to its end: a reply, or the rest that a patient host    *)
(* gives up in.                                                            *)
RequestsEnd == waiting # Nothing ~> waiting = Nothing \/ Resting \/ panicked

=============================================================================
