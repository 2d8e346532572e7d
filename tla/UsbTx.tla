-------------------------------- MODULE UsbTx --------------------------------
(***************************************************************************)
(* The way of a response to the host: startSend and usbtmcTxHandler of     *)
(* cmd/firmware/main.go around usbep.ChunkSender.                          *)
(*                                                                         *)
(* Main sets txPending, starts the sender and loads the first packet into  *)
(* the endpoint's one buffer.  Each time the host has taken a packet, the  *)
(* completion interrupt runs usbtmcTxHandler to its end, which loads the   *)
(* next one.  The sender is shared by both without a lock.  A step of main *)
(* is one access of what they share, in the order of the source: each word *)
(* of the slice data, offset, sentFinal, the buffer.  The interrupt may    *)
(* run between any two of them, and it runs before main's next step once   *)
(* it is pending.                                                          *)
(*                                                                         *)
(* A packet is the slice of a response it carries.  The requests arrive    *)
(* through RxRing, the Reassembler and the Handler, which are here the     *)
(* queue requests of the responses still to be sent.                       *)
(***************************************************************************)
EXTENDS Integers, Sequences

CONSTANTS
  MaxPacketSize,  (* usb.EndpointPacketSize: 64                            *)
  Responses,      (* the responses an instrument may give                  *)
  Length,         (* response |-> its bytes, header included               *)
  Capacity,       (* response |-> the capacity of its slice                *)
  NoResponse,     (* no response                                           *)
  SendMayFail,    (* machine.SendUSBInPacket may return false              *)
  HostGivesUp,    (* a host may stop waiting at any time, and ask again    *)
  MaxRequests     (* bound: the requests that wait for main                *)

ASSUME TxAssumption ==
  /\ MaxPacketSize \in Nat \ {0}
  /\ Length \in [Responses -> Nat]
  /\ Capacity \in [Responses -> Nat]
  /\ \A r \in Responses : Length[r] <= Capacity[r]
  /\ NoResponse \notin Responses
  /\ SendMayFail \in BOOLEAN
  /\ HostGivesUp \in BOOLEAN
  /\ MaxRequests \in Nat \ {0}

VARIABLES
  asked,          (* the response the host waits for                       *)
  got,            (* how far the host has it, or Garbled                   *)
  requests,       (* the responses main has still to send                  *)
  pc,             (* where main is in startSend                            *)
  resp,           (* startSend's data                                      *)
  end,            (* chunk's end, when Start calls it                      *)
  packet,         (* << >>, or << the packet Start returns >>              *)
  txPending,      (* txPending                                             *)
  data,           (* sender.data: whose bytes, their length and capacity   *)
  offset,         (* sender.offset                                         *)
  sentFinal,      (* sender.sentFinal                                      *)
  endpoint,       (* the bulk-IN buffer: << >>, or << a packet >>          *)
  completion,     (* the completion interrupt is pending                   *)
  panicked        (* a slice expression went out of range                  *)

hostVars == <<asked, got>>
senderVars == <<data, offset, sentFinal>>
mainVars == <<requests, pc, resp, end, packet>>
vars == <<hostVars, mainVars, txPending, senderVars, endpoint, completion, panicked>>

(* What a host has when a packet came that does not continue the response. *)
Garbled == -1

(* The slice of a response, and the slice that nobody has set.             *)
Whole(r) == [of |-> r, len |-> Length[r], cap |-> Capacity[r]]

NoData == [of |-> NoResponse, len |-> 0, cap |-> 0]

(* chunk: the end of the slice that starts at from; whether it is in range *)
(* of the slice d; and the slice.                                          *)
End(d, from) == IF from + MaxPacketSize < d.len THEN from + MaxPacketSize ELSE d.len

InRange(d, from, to) == from <= to /\ to <= d.cap

Cut(d, from, to) == [of |-> d.of, from |-> from, to |-> to]

Chunk(d, from) == Cut(d, from, End(d, from))

Size(p) == p.to - p.from

IsFinal(p) == Size(p) < MaxPacketSize

Init ==
  /\ asked = NoResponse
  /\ got = 0
  /\ requests = <<>>
  /\ pc = "idle"
  /\ resp = NoResponse
  /\ end = 0
  /\ packet = <<>>
  /\ txPending = FALSE
  /\ data = NoData
  /\ offset = 0
  /\ sentFinal = FALSE
  /\ endpoint = <<>>
  /\ completion = FALSE
  /\ panicked = FALSE

-----------------------------------------------------------------------------
(* The host.                                                               *)

(* It sends a request for a response, which reaches main.                  *)
Ask(r) ==
  /\ asked = NoResponse
  /\ Len(requests) < MaxRequests
  /\ asked' = r
  /\ got' = 0
  /\ requests' = Append(requests, r)
  /\ UNCHANGED <<pc, resp, end, packet, txPending, senderVars, endpoint, completion,
                 panicked>>

(* It takes the packet that is in the endpoint's buffer; a short one ends  *)
(* the response.  The interrupt this causes is still to be served.         *)
Receive ==
  /\ asked # NoResponse
  /\ endpoint # <<>>
  /\ LET p == endpoint[1] IN
       /\ got' = IF p.of = asked /\ p.from = got THEN p.to ELSE Garbled
       /\ asked' = IF Size(p) < MaxPacketSize THEN NoResponse ELSE asked
  /\ endpoint' = <<>>
  /\ completion' = TRUE
  /\ UNCHANGED <<mainVars, txPending, senderVars, panicked>>

(* Nothing moves any more: main and the sender have nothing to do, and     *)
(* there is no packet for the host.                                        *)
Resting == requests = <<>> /\ pc = "idle" /\ endpoint = <<>> /\ ~completion

(* Its timeout expires; a patient host's not before nothing moves.  The    *)
(* firmware implements no abort request, so the transfer it has begun      *)
(* stays as it is.                                                         *)
GiveUp ==
  /\ HostGivesUp \/ Resting
  /\ asked # NoResponse
  /\ asked' = NoResponse
  /\ got' = 0
  /\ UNCHANGED <<mainVars, txPending, senderVars, endpoint, completion, panicked>>

-----------------------------------------------------------------------------
(* sendPacket: machine.SendUSBInPacket fills the buffer, whatever is in    *)
(* it, or fails; nobody acts on a failure.                                 *)
SendPacket(p) ==
  \/ endpoint' = <<p>>
  \/ SendMayFail /\ endpoint' = endpoint

(* Main runs when no interrupt is pending.                                 *)
MainAt(label) == pc = label /\ ~completion /\ ~panicked

(* Mutant: a response waits until the transmission before it is over.      *)
AcceptWhenDone ==
  /\ MainAt("idle")
  /\ ~txPending
  /\ requests # <<>>
  /\ resp' = Head(requests)
  /\ requests' = Tail(requests)
  /\ txPending' = TRUE
  /\ pc' = "start"
  /\ UNCHANGED <<hostVars, end, packet, senderVars, endpoint, completion, panicked>>

(* processPacket has a response; startSend: txPending = true.              *)
Accept ==
  /\ MainAt("idle")
  /\ requests # <<>>
  /\ resp' = Head(requests)
  /\ requests' = Tail(requests)
  /\ txPending' = TRUE
  /\ pc' = "start"
  /\ UNCHANGED <<hostVars, end, packet, senderVars, endpoint, completion, panicked>>

(* What Start's accesses have in common: the rest of the firmware waits.   *)
InStart(label) ==
  /\ MainAt(label)
  /\ UNCHANGED <<hostVars, requests, resp, txPending, completion>>

(* Start: c.data = data, a word after the other.                           *)
StartData ==
  /\ InStart("start")
  /\ \E word \in {"of", "len", "cap"} : data' = [data EXCEPT ![word] = Whole(resp)[word]]
  /\ pc' = IF data' = Whole(resp) THEN "offset" ELSE "start"
  /\ UNCHANGED <<end, packet, offset, sentFinal, endpoint, panicked>>

(* Mutant: the offset of the transfer before is kept.                      *)
StartKeepsOffset ==
  /\ InStart("offset")
  /\ pc' = "final"
  /\ UNCHANGED <<end, packet, senderVars, endpoint, panicked>>

(* c.offset = 0                                                            *)
StartOffset ==
  /\ InStart("offset")
  /\ offset' = 0
  /\ pc' = "final"
  /\ UNCHANGED <<end, packet, data, sentFinal, endpoint, panicked>>

(* c.sentFinal = false                                                     *)
StartSentFinal ==
  /\ InStart("final")
  /\ sentFinal' = FALSE
  /\ pc' = "end"
  /\ UNCHANGED <<end, packet, data, offset, endpoint, panicked>>

(* chunk, called by Start, loads c.offset for the end of the slice ...     *)
ChunkEnd ==
  /\ InStart("end")
  /\ end' = End(data, offset)
  /\ pc' = "slice"
  /\ UNCHANGED <<packet, senderVars, endpoint, panicked>>

(* Mutant: no packet for an empty response.                                *)
ChunkNothing ==
  /\ InStart("slice")
  /\ packet' = IF end = 0 THEN <<>> ELSE <<Cut(data, offset, end)>>
  /\ pc' = "advance"
  /\ UNCHANGED <<end, senderVars, endpoint, panicked>>

(* Mutant: the packet is sent as soon as it is cut, before the sender has  *)
(* noted that it was.                                                      *)
ChunkSendsEarly ==
  /\ InStart("slice")
  /\ InRange(data, offset, end)
  /\ packet' = <<Cut(data, offset, end)>>
  /\ endpoint' = packet'
  /\ pc' = "advance"
  /\ UNCHANGED <<end, senderVars, panicked>>

(* ... and again for its start.                                            *)
ChunkSlice ==
  /\ InStart("slice")
  /\ IF InRange(data, offset, end)
       THEN packet' = <<Cut(data, offset, end)>> /\ pc' = "advance" /\ UNCHANGED panicked
       ELSE panicked' = TRUE /\ UNCHANGED <<packet, pc>>
  /\ UNCHANGED <<end, senderVars, endpoint>>

(* c.offset = end                                                          *)
ChunkAdvance ==
  /\ InStart("advance")
  /\ offset' = end
  /\ end' = 0
  /\ pc' = IF IsFinal(packet[1]) THEN "mark" ELSE "send"
  /\ UNCHANGED <<packet, data, sentFinal, endpoint, panicked>>

(* c.sentFinal = true, after a short packet.                               *)
ChunkMark ==
  /\ InStart("mark")
  /\ sentFinal' = TRUE
  /\ pc' = "send"
  /\ UNCHANGED <<end, packet, data, offset, endpoint, panicked>>

(* sendPacket of the first packet; startSend returns.                      *)
StartSend ==
  /\ MainAt("send")
  /\ SendPacket(packet[1])
  /\ packet' = <<>>
  /\ resp' = NoResponse
  /\ pc' = "idle"
  /\ UNCHANGED <<hostVars, requests, end, txPending, senderVars, completion, panicked>>

-----------------------------------------------------------------------------
(* usbtmcTxHandler, with Next and chunk.                                   *)
TxIgnored ==
  /\ ~txPending
  /\ UNCHANGED <<txPending, senderVars, endpoint, panicked>>

TxDone ==
  /\ txPending
  /\ sentFinal
  /\ txPending' = FALSE
  /\ UNCHANGED <<senderVars, endpoint, panicked>>

(* Mutant: the next chunk starts where the last one did.                   *)
TxNextRepeats ==
  /\ txPending
  /\ ~sentFinal
  /\ InRange(data, offset, End(data, offset))
  /\ LET p == Chunk(data, offset) IN
       /\ sentFinal' = IsFinal(p)
       /\ SendPacket(p)
  /\ UNCHANGED <<txPending, data, offset, panicked>>

TxNext ==
  /\ txPending
  /\ ~sentFinal
  /\ InRange(data, offset, End(data, offset))
  /\ LET p == Chunk(data, offset) IN
       /\ offset' = p.to
       /\ sentFinal' = IsFinal(p)
       /\ SendPacket(p)
  /\ UNCHANGED <<txPending, data, panicked>>

(* c.data[c.offset:end] with an offset or a capacity left from another     *)
(* response.                                                               *)
TxPanics ==
  /\ txPending
  /\ ~sentFinal
  /\ ~InRange(data, offset, End(data, offset))
  /\ panicked' = TRUE
  /\ UNCHANGED <<txPending, senderVars, endpoint>>

TxHandler ==
  /\ completion
  /\ ~panicked
  /\ completion' = FALSE
  /\ UNCHANGED <<hostVars, mainVars>>
  /\ TxIgnored \/ TxDone \/ TxNext \/ TxPanics

Start == StartData \/ StartOffset \/ StartSentFinal

ChunkOfStart == ChunkEnd \/ ChunkSlice \/ ChunkAdvance \/ ChunkMark

Main == Accept \/ Start \/ ChunkOfStart \/ StartSend

Next ==
  \/ \E r \in Responses : Ask(r)
  \/ Receive
  \/ GiveUp
  \/ Main
  \/ TxHandler

(* The loop never stops, a pending interrupt is served, and a host that    *)
(* waits keeps polling the endpoint.                                       *)
Spec == Init /\ [][Next]_vars /\ WF_vars(Main) /\ WF_vars(TxHandler) /\ WF_vars(Receive)

-----------------------------------------------------------------------------
DataType == [of : Responses \cup {NoResponse}, len : Nat, cap : Nat]

PacketType == [of : Responses \cup {NoResponse}, from : Nat, to : Nat]

TypeOK ==
  /\ asked \in Responses \cup {NoResponse}
  /\ got \in Nat \cup {Garbled}
  /\ requests \in Seq(Responses)
  /\ pc \in {"idle", "start", "offset", "final", "end", "slice", "advance", "mark", "send"}
  /\ IF pc = "idle" THEN resp = NoResponse ELSE resp \in Responses
  /\ end \in Nat
  /\ IF pc \in {"advance", "mark", "send"}
       THEN packet \in [1..1 -> PacketType]
       ELSE packet = <<>>
  /\ txPending \in BOOLEAN
  /\ data \in DataType
  /\ offset \in Nat
  /\ sentFinal \in BOOLEAN
  /\ endpoint = <<>> \/ endpoint \in [1..1 -> PacketType]
  /\ completion \in BOOLEAN
  /\ panicked \in BOOLEAN

(* The host is given the response it asked for, in order and in full       *)
(* unless it gives up, in packets of which the last is the only short one, *)
(* and never a packet after it.                                            *)
Bulk == INSTANCE BulkIn

ResponsesArriveWhole == Bulk!Spec

(* A host that waits is answered, if no packet fails to be loaded.         *)
Answered == asked # NoResponse ~> asked = NoResponse

(* The contract of usbep.ChunkSender (its comments on Start and Next): the *)
(* packet Start returns has been sent before Next is called, and Next does *)
(* not find the offset past the end of the data.                           *)
NextFollowsSend == completion /\ txPending => pc = "idle"

NeverPanics == ~panicked

(* Whatever the host does, the sender panics nowhere but in two windows of *)
(* Start.  From the first word of c.data to the store of c.offset, the     *)
(* interrupt may find an offset that the data are too short for.  Between  *)
(* chunk's two loads of c.offset, completions may move it past the end     *)
(* that was computed from it, and main's slice expression is the one that  *)
(* panics.  The rest of startSend, and main's loop, are safe from both.    *)
PanicsOnlyInStart == panicked => pc \in {"start", "offset", "slice"}

(* What makes the firmware keep both promises when the host asks for one   *)
(* response at a time and waits for it as long as anything moves.          *)
Streaming == asked # NoResponse /\ requests = <<>> /\ pc = "idle"

Starting == pc # "idle"

RequestInv ==
  /\ asked = NoResponse => requests = <<>> /\ pc = "idle" /\ endpoint = <<>>
  /\ requests # <<>> => /\ requests = <<asked>>
                        /\ pc = "idle"
                        /\ got = 0
                        /\ endpoint = <<>>
  /\ completion => pc = "idle" /\ endpoint = <<>>
  /\ completion /\ ~Streaming => sentFinal

StartInv ==
  Starting =>
    /\ asked = resp
    /\ got = 0
    /\ requests = <<>>
    /\ endpoint = <<>>
    /\ pc # "start" => data = Whole(resp)
    /\ pc \in {"final", "end", "slice", "advance"} => offset = 0
    /\ pc \in {"end", "slice", "advance", "mark"} => ~sentFinal
    /\ pc \in {"slice", "advance"} => end = End(Whole(resp), 0)
    /\ pc \in {"advance", "mark", "send"} => packet = <<Chunk(Whole(resp), 0)>>
    /\ pc \in {"mark", "send"} => offset = End(Whole(resp), 0)
    /\ pc = "mark" => IsFinal(Chunk(Whole(resp), 0))
    /\ pc = "send" => sentFinal = IsFinal(Chunk(Whole(resp), 0))

StreamInv ==
  Streaming =>
    /\ data = Whole(asked)
    /\ got \in 0 .. Length[asked]
    /\ endpoint # <<>> => /\ endpoint = <<Chunk(Whole(asked), got)>>
                          /\ offset = End(Whole(asked), got)
                          /\ sentFinal = IsFinal(Chunk(Whole(asked), got))
    /\ completion => offset = got /\ ~sentFinal

PatientInv == ~panicked /\ RequestInv /\ StartInv /\ StreamInv

=============================================================================
