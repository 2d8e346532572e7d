----------------------------- MODULE UsbTxProofs ------------------------------
(***************************************************************************)
(* Proofs about UsbTx, for every packet size and all responses: with a     *)
(* host that waits for each response, the interleaving of startSend and    *)
(* usbtmcTxHandler sends every response whole and breaks no contract, the  *)
(* responses included that follow one the host has given up in vain; and   *)
(* with any host, there are two windows in which it can panic.             *)
(***************************************************************************)
EXTENDS UsbTx, TLAPS

USE TxAssumption

-----------------------------------------------------------------------------
(* The slices the sender cuts.                                             *)
LEMMA ChunkFacts ==
  ASSUME NEW r \in Responses, NEW from \in 0 .. Length[r]
  PROVE  /\ Length[r] \in Nat
         /\ Whole(r) \in DataType
         /\ InRange(Whole(r), from, End(Whole(r), from))
         /\ End(Whole(r), from) \in from .. Length[r]
         /\ Chunk(Whole(r), from) \in PacketType
         /\ Chunk(Whole(r), from) = Cut(Whole(r), from, End(Whole(r), from))
         /\ Chunk(Whole(r), from).of = r
         /\ Chunk(Whole(r), from).from = from
         /\ Chunk(Whole(r), from).to = End(Whole(r), from)
         /\ Size(Chunk(Whole(r), from)) <= MaxPacketSize
         /\ IsFinal(Chunk(Whole(r), from)) <=> from + MaxPacketSize > Length[r]
         /\ ~IsFinal(Chunk(Whole(r), from)) => End(Whole(r), from) = from + MaxPacketSize
         /\ IsFinal(Chunk(Whole(r), from)) => End(Whole(r), from) = Length[r]
         /\ IsFinal(Chunk(Whole(r), from)) \in BOOLEAN
<1> DEFINE d == Whole(r)
<1>1. d.len = Length[r] /\ d.cap = Capacity[r] /\ d.of = r /\ d \in DataType
  BY DEF Whole, DataType
<1> HIDE DEF d
<1>2. /\ Length[r] \in Nat /\ Capacity[r] \in Nat /\ Length[r] <= Capacity[r]
      /\ MaxPacketSize \in Nat \ {0}
  OBVIOUS
<1>3. End(d, from) \in from .. Length[r]
  BY <1>1, <1>2 DEF End
<1>4. InRange(d, from, End(d, from))
  BY <1>1, <1>2, <1>3 DEF InRange
<1>5. /\ Chunk(d, from) = Cut(d, from, End(d, from))
      /\ Chunk(d, from) = [of |-> r, from |-> from, to |-> End(d, from)]
  BY <1>1 DEF Chunk, Cut
<1>6. Size(Chunk(d, from)) = End(d, from) - from
  BY <1>5 DEF Size
<1>7. Chunk(d, from) \in PacketType
  BY <1>2, <1>3, <1>5 DEF PacketType
<1>8. /\ End(d, from) - from <= MaxPacketSize
      /\ IsFinal(Chunk(d, from)) <=> from + MaxPacketSize > Length[r]
      /\ ~IsFinal(Chunk(d, from)) => End(d, from) = from + MaxPacketSize
      /\ IsFinal(Chunk(d, from)) => End(d, from) = Length[r]
      /\ IsFinal(Chunk(d, from)) \in BOOLEAN
  BY <1>1, <1>2, <1>3, <1>6 DEF End, IsFinal
<1> QED BY <1>1, <1>2, <1>3, <1>4, <1>5, <1>6, <1>7, <1>8 DEF d

(* What holds of the flow of responses to a patient host, also where       *)
(* something else makes the firmware panic: PatientInv is this and that    *)
(* the flow does not.                                                      *)
FlowInv == RequestInv /\ StartInv /\ StreamInv

(* The invariants hold before the first request.                           *)
LEMMA InitOK == Init => TypeOK /\ FlowInv
<1> SUFFICES ASSUME Init
             PROVE  TypeOK /\ FlowInv
  OBVIOUS
<1>1. TypeOK
  <2>1. requests \in Seq(Responses)
    BY DEF Init
  <2>2. got \in Nat \cup {Garbled} /\ offset \in Nat /\ end \in Nat /\ data \in DataType
    BY DEF Init, NoData, DataType
  <2>3. pc = "idle" /\ "idle" \notin {"advance", "mark", "send"}
    BY DEF Init
  <2>4. /\ txPending \in BOOLEAN /\ sentFinal \in BOOLEAN
        /\ completion \in BOOLEAN /\ panicked \in BOOLEAN
    BY Zenon DEF Init
  <2> QED BY <2>1, <2>2, <2>3, <2>4, Zenon DEF Init, TypeOK
<1>2. FlowInv
  BY DEF Init, FlowInv, RequestInv, StartInv, StreamInv, Streaming, Starting
<1> QED BY <1>1, <1>2

(* A request is added for a host that waits for nothing else.              *)
LEMMA AskStep ==
  ASSUME TypeOK, FlowInv, NEW r \in Responses, Ask(r)
  PROVE  TypeOK' /\ FlowInv' /\ Bulk!Ask(r)
<1> USE DEF Ask, senderVars, FlowInv
<1>1. requests = <<>> /\ requests' = <<r>>
  BY DEF TypeOK, RequestInv
<1>2. TypeOK'
  BY <1>1 DEF TypeOK
<1>3. RequestInv' /\ StartInv' /\ StreamInv'
  BY <1>1 DEF TypeOK, RequestInv, StartInv, StreamInv, Streaming, Starting
<1> QED BY <1>1, <1>2, <1>3 DEF Bulk!Ask

(* The packet in the endpoint's buffer is the one that continues the       *)
(* response the host waits for.                                            *)
LEMMA NextForHost ==
  ASSUME TypeOK, FlowInv, endpoint # <<>>
  PROVE  /\ Streaming /\ asked \in Responses /\ ~completion
         /\ got \in 0 .. Length[asked]
         /\ endpoint[1] = Chunk(Whole(asked), got)
         /\ offset = End(Whole(asked), got)
         /\ sentFinal = IsFinal(Chunk(Whole(asked), got))
         /\ data = Whole(asked)
<1>1. Streaming /\ asked \in Responses /\ ~completion
  BY DEF TypeOK, FlowInv, RequestInv, StartInv, Streaming, Starting
<1> QED BY <1>1 DEF FlowInv, StreamInv

(* The host takes a packet: the one that continues its response.           *)
LEMMA ReceiveStep ==
  ASSUME TypeOK, FlowInv, Receive
  PROVE  TypeOK' /\ FlowInv' /\ (Bulk!Full \/ Bulk!Short)
<1> USE DEF Receive, mainVars, senderVars, FlowInv
<1>1. Streaming /\ asked \in Responses /\ ~completion
  BY NextForHost
<1>2. /\ got \in 0 .. Length[asked]
      /\ endpoint[1] = Chunk(Whole(asked), got)
      /\ offset = End(Whole(asked), got)
      /\ sentFinal = IsFinal(Chunk(Whole(asked), got))
      /\ data = Whole(asked)
  BY NextForHost
<1>3. /\ got' = End(Whole(asked), got)
      /\ asked' = IF sentFinal THEN NoResponse ELSE asked
  <2> DEFINE c == Chunk(Whole(asked), got)
  <2>1. c.of = asked /\ c.from = got /\ c.to = End(Whole(asked), got)
    BY <1>1, <1>2, ChunkFacts
  <2>2. sentFinal <=> Size(c) < MaxPacketSize
    BY <1>2 DEF IsFinal
  <2> HIDE DEF c
  <2>3. endpoint[1] = c
    BY <1>2 DEF c
  <2> QED BY <2>1, <2>2, <2>3
<1>4. TypeOK'
  <2>1. End(Whole(asked), got) \in Nat
    <3> HIDE DEF Receive, FlowInv
    <3> QED BY <1>1, <1>2, ChunkFacts
  <2>2. got' \in Nat /\ asked' \in Responses \cup {NoResponse}
    BY <1>1, <1>3, <2>1
  <2> QED BY <2>2 DEF TypeOK
<1>5. CASE sentFinal
  <2>1. RequestInv' /\ StartInv' /\ StreamInv'
    BY <1>1, <1>3, <1>5 DEF RequestInv, StartInv, StreamInv, Streaming, Starting
  <2>2. Bulk!Short
    BY <1>1, <1>2, <1>3, <1>5, ChunkFacts DEF Bulk!Short
  <2> QED BY <1>4, <2>1, <2>2
<1>6. CASE ~sentFinal
  <2>1. RequestInv' /\ StartInv' /\ StreamInv'
    <3>1. End(Whole(asked), got) \in 0 .. Length[asked]
      <4> HIDE DEF Receive, FlowInv
      <4> QED BY <1>1, <1>2, ChunkFacts
    <3>2. Streaming' /\ asked' = asked /\ ~Starting'
      BY <1>1, <1>3, <1>6 DEF Streaming, Starting
    <3>3. StreamInv'
      BY <1>2, <1>3, <1>6, <3>1, <3>2 DEF StreamInv
    <3>4. RequestInv' /\ StartInv'
      BY <1>1, <3>2 DEF RequestInv, StartInv, Streaming
    <3> QED BY <3>3, <3>4
  <2>2. Bulk!Full
    <3>1. End(Whole(asked), got) = got + MaxPacketSize /\ got + MaxPacketSize <= Length[asked]
      <4> HIDE DEF Receive, FlowInv
      <4> QED BY <1>1, <1>2, <1>6, ChunkFacts
    <3> QED BY <1>1, <1>3, <1>6, <3>1 DEF Bulk!Full
  <2> QED BY <1>4, <2>1, <2>2
<1> QED BY <1>5, <1>6 DEF TypeOK

(* startSend, store by store.                                              *)
LEMMA MainStep ==
  ASSUME TypeOK, FlowInv, Main
  PROVE  TypeOK' /\ FlowInv' /\ UNCHANGED <<hostVars, panicked>>
<1> USE DEF MainAt, hostVars, senderVars, FlowInv
<1>1. CASE Accept
  <2>1. requests = <<asked>> /\ asked \in Responses /\ got = 0 /\ endpoint = <<>>
    BY <1>1 DEF Accept, TypeOK, RequestInv
  <2>2. resp' = asked /\ requests' = <<>>
    BY <1>1, <2>1 DEF Accept
  <2>3. TypeOK'
    BY <1>1, <2>1, <2>2 DEF Accept, TypeOK
  <2>4. RequestInv' /\ StartInv' /\ StreamInv'
    BY <1>1, <2>1, <2>2 DEF Accept, RequestInv, StartInv, StreamInv, Streaming, Starting, TypeOK
  <2> QED BY <1>1, <2>3, <2>4 DEF Accept
<1>2. CASE StartData
  <2>1. resp \in Responses /\ data' \in DataType
    <3>1. resp \in Responses /\ Whole(resp) \in DataType
      BY <1>2 DEF StartData, InStart, TypeOK, Whole, DataType
    <3> QED BY <1>2, <3>1 DEF StartData, TypeOK, DataType
  <2>2. CASE data' = Whole(resp)
    <3>1. pc' = "offset"
      BY <1>2, <2>2 DEF StartData
    <3> QED
      BY <1>2, <2>1, <2>2, <3>1
      DEF StartData, InStart, TypeOK, RequestInv, StartInv, StreamInv, Streaming, Starting
  <2>3. CASE data' # Whole(resp)
    <3>1. pc' = "start"
      BY <1>2, <2>3 DEF StartData
    <3> QED
      BY <1>2, <2>1, <3>1
      DEF StartData, InStart, TypeOK, RequestInv, StartInv, StreamInv, Streaming, Starting
  <2> QED BY <2>2, <2>3
<1>3. CASE StartOffset
  BY <1>3 DEF StartOffset, InStart, TypeOK, RequestInv, StartInv, StreamInv, Streaming, Starting
<1>4. CASE StartSentFinal
  BY <1>4 DEF StartSentFinal, InStart, TypeOK, RequestInv, StartInv, StreamInv, Streaming, Starting
<1>5. CASE ChunkEnd
  <2>1. resp \in Responses /\ data = Whole(resp) /\ offset = 0 /\ 0 \in 0 .. Length[resp]
    BY <1>5 DEF ChunkEnd, InStart, TypeOK, StartInv, Starting
  <2>2. end' = End(Whole(resp), 0) /\ end' \in Nat
    BY <1>5, <2>1, ChunkFacts DEF ChunkEnd
  <2> QED
    BY <1>5, <2>1, <2>2
    DEF ChunkEnd, InStart, TypeOK, RequestInv, StartInv, StreamInv, Streaming, Starting
<1>7. CASE ChunkSlice
  <2>1. /\ resp \in Responses /\ data = Whole(resp) /\ offset = 0 /\ 0 \in 0 .. Length[resp]
        /\ end = End(Whole(resp), 0)
    BY <1>7 DEF ChunkSlice, InStart, TypeOK, StartInv, Starting
  <2>2. InRange(data, offset, end) /\ Cut(data, offset, end) = Chunk(Whole(resp), 0)
    BY <2>1, ChunkFacts
  <2>3. packet' = <<Chunk(Whole(resp), 0)>> /\ pc' = "advance" /\ UNCHANGED panicked
    BY <1>7, <2>2 DEF ChunkSlice
  <2>4. Chunk(Whole(resp), 0) \in PacketType
    BY <2>1, ChunkFacts
  <2> QED
    BY <1>7, <2>1, <2>3, <2>4
    DEF ChunkSlice, InStart, TypeOK, RequestInv, StartInv, StreamInv, Streaming, Starting
<1>8. CASE ChunkAdvance
  <2>1. /\ resp \in Responses /\ packet = <<Chunk(Whole(resp), 0)>> /\ ~sentFinal
        /\ end = End(Whole(resp), 0) /\ data = Whole(resp) /\ 0 \in 0 .. Length[resp]
    BY <1>8 DEF ChunkAdvance, InStart, TypeOK, StartInv, Starting
  <2>2. /\ offset' = End(Whole(resp), 0) /\ offset' \in Nat
        /\ pc' = IF IsFinal(Chunk(Whole(resp), 0)) THEN "mark" ELSE "send"
        /\ IsFinal(Chunk(Whole(resp), 0)) \in BOOLEAN
    BY <1>8, <2>1, ChunkFacts DEF ChunkAdvance
  <2>3. TypeOK'
    BY <1>8, <2>2 DEF ChunkAdvance, InStart, TypeOK
  <2>4. RequestInv' /\ StartInv' /\ StreamInv'
    BY <1>8, <2>1, <2>2
    DEF ChunkAdvance, InStart, TypeOK, RequestInv, StartInv, StreamInv, Streaming, Starting
  <2> QED BY <1>8, <2>3, <2>4 DEF ChunkAdvance, InStart
<1>9. CASE ChunkMark
  BY <1>9 DEF ChunkMark, InStart, TypeOK, RequestInv, StartInv, StreamInv, Streaming, Starting
<1>6. CASE StartSend
  <2>1. /\ resp \in Responses /\ 0 \in 0 .. Length[resp] /\ packet = <<Chunk(Whole(resp), 0)>>
        /\ asked = resp /\ data = Whole(resp) /\ got = 0 /\ endpoint = <<>>
        /\ offset = End(Whole(resp), 0) /\ sentFinal = IsFinal(Chunk(Whole(resp), 0))
    BY <1>6 DEF StartSend, TypeOK, StartInv, Starting
  <2>2. endpoint' = <<Chunk(Whole(resp), 0)>> \/ endpoint' = <<>>
    BY <1>6, <2>1 DEF StartSend, SendPacket
  <2>3. TypeOK'
    BY <1>6, <2>1, <2>2, ChunkFacts DEF StartSend, TypeOK
  <2>4. RequestInv' /\ StartInv' /\ StreamInv'
    BY <1>6, <2>1, <2>2, ChunkFacts DEF StartSend, TypeOK, RequestInv, StartInv, StreamInv, Streaming, Starting
  <2> QED BY <1>6, <2>3, <2>4 DEF StartSend
<1> QED
  BY <1>1, <1>2, <1>3, <1>4, <1>5, <1>6, <1>7, <1>8, <1>9 DEF Main, Start, ChunkOfStart

(* A patient host gives up when nothing moves.                             *)
LEMMA GiveUpStep ==
  ASSUME ~HostGivesUp, TypeOK, FlowInv, GiveUp
  PROVE  TypeOK' /\ FlowInv' /\ Bulk!GiveUp
<1> USE DEF GiveUp, Resting, mainVars, senderVars, FlowInv
<1>1. TypeOK'
  BY DEF TypeOK
<1>2. RequestInv' /\ StartInv' /\ StreamInv'
  BY DEF RequestInv, StartInv, StreamInv, Streaming, Starting
<1> QED BY <1>1, <1>2 DEF Bulk!GiveUp

(* usbtmcTxHandler: the interrupt finds the sender at rest.                *)
LEMMA TxHandlerStep ==
  ASSUME TypeOK, FlowInv, TxHandler
  PROVE  TypeOK' /\ FlowInv' /\ UNCHANGED <<hostVars, panicked>>
<1> USE DEF TxHandler, hostVars, mainVars, senderVars, FlowInv
<1>1. completion /\ endpoint = <<>> /\ pc = "idle"
  BY DEF RequestInv
<1>2. ASSUME txPending, ~sentFinal
      PROVE  /\ Streaming /\ data = Whole(asked) /\ offset = got
             /\ asked \in Responses /\ got \in 0 .. Length[asked]
  BY <1>1, <1>2 DEF TypeOK, RequestInv, StreamInv, Streaming
<1>3. CASE TxIgnored \/ TxDone
  <2> USE <1>3 DEF TxIgnored, TxDone
  <2>1. /\ txPending' \in BOOLEAN
        /\ UNCHANGED <<data, offset, sentFinal, endpoint, panicked>>
    BY DEF TypeOK
  <2>2. TypeOK'
    BY <2>1 DEF TypeOK
  <2>3. RequestInv' /\ StartInv' /\ StreamInv'
    BY <1>1, <2>1 DEF RequestInv, StartInv, StreamInv, Streaming, Starting
  <2> QED BY <2>1, <2>2, <2>3
<1>4. CASE TxNext
  <2> USE <1>4 DEF TxNext
  <2>1. /\ Streaming /\ data = Whole(asked) /\ offset = got
        /\ asked \in Responses /\ got \in 0 .. Length[asked]
    BY <1>2
  <2>2. /\ offset' = End(Whole(asked), got) /\ sentFinal' = IsFinal(Chunk(Whole(asked), got))
        /\ endpoint' = <<Chunk(Whole(asked), got)>> \/ endpoint' = <<>>
    BY <1>1, <2>1, ChunkFacts DEF SendPacket
  <2>3. TypeOK'
    <3>1. offset' \in Nat /\ sentFinal' \in BOOLEAN
      BY <2>1, <2>2, ChunkFacts
    <3>2. endpoint' = <<>> \/ endpoint' \in [1..1 -> PacketType]
      BY <2>1, <2>2, ChunkFacts
    <3> HIDE DEF TxNext
    <3>3. UNCHANGED <<asked, got, requests, pc, resp, packet, txPending, data, panicked>>
      BY DEF TxNext
    <3> QED BY <3>1, <3>2, <3>3 DEF TypeOK
  <2>4. RequestInv' /\ StartInv' /\ StreamInv'
    BY <1>1, <2>1, <2>2 DEF RequestInv, StartInv, StreamInv, Streaming, Starting
  <2> QED BY <2>3, <2>4
<1>5. CASE TxPanics
  <2>1. /\ data = Whole(asked) /\ offset = got
        /\ asked \in Responses /\ got \in 0 .. Length[asked]
    BY <1>2, <1>5 DEF TxPanics
  <2>2. InRange(data, offset, End(data, offset))
    BY <2>1, ChunkFacts
  <2> QED BY <1>5, <2>2 DEF TxPanics
<1> QED BY <1>3, <1>4, <1>5

(* The steps together.                                                     *)
LEMMA PatientStep ==
  ASSUME ~HostGivesUp, TypeOK, FlowInv, [Next]_vars
  PROVE  /\ TypeOK' /\ FlowInv' /\ UNCHANGED panicked
         /\ [Bulk!Next]_(Bulk!vars)
<1>1. ASSUME NEW r \in Responses, Ask(r)
      PROVE  TypeOK' /\ FlowInv' /\ UNCHANGED panicked /\ Bulk!Next
  BY <1>1, AskStep DEF Ask, Bulk!Next
<1>2. CASE Receive
  BY <1>2, ReceiveStep DEF Receive, Bulk!Next
<1>3. CASE GiveUp
  BY <1>3, GiveUpStep DEF GiveUp, Bulk!Next
<1>4. CASE Main
  BY <1>4, MainStep DEF hostVars, Bulk!vars
<1>5. CASE TxHandler
  BY <1>5, TxHandlerStep DEF hostVars, Bulk!vars
<1>6. CASE UNCHANGED vars
  BY <1>6
  DEF vars, hostVars, mainVars, senderVars, Bulk!vars, TypeOK, FlowInv,
      RequestInv, StartInv, StreamInv, Streaming, Starting
<1> QED BY <1>1, <1>2, <1>3, <1>4, <1>5, <1>6 DEF Next

(* The invariant of the patient host's runs.                               *)
THEOREM PatientInvariant ==
  ASSUME ~HostGivesUp
  PROVE  Spec => [](TypeOK /\ PatientInv)
<1>1. TypeOK /\ PatientInv /\ [Next]_vars => TypeOK' /\ PatientInv'
  BY PatientStep DEF PatientInv, FlowInv
<1>2. Init => TypeOK /\ PatientInv
  BY InitOK DEF Init, PatientInv, FlowInv
<1> QED BY <1>1, <1>2, PTL DEF Spec

(* Next is never called between the two halves of startSend, and no slice  *)
(* expression goes out of range.                                           *)
THEOREM ContractKept ==
  ASSUME ~HostGivesUp
  PROVE  Spec => []NextFollowsSend /\ []NeverPanics
<1>1. TypeOK /\ PatientInv => NextFollowsSend /\ NeverPanics
  BY DEF PatientInv, RequestInv, NextFollowsSend, NeverPanics
<1> QED BY <1>1, PatientInvariant, PTL

(* Every response arrives whole and in order, whatever its length.         *)
THEOREM ResponsesWhole ==
  ASSUME ~HostGivesUp
  PROVE  Spec => ResponsesArriveWhole
<1>1. Init => Bulk!Init
  BY DEF Init, Bulk!Init
<1>2. TypeOK /\ PatientInv /\ [Next]_vars => [Bulk!Next]_(Bulk!vars)
  BY PatientStep DEF PatientInv, FlowInv
<1> QED BY <1>1, <1>2, PatientInvariant, PTL DEF Spec, ResponsesArriveWhole, Bulk!Spec

-----------------------------------------------------------------------------
(* Whatever the host does: but for Start's first stores, the data are one  *)
(* slice, and the offset and chunk's end lie within them.                  *)
AnyHostInv ==
  /\ pc \notin {"idle", "start"} => data = Whole(resp)
  /\ pc # "start" => data.len <= data.cap
  /\ pc \notin {"start", "offset"} => offset <= data.len
  /\ pc \in {"slice", "advance"} => end <= data.len
  /\ panicked => pc \in {"start", "offset", "slice"}

(* What is cut of data whose offset lies within them.                      *)
LEMMA CutFacts ==
  ASSUME NEW d \in DataType, NEW from \in Nat, NEW to \in Nat,
         from <= d.len
  PROVE  /\ End(d, from) \in from .. d.len
         /\ d.len <= d.cap => InRange(d, from, End(d, from))
         /\ Cut(d, from, to) \in PacketType
         /\ Chunk(d, from) \in PacketType
         /\ Chunk(d, from).to = End(d, from)
         /\ IsFinal(Chunk(d, from)) \in BOOLEAN
<1>1. d.len \in Nat /\ d.cap \in Nat /\ d.of \in Responses \cup {NoResponse}
  BY DEF DataType
<1>2. End(d, from) \in from .. d.len
  BY <1>1 DEF End
<1>3. Cut(d, from, to) \in PacketType /\ Chunk(d, from) \in PacketType
  BY <1>1, <1>2 DEF Cut, Chunk, PacketType
<1>4. Chunk(d, from).to = End(d, from)
  BY DEF Cut, Chunk
<1> QED BY <1>1, <1>2, <1>3, <1>4 DEF InRange, IsFinal

(* startSend, with interrupts of any transfer in between.                  *)
LEMMA AnyHostMainStep ==
  ASSUME TypeOK, AnyHostInv, Main
  PROVE  TypeOK' /\ AnyHostInv'
<1> USE DEF MainAt, hostVars, senderVars
<1>1. CASE Accept
  <2>1. /\ requests # <<>> /\ requests \in Seq(Responses)
        /\ resp' = Head(requests) /\ requests' = Tail(requests)
    BY <1>1 DEF Accept, TypeOK
  <2>2. resp' \in Responses /\ requests' \in Seq(Responses)
    BY <2>1
  <2>3. TypeOK'
    BY <1>1, <2>2 DEF Accept, TypeOK
  <2>4. AnyHostInv'
    BY <1>1 DEF Accept, AnyHostInv
  <2> QED BY <2>3, <2>4
<1>2. CASE StartData
  <2>1. resp \in Responses /\ Whole(resp) \in DataType
    BY <1>2 DEF StartData, InStart, TypeOK, Whole, DataType
  <2>2. data' \in DataType
    BY <1>2, <2>1 DEF StartData, TypeOK, DataType
  <2>3. pc' = "start" \/ (pc' = "offset" /\ data' = Whole(resp))
    BY <1>2 DEF StartData
  <2>4. Whole(resp).len <= Whole(resp).cap
    BY <2>1 DEF Whole
  <2>5. TypeOK'
    BY <1>2, <2>1, <2>2, <2>3 DEF StartData, InStart, TypeOK
  <2>6. AnyHostInv'
    BY <1>2, <2>3, <2>4 DEF StartData, InStart, AnyHostInv
  <2> QED BY <2>5, <2>6
<1>3. CASE StartOffset
  <2>1. resp \in Responses /\ data = Whole(resp) /\ Whole(resp).len \in Nat
    BY <1>3 DEF StartOffset, InStart, TypeOK, AnyHostInv, DataType
  <2>2. TypeOK'
    BY <1>3 DEF StartOffset, InStart, TypeOK
  <2>3. AnyHostInv'
    BY <1>3, <2>1 DEF StartOffset, InStart, AnyHostInv
  <2> QED BY <2>2, <2>3
<1>4. CASE StartSentFinal
  BY <1>4 DEF StartSentFinal, InStart, TypeOK, AnyHostInv
<1>5. CASE ChunkEnd
  <2>1. data \in DataType /\ offset \in Nat /\ offset <= data.len
    BY <1>5 DEF ChunkEnd, InStart, TypeOK, AnyHostInv
  <2>2. end' = End(data, offset) /\ end' \in Nat /\ end' <= data.len
    <3>1. data.len \in Nat /\ End(data, offset) \in offset .. data.len
      BY <2>1, CutFacts DEF DataType
    <3> QED BY <1>5, <2>1, <3>1 DEF ChunkEnd
  <2>3. TypeOK'
    BY <1>5, <2>2 DEF ChunkEnd, InStart, TypeOK
  <2>4. AnyHostInv'
    BY <1>5, <2>2 DEF ChunkEnd, InStart, AnyHostInv
  <2> QED BY <2>3, <2>4
<1>7. CASE ChunkSlice
  <2>1. data \in DataType /\ offset \in Nat /\ offset <= data.len /\ end \in Nat
    BY <1>7 DEF ChunkSlice, InStart, TypeOK, AnyHostInv
  <2>2. Cut(data, offset, end) \in PacketType
    BY <2>1, CutFacts
  <2>3. CASE InRange(data, offset, end)
    <3>1. /\ packet' = <<Cut(data, offset, end)>> /\ pc' = "advance"
          /\ UNCHANGED <<panicked, resp, data, offset, end>>
      BY <1>7, <2>3 DEF ChunkSlice, InStart
    <3>2. TypeOK'
      BY <1>7, <2>2, <3>1 DEF ChunkSlice, InStart, TypeOK
    <3>3. AnyHostInv'
      BY <1>7, <3>1 DEF ChunkSlice, InStart, AnyHostInv
    <3> QED BY <3>2, <3>3
  <2>4. CASE ~InRange(data, offset, end)
    BY <1>7, <2>4 DEF ChunkSlice, InStart, TypeOK, AnyHostInv
  <2> QED BY <2>3, <2>4
<1>8. CASE ChunkAdvance
  <2>1. offset' = end /\ end' = 0 /\ pc' \in {"mark", "send"} /\ ~panicked
    BY <1>8 DEF ChunkAdvance, InStart
  <2>2. TypeOK'
    BY <1>8, <2>1 DEF ChunkAdvance, InStart, TypeOK
  <2>3. AnyHostInv'
    BY <1>8, <2>1 DEF ChunkAdvance, InStart, AnyHostInv
  <2> QED BY <2>2, <2>3
<1>9. CASE ChunkMark
  BY <1>9 DEF ChunkMark, InStart, TypeOK, AnyHostInv
<1>6. CASE StartSend
  <2>1. packet[1] \in PacketType
    BY <1>6 DEF StartSend, TypeOK
  <2>2. endpoint' = <<>> \/ endpoint' \in [1..1 -> PacketType]
    BY <1>6, <2>1 DEF StartSend, SendPacket, TypeOK
  <2> QED BY <1>6, <2>1, <2>2 DEF StartSend, TypeOK, AnyHostInv
<1> QED
  BY <1>1, <1>2, <1>3, <1>4, <1>5, <1>6, <1>7, <1>8, <1>9 DEF Main, Start, ChunkOfStart

(* usbtmcTxHandler, wherever startSend is.                                 *)
LEMMA AnyHostTxStep ==
  ASSUME TypeOK, AnyHostInv, TxHandler
  PROVE  TypeOK' /\ AnyHostInv'
<1> USE DEF TxHandler, hostVars, mainVars, senderVars
<1>1. ~panicked
  OBVIOUS
<1>2. CASE TxIgnored \/ TxDone
  <2>1. txPending' \in BOOLEAN /\ UNCHANGED <<data, offset, sentFinal, endpoint, panicked>>
    BY <1>2 DEF TxIgnored, TxDone, TypeOK
  <2> QED BY <2>1 DEF TypeOK, AnyHostInv
<1>3. CASE TxNext
  <2>1. /\ data \in DataType /\ offset \in Nat /\ data.len \in Nat /\ data.cap \in Nat
    BY DEF TypeOK, DataType
  <2>2. InRange(data, offset, End(data, offset))
    BY <1>3 DEF TxNext
  <2>3. offset <= data.len /\ End(data, offset) \in offset .. data.len
    BY <2>1, <2>2, TxAssumption DEF InRange, End
  <2>4. /\ offset' = End(data, offset)
        /\ sentFinal' = IsFinal(Chunk(data, offset))
        /\ endpoint' = <<Chunk(data, offset)>> \/ endpoint' = endpoint
    BY <1>3, <2>1, <2>3, CutFacts DEF TxNext, SendPacket
  <2>5. offset' \in Nat /\ offset' <= data.len /\ sentFinal' \in BOOLEAN
    BY <2>1, <2>3, <2>4, CutFacts
  <2>6. endpoint' = <<>> \/ endpoint' \in [1..1 -> PacketType]
    BY <2>1, <2>3, <2>4, CutFacts DEF TypeOK
  <2>7. UNCHANGED <<asked, got, requests, pc, resp, end, packet, txPending, data, panicked>>
    BY <1>3 DEF TxNext
  <2>8. TypeOK'
    BY <2>5, <2>6, <2>7 DEF TypeOK
  <2>9. AnyHostInv'
    BY <2>5, <2>7 DEF AnyHostInv
  <2> QED BY <2>8, <2>9
<1>4. CASE TxPanics
  <2>1. data \in DataType /\ offset \in Nat
    BY DEF TypeOK
  <2>2. pc \in {"start", "offset"}
    BY <1>4, <2>1, CutFacts DEF TxPanics, AnyHostInv
  <2>3. panicked' /\ panicked' \in BOOLEAN
    BY <1>4 DEF TxPanics
  <2>4. TypeOK'
    BY <1>4, <2>3 DEF TxPanics, TypeOK
  <2>5. AnyHostInv'
    BY <1>4, <2>2, <2>3 DEF TxPanics, AnyHostInv
  <2> QED BY <2>4, <2>5
<1> QED BY <1>2, <1>3, <1>4

(* With any host, whether it waits or gives up at the worst moment, slice  *)
(* expressions go out of range nowhere but in Start: in the interrupt from *)
(* the first store of c.data to that of c.offset, and in main between      *)
(* chunk's two loads of c.offset.                                          *)
THEOREM OnlyPanicIsInStart ==
  Spec => [](TypeOK /\ PanicsOnlyInStart)
<1> DEFINE Inv == TypeOK /\ AnyHostInv
<1>1. Init => Inv
  BY InitOK DEF Init, NoData, AnyHostInv
<1>2. Inv /\ [Next]_vars => Inv'
  <2> SUFFICES ASSUME TypeOK, AnyHostInv, [Next]_vars
               PROVE  TypeOK' /\ AnyHostInv'
    OBVIOUS
  <2>1. ASSUME NEW r \in Responses, Ask(r)
        PROVE  TypeOK' /\ AnyHostInv'
    <3>1. requests' \in Seq(Responses)
      BY <2>1 DEF Ask, TypeOK
    <3>2. TypeOK'
      BY <2>1, <3>1 DEF Ask, senderVars, TypeOK
    <3>3. AnyHostInv'
      BY <2>1 DEF Ask, senderVars, AnyHostInv
    <3> QED BY <3>2, <3>3
  <2>2. CASE Receive
    <3>1. endpoint[1] \in PacketType
      BY <2>2 DEF Receive, TypeOK
    <3>2. got' \in Nat \cup {Garbled} /\ asked' \in Responses \cup {NoResponse}
      BY <2>2, <3>1 DEF Receive, TypeOK, PacketType
    <3>3. TypeOK'
      BY <2>2, <3>2 DEF Receive, mainVars, senderVars, TypeOK
    <3>4. AnyHostInv'
      BY <2>2 DEF Receive, mainVars, senderVars, TypeOK, AnyHostInv
    <3> QED BY <3>3, <3>4
  <2>3. CASE GiveUp
    BY <2>3 DEF GiveUp, mainVars, senderVars, TypeOK, AnyHostInv
  <2>4. CASE Main
    BY <2>4, AnyHostMainStep
  <2>5. CASE TxHandler
    BY <2>5, AnyHostTxStep
  <2>6. CASE UNCHANGED vars
    BY <2>6 DEF vars, hostVars, mainVars, senderVars, TypeOK, AnyHostInv
  <2> QED BY <2>1, <2>2, <2>3, <2>4, <2>5, <2>6 DEF Next
<1>3. Inv => TypeOK /\ PanicsOnlyInStart
  BY DEF AnyHostInv, PanicsOnlyInStart
<1> QED BY <1>1, <1>2, <1>3, PTL DEF Spec

=============================================================================
