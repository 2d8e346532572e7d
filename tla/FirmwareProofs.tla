---------------------------- MODULE FirmwareProofs ----------------------------
(***************************************************************************)
(* Proofs about Firmware, for every size of packets, headers and ints and  *)
(* all messages a host may send: what was proved of the parts, put         *)
(* together along the flow of a request.                                   *)
(*                                                                         *)
(* The lemmas about the parts are those of UsbTxProofs and                 *)
(* ReassemblerProofs, under the substitutions Firmware makes.              *)
(***************************************************************************)
EXTENDS Firmware, CounterArithmetic, TLAPS

TxP == INSTANCE UsbTxProofs
         WITH MaxPacketSize <- PacketSize, NoResponse <- Nothing,
              Length <- [r \in Responses |-> HeaderSize + r.n],
              Capacity <- [r \in Responses |-> HeaderSize + r.n],
              SendMayFail <- TRUE, HostGivesUp <- FALSE, MaxRequests <- 1

ReasmP == INSTANCE ReassemblerProofs
            WITH DevDepMsgOut <- Writes, NoMessage <- Nothing, MayBeLost <- FALSE,
                 spoilt <- FALSE

-----------------------------------------------------------------------------
(* The parts.  Their assumptions hold of what Firmware puts for their      *)
(* constants ...                                                           *)
LEMMA TxAssumed == TxP!TxAssumption
<1>1. \A r \in Responses : HeaderSize + r.n \in Nat
  BY PartsAssumption, FirmwareAssumption DEF Responses
<1> QED BY <1>1, PartsAssumption, FirmwareAssumption DEF TxP!TxAssumption

(* ... those of the Reassembler too.                                       *)
LEMMA ReasmAssumed == ReasmP!SizeAssumption
BY PartsAssumption, FirmwareAssumption DEF ReasmP!SizeAssumption, ReasmP!Mangled, ReasmP!Panicked

(* The definitions the proofs of UsbTx are about are those Firmware uses:  *)
(* one instance of UsbTx is like the other.                                *)
LEMMA SameTx ==
  /\ Tx!Init <=> TxP!Init
  /\ Tx!TypeOK <=> TxP!TypeOK
  /\ Tx!TypeOK' <=> TxP!TypeOK'
  /\ Tx!Main <=> TxP!Main
  /\ Tx!TxHandler <=> TxP!TxHandler
  /\ \A p : Tx!IsFinal(p) <=> TxP!IsFinal(p)
<1> USE DEF Tx!hostVars, TxP!hostVars, Tx!senderVars, TxP!senderVars, Tx!mainVars,
            TxP!mainVars, Tx!Whole, TxP!Whole, Tx!NoData, TxP!NoData, Tx!End, TxP!End,
            Tx!InRange, TxP!InRange, Tx!Cut, TxP!Cut, Tx!Chunk, TxP!Chunk, Tx!IsFinal,
            TxP!IsFinal, Tx!Size, TxP!Size, Tx!SendPacket, TxP!SendPacket
<1>1. (Tx!TypeOK <=> TxP!TypeOK) /\ (Tx!TypeOK' <=> TxP!TypeOK')
  BY Zenon
  DEF Tx!TypeOK, TxP!TypeOK, Tx!PacketType, TxP!PacketType, Tx!DataType, TxP!DataType,
      Tx!Garbled, TxP!Garbled
<1>2. Tx!Main <=> TxP!Main
  <2> USE DEF Tx!MainAt, TxP!MainAt, Tx!InStart, TxP!InStart
  <2>1. Tx!Start <=> TxP!Start
    BY Zenon
    DEF Tx!Start, TxP!Start, Tx!StartData, TxP!StartData, Tx!StartOffset, TxP!StartOffset,
        Tx!StartSentFinal, TxP!StartSentFinal
  <2>2. Tx!ChunkOfStart <=> TxP!ChunkOfStart
    BY Zenon
    DEF Tx!ChunkOfStart, TxP!ChunkOfStart, Tx!ChunkEnd, TxP!ChunkEnd, Tx!ChunkSlice,
        TxP!ChunkSlice, Tx!ChunkAdvance, TxP!ChunkAdvance, Tx!ChunkMark, TxP!ChunkMark
  <2>3. (Tx!Accept <=> TxP!Accept) /\ (Tx!StartSend <=> TxP!StartSend)
    BY Zenon DEF Tx!Accept, TxP!Accept, Tx!StartSend, TxP!StartSend
  <2> QED BY <2>1, <2>2, <2>3, Zenon DEF Tx!Main, TxP!Main
<1>3. Tx!TxHandler <=> TxP!TxHandler
  BY Zenon
  DEF Tx!TxHandler, TxP!TxHandler, Tx!TxIgnored, TxP!TxIgnored, Tx!TxDone, TxP!TxDone,
      Tx!TxNext, TxP!TxNext, Tx!TxPanics, TxP!TxPanics
<1>4. \A p : Tx!IsFinal(p) <=> TxP!IsFinal(p)
  BY Zenon
<1>5. Tx!Init <=> TxP!Init
  BY Zenon DEF Tx!Init, TxP!Init
<1> QED BY <1>1, <1>2, <1>3, <1>4, <1>5

(* And so are those about the Reassembler.                                 *)
LEMMA SameReasm ==
  /\ Reasm!TypeOK <=> ReasmP!TypeOK
  /\ Reasm!Between <=> ReasmP!Between
  /\ Reasm!Panicked = ReasmP!Panicked
  /\ \A m : Reasm!Transfer(m) = ReasmP!Transfer(m)
  /\ \A m : Reasm!MessageLength(m) = ReasmP!MessageLength(m)
  /\ \A m, n : Reasm!PacketAt(m, n) = ReasmP!PacketAt(m, n)
  /\ \A p : Reasm!Feed(p) <=> ReasmP!Feed(p)
<1> USE DEF Reasm!Transfer, ReasmP!Transfer, Reasm!Padded, ReasmP!Padded,
            Reasm!MessageLength, ReasmP!MessageLength, Reasm!Wrapped, ReasmP!Wrapped,
            Reasm!Panicked, ReasmP!Panicked, Reasm!Mangled, ReasmP!Mangled
<1>1. Reasm!TypeOK <=> ReasmP!TypeOK
  BY Zenon DEF Reasm!TypeOK, ReasmP!TypeOK
<1>2. Reasm!Between <=> ReasmP!Between
  BY Zenon DEF Reasm!Between, ReasmP!Between
<1>3. \A m : /\ Reasm!Transfer(m) = ReasmP!Transfer(m)
             /\ Reasm!MessageLength(m) = ReasmP!MessageLength(m)
  BY Zenon
<1>4. \A m, n : Reasm!PacketAt(m, n) = ReasmP!PacketAt(m, n)
  BY Zenon DEF Reasm!PacketAt, ReasmP!PacketAt
<1>5. \A p : Reasm!Feed(p) <=> ReasmP!Feed(p)
  <2>1. \A b, p : Reasm!Grown(b, p) = ReasmP!Grown(b, p)
    BY Zenon DEF Reasm!Grown, ReasmP!Grown, Reasm!Continues, ReasmP!Continues
  <2>2. \A b : /\ Reasm!TooShort(b) <=> ReasmP!TooShort(b)
               /\ Reasm!Incomplete(b) <=> ReasmP!Incomplete(b)
    BY Zenon DEF Reasm!TooShort, ReasmP!TooShort, Reasm!Incomplete, ReasmP!Incomplete,
                 Reasm!HasHeader, ReasmP!HasHeader
  <2>3. Reasm!Empty = ReasmP!Empty
    BY Zenon DEF Reasm!Empty, ReasmP!Empty
  <2> HIDE DEF Reasm!Transfer, ReasmP!Transfer, Reasm!Padded, ReasmP!Padded,
               Reasm!MessageLength, ReasmP!MessageLength, Reasm!Wrapped, ReasmP!Wrapped
  <2>4. \A b : Reasm!Complete(b) <=> ReasmP!Complete(b)
    BY <1>3, <2>2, Zenon DEF Reasm!Complete, ReasmP!Complete, Reasm!HasHeader, ReasmP!HasHeader
  <2>5. \A b : Reasm!MessageOf(b) = ReasmP!MessageOf(b)
    BY <1>3, Zenon DEF Reasm!MessageOf, ReasmP!MessageOf
  <2> QED BY <2>1, <2>2, <2>3, <2>4, <2>5, Zenon DEF Reasm!Feed, ReasmP!Feed
<1> QED BY <1>1, <1>2, <1>3, <1>4, <1>5 DEF Reasm!Panicked, ReasmP!Panicked

-----------------------------------------------------------------------------
(* Safety.  Each packet brings something, and the first one of a transfer  *)
(* the whole header.                                                       *)
PacketsHaveHeaders ==
  \A k \in 1 .. Len(queue) :
    queue[k].size > 0 /\ (queue[k].from = 0 => queue[k].size >= HeaderSize)

(* A request is complete with its first packet: what begins a message in   *)
(* the buffer is a write.                                                  *)
OnlyWritesWait == buf.size > 0 /\ buf.from = 0 => buf.of \in Writes

(* The packet that a request comes out with.                               *)
Opens(k) == queue[k].from = 0 /\ queue[k].of \in Requests

(* One request at a time, from the host's first packet to its last.        *)
OneRequest ==
  /\ waiting = Nothing => asked = Nothing
  /\ current \in Requests /\ sent = 0 =>
       /\ waiting # Nothing /\ asked = Nothing
       /\ \A k \in 1 .. Len(queue) : ~Opens(k)
  /\ \A k \in 1 .. Len(queue) : Opens(k) =>
       /\ waiting # Nothing /\ asked = Nothing
       /\ \A j \in 1 .. Len(queue) : Opens(j) => j = k

Packets == [of : Messages, from : Nat, size : Nat]

SafeInv ==
  /\ TypeOK /\ HandlerIsSafe
  /\ TxP!FlowInv
  /\ ReasmP!Underway
  /\ PacketsHaveHeaders /\ OnlyWritesWait /\ OneRequest

(* Feed gives out a message only if its declared length, as an int, is at  *)
(* least a header's, and a request only with the packet it begins with.    *)
LEMMA FeedStep ==
  ASSUME Reasm!TypeOK, OnlyWritesWait, NEW p \in Packets, p.size > 0,
         p.from = 0 => p.size >= HeaderSize, Reasm!Feed(p)
  PROVE  /\ buf' \in [size : Nat, of : Messages \cup {Nothing}, from : Nat, run : Nat]
         /\ out' \in Messages \cup {Nothing, Reasm!Mangled, Reasm!Panicked}
         /\ OnlyWritesWait'
         /\ out' \in Messages => Reasm!MessageLength(out') >= HeaderSize
         /\ out' \in Requests => p.of = out' /\ p.from = 0
         /\ out' = Reasm!Mangled => Reasm!Grown(buf, p).of \in Writes
<1> DEFINE b == Reasm!Grown(buf, p)
<1>1. /\ buf \in [size : Nat, of : Messages \cup {Nothing}, from : Nat, run : Nat]
      /\ p.of \in Messages /\ p.from \in Nat /\ p.size \in Nat
  BY DEF Reasm!TypeOK, Packets
<1>2. /\ b \in [size : Nat, of : Messages \cup {Nothing}, from : Nat, run : Nat]
      /\ buf.size = 0 => b.of = p.of /\ b.from = p.from /\ b.size = p.size
      /\ buf.size > 0 => b.of = buf.of /\ b.from = buf.from
  BY <1>1 DEF Reasm!Grown, Reasm!Continues
<1>3. /\ buf' = IF Reasm!TooShort(b) \/ Reasm!Incomplete(b) THEN b ELSE Reasm!Empty
      /\ out' = IF Reasm!Complete(b) THEN Reasm!MessageOf(b) ELSE Nothing
  BY DEF Reasm!Feed
<1> HIDE DEF b
<1>4. buf' \in [size : Nat, of : Messages \cup {Nothing}, from : Nat, run : Nat]
  BY <1>2, <1>3 DEF Reasm!Empty
<1>5. /\ out' \in Messages \cup {Nothing, Reasm!Mangled, Reasm!Panicked}
      /\ out' \in Messages => /\ out' = b.of /\ Reasm!Complete(b)
                              /\ Reasm!MessageLength(out') >= HeaderSize
  BY <1>2, <1>3, PartsAssumption DEF Reasm!MessageOf, Reasm!Mangled, Reasm!Panicked
<1>6. OnlyWritesWait'
  <2>1. ASSUME b.from = 0, buf.size = 0, Reasm!TooShort(b) \/ Reasm!Incomplete(b)
        PROVE  b.of \in Writes
    BY <1>1, <1>2, <2>1, PartsAssumption
    DEF Reasm!TooShort, Reasm!Incomplete, Reasm!MessageLength
  <2>2. ASSUME b.from = 0, buf.size > 0
        PROVE  b.of \in Writes
    BY <1>2, <2>2 DEF OnlyWritesWait
  <2>3. buf.size \in Nat
    BY <1>1
  <2>4. (buf' = b /\ (Reasm!TooShort(b) \/ Reasm!Incomplete(b))) \/ buf'.size = 0
    BY <1>3 DEF Reasm!Empty
  <2> QED BY <2>1, <2>2, <2>3, <2>4 DEF OnlyWritesWait
<1>7. ASSUME out' \in Requests
      PROVE  p.of = out' /\ p.from = 0
  <2>1. out' = b.of /\ b.from = 0 /\ out' \notin Writes
    BY <1>5, <1>7, FirmwareAssumption DEF Reasm!Complete, Reasm!HasHeader
  <2>2. ~(buf.size > 0)
    BY <1>2, <2>1 DEF OnlyWritesWait
  <2> QED BY <1>1, <1>2, <2>1, <2>2
<1>8. ASSUME out' = Reasm!Mangled
      PROVE  b.of \in Writes
  <2>1. Reasm!Complete(b) /\ out' = Reasm!MessageOf(b) /\ b.run \in Nat
    BY <1>2, <1>3, <1>8, PartsAssumption DEF Reasm!Mangled
  <2>2. b.run >= HeaderSize
    BY <2>1 DEF Reasm!Complete, Reasm!HasHeader
  <2>3. b.of \notin Writes => Reasm!MessageOf(b) = b.of
    BY <2>1, <2>2, PartsAssumption DEF Reasm!MessageOf, Reasm!MessageLength
  <2> QED BY <1>2, <1>8, <2>1, <2>3, PartsAssumption DEF Reasm!Mangled
<1> QED BY <1>4, <1>5, <1>6, <1>7, <1>8 DEF b

(* Behind the Reassembler, the sum that payloadBytes forms is the length   *)
(* of what Feed returns, whether that is the message that was sent or not. *)
LEMMA PayloadIsThere ==
  ASSUME NEW m \in Writes
  PROVE  /\ Front!PayloadEnd(Declares[m]) = Reasm!MessageLength(m)
         /\ Front!Sliced(Declares[m], Reasm!MessageLength(m))
              <=> Reasm!MessageLength(m) >= HeaderSize
         /\ ~Front!OutOfRange(Declares[m], Reasm!MessageLength(m))
<1> DEFINE n == HeaderSize + Declares[m]
<1>1. /\ m \in Messages /\ Declares[m] \in 0 .. IntMod - 1 /\ Declares[m] \in Int
      /\ HeaderSize \in Nat /\ n \in Int
      /\ IntMod \in Nat \ {0} /\ IntMod % 2 = 0
  BY FirmwareAssumption, PartsAssumption
<1>2. Reasm!MessageLength(m) = Signed(n, IntMod)
  BY DEF Reasm!MessageLength, Reasm!Wrapped, Signed
<1>3. Front!PayloadEnd(Declares[m]) = Signed(HeaderSize + Signed(Declares[m], IntMod), IntMod)
  BY DEF Front!PayloadEnd, Front!Int32, Signed
<1>4. PICK q \in Int : Signed(Declares[m], IntMod) = Declares[m] + IntMod * q
  BY <1>1, SignedFacts
<1>5. HeaderSize + Signed(Declares[m], IntMod) = n + IntMod * q
  BY <1>1, <1>4
<1>6. Signed(n + IntMod * q, IntMod) = Signed(n, IntMod)
  <2>1. IntMod * q \in Int /\ (IntMod * q) % IntMod = 0
    BY <1>1, ModMultiple
  <2> HIDE DEF n
  <2>2. (n + IntMod * q) % IntMod = n % IntMod
    BY <1>1, <2>1, ModShift
  <2> QED BY <2>2, Zenon DEF Signed
<1>7. Front!PayloadEnd(Declares[m]) = Reasm!MessageLength(m)
  BY <1>2, <1>3, <1>5, <1>6, Zenon
<1>8. Reasm!MessageLength(m) \in Int
  <2>1. Signed(n, IntMod) \in -(IntMod \div 2) .. (IntMod \div 2) - 1
    BY <1>1, SignedFacts
  <2> QED BY <1>1, <1>2, <2>1
<1> HIDE DEF n
<1> QED
  BY <1>1, <1>7, <1>8
  DEF Front!Sliced, Front!OutOfRange, Front!Refused, Front!TooLong

(* The flow of responses is left alone.                                    *)
LEMMA FlowKept ==
  ASSUME TxP!TypeOK, TxP!FlowInv, UNCHANGED <<asked, got, requests, txVars>>,
         panicked' \in BOOLEAN
  PROVE  TxP!TypeOK' /\ TxP!FlowInv'
<1> USE DEF txVars
<1>1. TxP!TypeOK'
  BY DEF TxP!TypeOK
<1>2. TxP!FlowInv'
  BY DEF TxP!FlowInv, TxP!RequestInv, TxP!StartInv, TxP!StreamInv, TxP!Streaming, TxP!Starting
<1> QED BY <1>1, <1>2

(* The host gives up, whether there was a response to wait for or not.     *)
LEMMA FlowGivesUp ==
  ASSUME TxP!TypeOK, TxP!FlowInv, GiveUp
  PROVE  TxP!TypeOK' /\ TxP!FlowInv'
<1>1. CASE asked # Nothing
  <2>1. TxP!GiveUp
    BY <1>1, Zenon
    DEF GiveUp, Resting, Tx!Resting, TxP!Resting, TxP!GiveUp, txVars, TxP!mainVars, TxP!senderVars
  <2> QED BY <2>1, TxAssumed, TxP!GiveUpStep
<1>2. CASE asked = Nothing
  <2> USE <1>2 DEF GiveUp, txVars
  <2>1. TxP!TypeOK'
    BY DEF TxP!TypeOK
  <2>2. TxP!FlowInv'
    BY DEF TxP!FlowInv, TxP!RequestInv, TxP!StartInv, TxP!StreamInv, TxP!Streaming, TxP!Starting
  <2> QED BY <2>1, <2>2
<1> QED BY <1>1, <1>2

(* The packet the host sends next.                                         *)
LEMMA NextSent ==
  ASSUME TypeOK, ReasmP!Underway, ~Reasm!Between
  PROVE  LET p == Reasm!PacketAt(current, sent) IN
         /\ current \in Messages /\ sent \in Nat
         /\ p \in Packets /\ p.of = current /\ p.from = sent
         /\ p.size > 0 /\ (p.from = 0 => p.size >= HeaderSize)
         /\ sent + p.size \in Nat \ {0}
         /\ (sent + p.size) % Alignment = 0
         /\ sent + p.size <= Reasm!Transfer(current)
<1> DEFINE p == ReasmP!PacketAt(current, sent)
<1>1. /\ current \in Messages /\ sent \in Nat /\ sent % Alignment = 0
      /\ sent < ReasmP!Transfer(current)
      /\ p \in Packets
  BY ReasmAssumed, SameReasm, ReasmP!SendStep DEF TypeOK, Packets
<1>2. /\ p.of = current /\ p.from = sent /\ p.size \in Nat \ {0}
      /\ sent + p.size \in Nat
      /\ (sent + p.size) % Alignment = 0
      /\ sent + p.size <= ReasmP!Transfer(current)
      /\ sent + p.size # ReasmP!Transfer(current) => sent + p.size >= HeaderSize
      /\ ReasmP!Transfer(current) >= SizeOf[current]
  BY <1>1, ReasmAssumed, ReasmP!NextPacket
<1>3. SizeOf[current] \in Nat /\ SizeOf[current] >= HeaderSize
  BY <1>1, PartsAssumption
<1>4. p = Reasm!PacketAt(current, sent) /\ Reasm!Transfer(current) = ReasmP!Transfer(current)
  BY SameReasm
<1>5. ReasmP!Transfer(current) \in Nat
  BY <1>3, ReasmAssumed, ReasmP!PaddedFacts DEF ReasmP!Transfer
<1> HIDE DEF p
<1>6. p.from = 0 => p.size >= HeaderSize
  BY <1>1, <1>2, <1>3, <1>5, PartsAssumption
<1> QED BY <1>1, <1>2, <1>4, <1>6

(* The invariant holds before the first message.                           *)
LEMMA SafeInit == Init => SafeInv
<1> SUFFICES ASSUME Init
             PROVE  SafeInv
  OBVIOUS
<1>1. TxP!TypeOK /\ TxP!FlowInv
  BY TxAssumed, SameTx, TxP!InitOK DEF Init
<1>2. Reasm!TypeOK
  BY DEF Init, Reasm!TypeOK, Reasm!Empty
<1>3. TypeOK
  <2>1. /\ queue = <<>>
        /\ queue \in Seq(Packets) /\ Len(queue) <= RingSize
    BY FirmwareAssumption DEF Init
  <2>2. at \in Nat /\ answer \in Nat /\ at <= answer
    BY DEF Init
  <2>3. calls \in 0 .. 1 /\ {counted, honest} \subseteq BOOLEAN
    <3>1. calls = 0 /\ counted = FALSE /\ honest = TRUE
      BY DEF Init
    <3>2. counted \in BOOLEAN /\ honest \in BOOLEAN
      BY <3>1, Zenon
    <3> QED BY <3>1, <3>2
  <2> QED BY <1>1, <1>2, <2>1, <2>2, <2>3, SameTx DEF Init, TypeOK, Packets
<1>4. ReasmP!Underway
  <2>1. (Alignment * 0) % Alignment = 0
    BY PartsAssumption, ModMultiple
  <2> QED BY <2>1, PartsAssumption DEF Init, ReasmP!Underway
<1>5. HandlerIsSafe
  BY DEF Init, Tx!Init, HandlerIsSafe
<1>6. PacketsHaveHeaders /\ OnlyWritesWait
  BY DEF Init, PacketsHaveHeaders, OnlyWritesWait, Reasm!Empty
<1>7. OneRequest
  BY FirmwareAssumption, PartsAssumption DEF Init, Tx!Init, OneRequest
<1> QED BY <1>1, <1>3, <1>4, <1>5, <1>6, <1>7 DEF SafeInv

(* The host begins a message: no other request is under way.               *)
LEMMA SafeBegin ==
  ASSUME SafeInv, NEW m \in Messages, Begin(m)
  PROVE  SafeInv'
<1> USE DEF SafeInv
<1>1. TxP!TypeOK' /\ TxP!FlowInv'
  BY FlowKept, SameTx DEF Begin, TypeOK, TxP!TypeOK
<1>2. Reasm!TypeOK'
  BY DEF Begin, TypeOK, Reasm!TypeOK
<1>3. TypeOK'
  <2>1. waiting' \in Requests \cup {Nothing} /\ given' \in Responses \cup {Nothing}
    BY DEF Begin
  <2>2. {counted', honest'} \subseteq BOOLEAN /\ UNCHANGED <<queue, at, answer, calls>>
    BY DEF Begin, TypeOK, instrumentVars
  <2> QED BY <1>1, <1>2, <2>1, <2>2, SameTx DEF TypeOK
<1>4. ReasmP!Underway'
  <2>1. (Alignment * 0) % Alignment = 0
    BY PartsAssumption, ModMultiple
  <2>2. SizeOf[m] \in Nat
    BY PartsAssumption
  <2>3. ReasmP!Transfer(m) \in Nat
    BY <2>2, ReasmAssumed, ReasmP!PaddedFacts DEF ReasmP!Transfer
  <2> QED BY <2>1, <2>3, PartsAssumption DEF Begin, ReasmP!Underway
<1>5. HandlerIsSafe' /\ PacketsHaveHeaders' /\ OnlyWritesWait'
  BY DEF Begin, HandlerIsSafe, PacketsHaveHeaders, OnlyWritesWait
<1>6. OneRequest'
  BY FirmwareAssumption, PartsAssumption DEF Begin, OneRequest, Opens
<1> QED BY <1>1, <1>3, <1>4, <1>5, <1>6

(* The host sends a packet.                                                *)
LEMMA SafeSend ==
  ASSUME SafeInv, SendPacket
  PROVE  SafeInv'
<1> USE DEF SafeInv
<1> DEFINE p == Reasm!PacketAt(current, sent)
<1>0. /\ ~Reasm!Between /\ Len(queue) < RingSize
      /\ sent' = sent + p.size /\ queue' = Append(queue, p)
      /\ UNCHANGED <<current, waiting, given, honest, buf, out, answer, at, calls, asked, got,
                     requests, txVars, panicked, counted, issued>>
  BY DEF SendPacket, instrumentVars
<1>1. /\ current \in Messages /\ sent \in Nat
      /\ p \in Packets /\ p.of = current /\ p.from = sent
      /\ p.size > 0 /\ (p.from = 0 => p.size >= HeaderSize)
      /\ sent' \in Nat \ {0} /\ sent' % Alignment = 0 /\ sent' <= Reasm!Transfer(current)
  BY <1>0, NextSent
<1> HIDE DEF p
<1>2. TxP!TypeOK' /\ TxP!FlowInv'
  BY <1>0, FlowKept, SameTx DEF TypeOK, TxP!TypeOK
<1>3. /\ queue \in Seq(Packets) /\ queue' \in Seq(Packets) /\ Len(queue') <= RingSize
      /\ Len(queue') = Len(queue) + 1
      /\ \A k \in 1 .. Len(queue) : queue'[k] = queue[k]
      /\ queue'[Len(queue) + 1] = p
  BY <1>0, <1>1, FirmwareAssumption DEF TypeOK, Packets
<1>4. TypeOK'
  <2>1. Reasm!TypeOK'
    BY <1>0, <1>1 DEF TypeOK, Reasm!TypeOK
  <2> QED BY <1>0, <1>2, <1>3, <2>1, SameTx DEF TypeOK, Packets
<1>5. ReasmP!Underway'
  BY <1>0, <1>1, SameReasm DEF ReasmP!Underway
<1>6. HandlerIsSafe' /\ OnlyWritesWait'
  BY <1>0 DEF HandlerIsSafe, OnlyWritesWait
<1>7. PacketsHaveHeaders'
  BY <1>1, <1>3 DEF PacketsHaveHeaders
<1>8. OneRequest'
  <2>1. \A k \in 1 .. Len(queue) : Opens(k)' <=> Opens(k)
    BY <1>3 DEF Opens
  <2>2. \A k : k = Len(queue) + 1 => (Opens(k)' <=> sent = 0 /\ current \in Requests)
    BY <1>1, <1>3 DEF Opens
  <2>3. \A k \in 1 .. Len(queue') : k \in 1 .. Len(queue) \/ k = Len(queue) + 1
    BY <1>3
  <2>4. sent' # 0 /\ UNCHANGED <<waiting, asked, current>>
    BY <1>0, <1>1
  <2> QED BY <2>1, <2>2, <2>3, <2>4 DEF OneRequest
<1> QED BY <1>2, <1>4, <1>5, <1>6, <1>7, <1>8

(* The host takes a packet: the reply it has at the end of it is whole.    *)
LEMMA SafeReceive ==
  ASSUME SafeInv, Receive
  PROVE  /\ SafeInv'
         /\ asked \in Responses
         /\ \/ UNCHANGED <<given, waiting, asked>>
            \/ given' = asked /\ waiting' = Nothing /\ asked' = Nothing
<1> USE DEF SafeInv
<1> DEFINE p == endpoint[1]
<1>0. /\ endpoint # <<>> /\ waiting # Nothing
      /\ got' = IF p.of = asked /\ p.from = got THEN p.to ELSE Tx!Garbled
      /\ IF Tx!IsFinal(p)
           THEN /\ given' = IF got' = HeaderSize + p.of.n
                              THEN p.of
                              ELSE [tag |-> p.of.tag, n |-> Tx!Garbled]
                /\ waiting' = Nothing /\ asked' = Nothing
           ELSE UNCHANGED <<given, waiting, asked>>
      /\ endpoint' = <<>>
      /\ completion' = TRUE
      /\ UNCHANGED <<current, sent, honest, queue, buf, out, answer, at, calls, requests, pc,
                     resp, end, packet, txPending, data, offset, sentFinal, panicked, counted,
                     issued>>
  BY DEF Receive, instrumentVars
<1>1. /\ asked \in Responses /\ got \in 0 .. (HeaderSize + asked.n)
      /\ p = TxP!Chunk(TxP!Whole(asked), got)
      /\ TxP!Streaming /\ ~completion
  BY <1>0, TxAssumed, SameTx, TxP!NextForHost DEF TypeOK
<1>2. /\ p.of = asked /\ p.from = got
      /\ Tx!IsFinal(p) => p.to = HeaderSize + asked.n
  BY <1>1, TxAssumed, SameTx, TxP!ChunkFacts
<1>3. asked # Nothing
  BY <1>1, FirmwareAssumption
<1>4. TxP!Receive
  <2>1. TxP!Size(p) < PacketSize <=> Tx!IsFinal(p)
    BY DEF Tx!IsFinal, Tx!Size, TxP!Size
  <2>2. asked' = IF TxP!Size(p) < PacketSize THEN Nothing ELSE asked
    BY <1>0, <2>1
  <2> HIDE DEF p
  <2>3. got' = IF p.of = asked /\ p.from = got THEN p.to ELSE TxP!Garbled
    BY <1>0 DEF Tx!Garbled, TxP!Garbled
  <2> QED BY <1>0, <1>3, <2>2, <2>3 DEF p, TxP!Receive, TxP!mainVars, TxP!senderVars
<1>5. TxP!TypeOK' /\ TxP!FlowInv'
  BY <1>4, TxAssumed, SameTx, TxP!ReceiveStep DEF TypeOK
<1>6. \/ UNCHANGED <<given, waiting, asked>>
      \/ given' = asked /\ waiting' = Nothing /\ asked' = Nothing
  <2> HIDE DEF p
  <2> QED BY <1>0, <1>2
<1>7. TypeOK'
  <2>1. Reasm!TypeOK'
    BY <1>0 DEF TypeOK, Reasm!TypeOK
  <2>2. waiting' \in Requests \cup {Nothing} /\ given' \in Responses \cup {Nothing}
    BY <1>1, <1>6 DEF TypeOK
  <2>3. UNCHANGED <<queue, at, answer, calls, counted, honest, issued>>
    BY <1>0
  <2> QED BY <1>5, <2>1, <2>2, <2>3, SameTx DEF TypeOK
<1>8. /\ ReasmP!Underway' /\ HandlerIsSafe' /\ OnlyWritesWait' /\ PacketsHaveHeaders'
  BY <1>0 DEF ReasmP!Underway, ReasmP!Transfer, HandlerIsSafe, OnlyWritesWait, PacketsHaveHeaders
<1>9. OneRequest'
  <2>1. UNCHANGED <<current, sent, queue>> /\ \A k : Opens(k)' <=> Opens(k)
    BY <1>0 DEF Opens
  <2> QED BY <1>3, <1>6, <2>1 DEF OneRequest
<1> QED BY <1>1, <1>5, <1>6, <1>7, <1>8, <1>9

(* The host gives up: there is nothing on the way to main.                 *)
LEMMA SafeGiveUp ==
  ASSUME SafeInv, GiveUp
  PROVE  SafeInv'
<1> USE DEF SafeInv
<1>0. /\ queue = <<>> /\ Reasm!Between
      /\ waiting' = Nothing /\ asked' = Nothing
      /\ UNCHANGED <<current, sent, given, honest, queue, buf, out, answer, at, calls,
                     requests, panicked, counted, issued>>
  BY DEF GiveUp, Resting, instrumentVars
<1>1. TxP!TypeOK' /\ TxP!FlowInv'
  BY FlowGivesUp, SameTx DEF TypeOK
<1>2. TypeOK'
  <2>1. Reasm!TypeOK'
    BY <1>0 DEF TypeOK, Reasm!TypeOK
  <2> QED BY <1>0, <1>1, <2>1, SameTx DEF TypeOK
<1>3. /\ ReasmP!Underway' /\ HandlerIsSafe' /\ OnlyWritesWait' /\ PacketsHaveHeaders'
  BY <1>0 DEF ReasmP!Underway, ReasmP!Transfer, HandlerIsSafe, OnlyWritesWait, PacketsHaveHeaders
<1>4. current \in Requests => sent # 0
  <2>1. ASSUME current \in Requests
        PROVE  sent = Reasm!Transfer(current) /\ current \in Messages
    BY <1>0, <2>1, FirmwareAssumption, PartsAssumption DEF Reasm!Between
  <2>2. ASSUME current \in Messages
        PROVE  Reasm!Transfer(current) > 0
    <3>1. SizeOf[current] \in Nat /\ SizeOf[current] > 0
      BY <2>2, PartsAssumption
    <3>2. ReasmP!Transfer(current) > 0
      BY <3>1, ReasmAssumed, ReasmP!PaddedFacts DEF ReasmP!Transfer
    <3> QED BY <3>2, SameReasm
  <2> QED BY <2>1, <2>2
<1>5. OneRequest'
  BY <1>0, <1>4 DEF OneRequest
<1> QED BY <1>1, <1>2, <1>3, <1>5

(* What main takes out of the ring, and what Feed makes of it.             *)
LEMMA Processed ==
  ASSUME SafeInv, Process
  PROVE  LET p == Head(queue) IN
         /\ p = queue[1] /\ p \in Packets /\ 1 \in 1 .. Len(queue)
         /\ p.size > 0 /\ (p.from = 0 => p.size >= HeaderSize)
         /\ queue' \in Seq(Packets) /\ Len(queue') = Len(queue) - 1
         /\ \A k \in 1 .. Len(queue) - 1 : queue'[k] = queue[k + 1]
         /\ buf' \in [size : Nat, of : Messages \cup {Nothing}, from : Nat, run : Nat]
         /\ out' \in Messages \cup {Nothing, Reasm!Mangled, Reasm!Panicked}
         /\ OnlyWritesWait'
         /\ out' \in Messages => Reasm!MessageLength(out') >= HeaderSize
         /\ out' \in Requests => p.of = out' /\ p.from = 0 /\ Opens(1)
         /\ out' = Reasm!Mangled => Returned(p) \in Writes
         /\ UNCHANGED <<current, sent, waiting, given, honest, txVars>>
<1> DEFINE p == Head(queue)
<1>1. queue \in Seq(Packets) /\ queue # <<>> /\ queue' = Tail(queue)
  BY DEF SafeInv, TypeOK, Packets, Process
<1>2. /\ p = queue[1] /\ p \in Packets /\ 1 \in 1 .. Len(queue)
      /\ queue' \in Seq(Packets) /\ Len(queue') = Len(queue) - 1
      /\ \A k \in 1 .. Len(queue) - 1 : queue'[k] = queue[k + 1]
  BY <1>1
<1>3. p.size > 0 /\ (p.from = 0 => p.size >= HeaderSize)
  BY <1>2 DEF SafeInv, PacketsHaveHeaders
<1>4. Reasm!Feed(p) /\ UNCHANGED <<current, sent, waiting, given, honest, txVars>>
  BY DEF Process, hostVars
<1> HIDE DEF p
<1>5. /\ buf' \in [size : Nat, of : Messages \cup {Nothing}, from : Nat, run : Nat]
      /\ out' \in Messages \cup {Nothing, Reasm!Mangled, Reasm!Panicked}
      /\ OnlyWritesWait'
      /\ out' \in Messages => Reasm!MessageLength(out') >= HeaderSize
      /\ out' \in Requests => p.of = out' /\ p.from = 0
      /\ out' = Reasm!Mangled => Returned(p) \in Writes
  BY <1>2, <1>3, <1>4, FeedStep DEF SafeInv, TypeOK, Returned
<1>6. out' \in Requests => Opens(1)
  BY <1>2, <1>5 DEF Opens
<1> QED BY <1>2, <1>3, <1>4, <1>5, <1>6 DEF p

(* What Feed returns is a message that came whole, or a write.             *)
LEMMA Dispatched ==
  ASSUME SafeInv, Process
  PROVE  LET m == Returned(queue[1]) IN
         \/ /\ m \in Messages /\ Takes(m) /\ HandleBulkOut(m)
            /\ out' = m \/ (out' = Reasm!Mangled /\ m \in Writes)
         \/ out' \in {Nothing, Reasm!Panicked} /\ NotReady
<1> DEFINE m == Returned(queue[1])
<1>1. /\ out' \in Messages \cup {Nothing, Reasm!Mangled, Reasm!Panicked}
      /\ out' = Reasm!Mangled => m \in Writes
      /\ Head(queue) = queue[1]
  BY Processed
<1>2. IF m \in Messages THEN Takes(m) /\ HandleBulkOut(m) ELSE NotReady
  BY <1>1 DEF Process
<1>3. out' # Reasm!Mangled => m = out'
  BY DEF Returned
<1> HIDE DEF m
<1>4. ASSUME out' = Reasm!Mangled
      PROVE  m \in Writes /\ m \in Messages /\ Takes(m) /\ HandleBulkOut(m)
  BY <1>1, <1>2, <1>4, FirmwareAssumption
<1>5. ASSUME out' \in Messages
      PROVE  out' = m /\ m \in Messages /\ Takes(m) /\ HandleBulkOut(m)
  BY <1>2, <1>3, <1>5, PartsAssumption DEF Reasm!Mangled
<1>6. ASSUME out' \in {Nothing, Reasm!Panicked}
      PROVE  NotReady
  BY <1>2, <1>3, <1>6, PartsAssumption DEF Reasm!Mangled, Reasm!Panicked
<1> QED BY <1>1, <1>4, <1>5, <1>6, Zenon DEF m

(* A write whose payload is sliced reaches the instrument, which has an    *)
(* answer to it then, or still the one it had.                             *)
LEMMA WriteHandled ==
  ASSUME NEW m, HandleWrite(m)
  PROVE  /\ \/ (answer' \in Answers \/ answer' = 0) /\ at' = 0
            \/ UNCHANGED <<answer, at>>
         /\ IF Front!Sliced(Declares[m], Reasm!MessageLength(m))
              THEN calls' = 1 - calls
              ELSE UNCHANGED <<answer, at, calls>>
         /\ UNCHANGED <<asked, got, requests, counted>>
<1>1. Front!Answering(TRUE) \/ Front!Answering(FALSE) \/ UNCHANGED <<answer, at>>
  BY Zenon DEF HandleWrite, instrumentVars
<1>2. \/ (answer' \in Answers \/ answer' = 0) /\ at' = 0
      \/ UNCHANGED <<answer, at>>
  BY <1>1 DEF Front!Answering
<1>3. UNCHANGED <<asked, got, requests, counted>>
  BY Zenon DEF HandleWrite, Silent
<1>4. IF Front!Sliced(Declares[m], Reasm!MessageLength(m))
        THEN calls' = 1 - calls
        ELSE UNCHANGED <<answer, at, calls>>
  BY Zenon DEF HandleWrite, Called, instrumentVars
<1> QED BY <1>2, <1>3, <1>4

(* What is read for a request is there and is no more than was asked, and  *)
(* it is the response, or is lost with an error.                           *)
LEMMA RequestHandled ==
  ASSUME at \in Nat, answer \in Nat, at <= answer, NEW m \in Requests, HandleRequest(m)
  PROVE  /\ at' \in at .. answer /\ at' - at \in 0 .. Most[m] /\ Most[m] \in 0 .. MaxResponsePayload
         /\ UNCHANGED <<answer, panicked>> /\ calls' = 1 - calls
         /\ \/ CountsError
            \/ Sends([tag |-> Tag[m], n |-> at' - at])
<1>1. /\ Declares[m] \in Nat /\ MaxResponsePayload \in Nat
      /\ Most[m] = Front!Want(Declares[m])
  BY FirmwareAssumption, PartsAssumption DEF Most, Front!Want, Front!Min2
<1>2. /\ Most[m] \in 0 .. MaxResponsePayload
      /\ at' \in at .. answer /\ at' - at \in 0 .. Most[m] /\ answer' = answer
  <2>1. Front!TakenFrom(Declares[m])
    BY DEF HandleRequest
  <2>2. Most[m] \in 0 .. MaxResponsePayload
    BY <1>1 DEF Front!Want, Front!Min2
  <2>3. PICK k : /\ at' \in at .. at + k /\ UNCHANGED answer
                 /\ k = IF Most[m] < answer - at THEN Most[m] ELSE answer - at
    BY <1>1, <2>1, Zenon DEF Front!TakenFrom, Front!Min2
  <2>4. k \in Nat /\ k <= Most[m] /\ k <= answer - at
    BY <2>2, <2>3
  <2>5. at' \in Int /\ at <= at' /\ at' <= at + k /\ answer' = answer
    BY <2>3, <2>4
  <2>6. at' \in at .. answer
    BY <2>4, <2>5
  <2>7. at' - at \in 0 .. Most[m]
    <3>1. ASSUME NEW a \in Int, NEW b \in Int, NEW w \in Int, a <= b, b <= a + k, k <= w
          PROVE  b - a \in 0 .. w
      BY <2>4, <3>1
    <3>2. at \in Int /\ Most[m] \in Int
      BY <2>2
    <3> QED BY <2>4, <2>5, <3>1, <3>2, Zenon
  <2> QED BY <2>2, <2>5, <2>6, <2>7
<1> QED BY <1>2 DEF HandleRequest, Called, Front!Declared

(* What becomes of the message, by its type: the Handler's slices are in   *)
(* range, an answer is not read past its end, and a reply is to the one    *)
(* request there is.                                                       *)
LEMMA Handled ==
  ASSUME SafeInv, Process
  PROVE  /\ at' \in Nat /\ answer' \in Nat /\ at' <= answer' /\ calls' \in 0 .. 1
         /\ panicked' \in BOOLEAN /\ counted' \in BOOLEAN
         /\ panicked' => out' = Reasm!Panicked
         /\ \/ UNCHANGED <<asked, got, requests>>
            \/ /\ out' \in Requests
               /\ at' \in at .. answer /\ at' - at <= Most[out']
               /\ asked' = [tag |-> Tag[out'], n |-> at' - at]
               /\ asked' \in Responses
               /\ got' = 0 /\ requests' = <<asked'>>
               /\ UNCHANGED <<panicked, counted>>
<1> DEFINE m == Returned(queue[1])
<1>0. /\ at \in Nat /\ answer \in Nat /\ at <= answer /\ panicked = FALSE
      /\ panicked \in BOOLEAN /\ counted \in BOOLEAN /\ calls \in 0 .. 1
  BY DEF SafeInv, TypeOK, Tx!TypeOK, Process, Tx!MainAt
<1> HIDE DEF m
<1>1. CASE NotReady
  <2>1. panicked' = (out' = Reasm!Panicked)
    BY <1>1 DEF NotReady
  <2>2. panicked' \in BOOLEAN /\ (panicked' => out' = Reasm!Panicked)
    BY <2>1, Zenon
  <2>3. UNCHANGED <<answer, at, calls, asked, got, requests, counted>>
    BY <1>1 DEF NotReady, instrumentVars, Silent
  <2> QED BY <1>0, <2>2, <2>3
<1>2. CASE m \in Writes /\ HandleWrite(m)
  <2>1. ~Front!OutOfRange(Declares[m], Reasm!MessageLength(m))
    BY <1>2, PayloadIsThere
  <2>2. panicked' = FALSE
    BY <1>2, <2>1, Zenon DEF HandleWrite, Front!OutOfRange
  <2>3. at' \in Nat /\ answer' \in Nat /\ at' <= answer'
    <3>2. \/ (answer' \in Answers \/ answer' = 0) /\ at' = 0
          \/ UNCHANGED <<answer, at>>
      BY <1>2, WriteHandled
    <3>3. CASE (answer' \in Answers \/ answer' = 0) /\ at' = 0
      <4>1. 0 \in Nat /\ \A n \in Nat : 0 <= n
        OBVIOUS
      <4>2. answer' \in Nat
        BY <3>3, <4>1, FirmwareAssumption, Zenon
      <4> QED BY <3>3, <4>1, <4>2
    <3>4. CASE UNCHANGED <<answer, at>>
      BY <1>0, <3>4
    <3> QED BY <3>2, <3>3, <3>4
  <2>4. UNCHANGED <<asked, got, requests, counted>>
    BY <1>2, WriteHandled
  <2>5. calls' \in 0 .. 1
    <3>1. calls' = 1 - calls \/ calls' = calls
      BY <1>2, WriteHandled
    <3> QED BY <1>0, <3>1
  <2> QED BY <1>0, <2>2, <2>3, <2>4, <2>5
<1>3. CASE out' = m /\ m \in Requests /\ HandleRequest(m)
  <2>1. /\ at' \in at .. answer /\ at' - at \in 0 .. Most[m]
        /\ Most[m] \in 0 .. MaxResponsePayload
        /\ UNCHANGED <<answer, panicked>> /\ calls' = 1 - calls
    BY <1>0, <1>3, RequestHandled
  <2>2. CASE Sends([tag |-> Tag[m], n |-> at' - at])
    <3>1. asked' = [tag |-> Tag[m], n |-> at' - at]
      BY <2>2 DEF Sends
    <3>2. asked' \in Responses
      BY <1>3, <2>1, <3>1, FirmwareAssumption DEF Responses
    <3> QED BY <1>0, <1>3, <2>1, <2>2, <3>1, <3>2 DEF Sends
  <2>3. CASE CountsError
    BY <1>0, <2>1, <2>3 DEF CountsError
  <2> QED BY <1>0, <1>3, <2>2, <2>3, RequestHandled
<1>4. CASE HandleTrigger \/ HandleUnknown
  BY <1>0, <1>4 DEF HandleTrigger, HandleUnknown, Called, instrumentVars, Silent
<1>5. \/ NotReady
      \/ HandleBulkOut(m) /\ (out' = m \/ m \in Writes)
  BY Dispatched DEF m
<1>6. CASE HandleBulkOut(m) /\ (out' = m \/ m \in Writes)
  <2>1. m \in Writes => m \notin Requests
    BY FirmwareAssumption
  <2> QED BY <1>2, <1>3, <1>4, <1>6, <2>1 DEF HandleBulkOut
<1> QED BY <1>1, <1>5, <1>6

(* processPacket.                                                          *)
LEMMA SafeProcess ==
  ASSUME SafeInv, Process
  PROVE  SafeInv'
<1> USE DEF SafeInv
<1>1. OneRequest'
  <2>1. \A k \in 1 .. Len(queue') : Opens(k)' <=> Opens(k + 1)
    BY Processed DEF Opens
  <2>2. \A k \in 1 .. Len(queue') : k + 1 \in 1 .. Len(queue) /\ k + 1 # 1
    BY Processed
  <2>3. UNCHANGED <<current, sent, waiting>>
    BY Processed
  <2>4. CASE UNCHANGED asked
    BY <2>1, <2>2, <2>3, <2>4 DEF OneRequest
  <2>5. CASE Opens(1)
    <3>1. 1 \in 1 .. Len(queue)
      BY Processed
    <3>2. /\ waiting # Nothing /\ ~(current \in Requests /\ sent = 0)
          /\ \A k \in 1 .. Len(queue') : ~Opens(k)'
      BY <2>1, <2>2, <2>5, <3>1 DEF OneRequest
    <3> QED BY <2>3, <3>2 DEF OneRequest
  <2> QED BY <2>4, <2>5, Handled, Processed
<1>2. TxP!TypeOK' /\ TxP!FlowInv'
  <2>1. CASE UNCHANGED <<asked, got, requests>>
    BY <2>1, FlowKept, Processed, Handled, SameTx DEF TypeOK
  <2>2. CASE /\ out' \in Requests /\ asked' \in Responses
             /\ got' = 0 /\ requests' = <<asked'>> /\ UNCHANGED panicked
    <3>1. asked = Nothing /\ requests = <<>>
      BY <2>2, Processed DEF OneRequest, Process
    <3>2. PICK r \in Responses : r = asked'
      BY <2>2
    <3>3. TxP!Ask(r)
      BY <2>2, <3>1, <3>2, Processed DEF TxP!Ask, txVars, TxP!senderVars
    <3> QED BY <3>3, TxAssumed, SameTx, TxP!AskStep DEF TypeOK
  <2> QED BY <2>1, <2>2, Handled
<1>3. TypeOK'
  <2>1. Reasm!TypeOK'
    BY Processed DEF TypeOK, Reasm!TypeOK
  <2>2. /\ queue' \in Seq(Packets) /\ Len(queue') <= RingSize
        /\ UNCHANGED <<waiting, given, honest>>
    BY Processed, FirmwareAssumption DEF TypeOK
  <2> QED BY <1>2, <2>1, <2>2, Handled, SameTx DEF TypeOK, Packets
<1>4. ReasmP!Underway'
  BY Processed DEF ReasmP!Underway, ReasmP!Transfer
<1>5. HandlerIsSafe'
  BY Handled DEF HandlerIsSafe
<1>6. PacketsHaveHeaders' /\ OnlyWritesWait'
  <2>1. \A k \in 1 .. Len(queue') : k + 1 \in 1 .. Len(queue) /\ queue'[k] = queue[k + 1]
    BY Processed
  <2> QED BY <2>1, Processed DEF PacketsHaveHeaders
<1> QED BY <1>1, <1>2, <1>3, <1>4, <1>5, <1>6

(* startSend and usbtmcTxHandler.                                          *)
LEMMA SafeSending ==
  ASSUME SafeInv, Transmit \/ TxHandler
  PROVE  /\ SafeInv'
         /\ UNCHANGED <<current, sent, waiting, given, honest, queue, buf, answer, at, calls,
                        asked, panicked, issued>>
<1> USE DEF SafeInv
<1>1. /\ TxP!TypeOK' /\ TxP!FlowInv'
      /\ UNCHANGED <<asked, got, panicked>>
  BY TxAssumed, SameTx, TxP!MainStep, TxP!TxHandlerStep DEF TypeOK, Transmit, TxHandler, TxP!hostVars
<1>2. UNCHANGED <<current, sent, waiting, given, honest, queue, buf, out, answer, at, calls,
                  issued>>
  BY DEF Transmit, TxHandler, hostVars, instrumentVars
<1>3. TypeOK'
  <2>1. Reasm!TypeOK'
    BY <1>2 DEF TypeOK, Reasm!TypeOK
  <2>2. counted' \in BOOLEAN
    BY Zenon DEF Transmit, TxHandler
  <2> QED BY <1>1, <1>2, <2>1, <2>2, SameTx DEF TypeOK
<1>4. /\ ReasmP!Underway' /\ HandlerIsSafe' /\ OnlyWritesWait' /\ PacketsHaveHeaders'
  BY <1>1, <1>2 DEF ReasmP!Underway, ReasmP!Transfer, HandlerIsSafe, OnlyWritesWait, PacketsHaveHeaders
<1>5. OneRequest'
  BY <1>1, <1>2 DEF OneRequest, Opens
<1> QED BY <1>1, <1>2, <1>3, <1>4, <1>5

(* Every step.                                                             *)
LEMMA SafeStep ==
  ASSUME SafeInv, [Next]_vars
  PROVE  SafeInv'
<1>1. CASE Next
  <2>1. ASSUME NEW m \in Messages, Begin(m)
        PROVE  SafeInv'
    BY <2>1, SafeBegin
  <2>2. CASE Main
    BY <2>2, SafeProcess, SafeSending DEF Main
  <2> QED BY <1>1, <2>1, <2>2, SafeSend, SafeReceive, SafeGiveUp, SafeSending DEF Next
<1>2. CASE UNCHANGED vars
  <2>0. /\ UNCHANGED <<current, sent, waiting, given, honest, queue, buf, out, answer, at,
                       calls, asked, got, requests, panicked, counted, issued>>
        /\ UNCHANGED txVars
    BY <1>2 DEF vars, hostVars, instrumentVars
  <2>1. TxP!TypeOK' /\ TxP!FlowInv'
    <3>1. TxP!TypeOK /\ TxP!FlowInv
      BY SameTx DEF SafeInv, TypeOK
    <3>2. panicked' \in BOOLEAN
      BY <2>0, <3>1, Zenon DEF TxP!TypeOK
    <3> QED BY <2>0, <3>1, <3>2, FlowKept
  <2>2. TypeOK'
    <3>1. Reasm!TypeOK'
      BY <2>0 DEF SafeInv, TypeOK, Reasm!TypeOK
    <3> QED BY <2>0, <2>1, <3>1, SameTx DEF SafeInv, TypeOK
  <2>3. /\ ReasmP!Underway' /\ HandlerIsSafe' /\ OnlyWritesWait' /\ PacketsHaveHeaders'
    BY <2>0
    DEF SafeInv, ReasmP!Underway, ReasmP!Transfer, HandlerIsSafe, OnlyWritesWait,
        PacketsHaveHeaders
  <2>4. OneRequest'
    BY <2>0 DEF SafeInv, OneRequest, Opens
  <2> QED BY <2>1, <2>2, <2>3, <2>4 DEF SafeInv
<1> QED BY <1>1, <1>2

(* The states of the firmware are of their types, and a request is under   *)
(* way once at most: to the Handler, to the ChunkSender, or to the host.   *)
(* And what panics is Feed, where an int has no room for a declared size,  *)
(* never payloadBytes in the Handler (src/usbtmcfront/handler.go) behind   *)
(* it, whatever the host sends and whatever calls fail.                    *)
THEOREM HandlerNeverPanics == Spec => [](TypeOK /\ HandlerIsSafe)
<1>1. Init => SafeInv
  BY SafeInit
<1>2. SafeInv /\ [Next]_vars => SafeInv'
  BY SafeStep
<1>3. SafeInv => TypeOK /\ HandlerIsSafe
  BY DEF SafeInv
<1> QED BY <1>1, <1>2, <1>3, PTL DEF Spec

-----------------------------------------------------------------------------
(* The service, for an honest host.  The packets on the way to main are    *)
(* the transfers issued, in order and without a gap: after the queue comes *)
(* what the host has still to send.                                        *)
Of(k) == IF k <= Len(queue) THEN queue[k].of ELSE current

From(k) == IF k <= Len(queue) THEN queue[k].from ELSE IF Reasm!Between THEN 0 ELSE sent

(* A place where a packet of the transfer of m begins.                     *)
IsCut(m, n) ==
  /\ m \in Messages /\ Sendable(m) /\ n \in Nat
  /\ n % Alignment = 0 /\ n % PacketSize = 0
  /\ n < Reasm!Transfer(m)

Cut ==
  /\ ~Reasm!Between => IsCut(current, sent)
  /\ \A k \in 1 .. Len(queue) :
       /\ IsCut(queue[k].of, queue[k].from)
       /\ queue[k] = Reasm!PacketAt(queue[k].of, queue[k].from)

InOrder ==
  \A k \in 1 .. Len(queue) :
    IF EndsTransfer(queue[k])
      THEN From(k + 1) = 0
      ELSE Of(k + 1) = queue[k].of /\ From(k + 1) = queue[k].from + queue[k].size

(* The packet of a transfer that the Handler is called with, if any: the   *)
(* last one, or the first one if the message is shorter than a header.     *)
AsSent(m) == Reasm!MessageLength(m) = SizeOf[m]

Completes(p) == IF AsSent(p.of) THEN EndsTransfer(p) ELSE p.from = 0

(* The host has still to send this packet of current.                      *)
Owes == ~Reasm!Between /\ (AsSent(current) \/ sent = 0)

(* place[k] is where the message that comes next to the Handler, from the  *)
(* k-th packet on, stands in issued; the place after the queue is that of  *)
(* what the host is sending.                                               *)
Places(place) ==
  /\ place[1] = 1
  /\ \A j, k \in 1 .. Len(queue) + 1 : j <= k => place[j] <= place[k]
  /\ \A k \in 1 .. Len(queue) :
       /\ Completes(queue[k]) =>
            place[k] <= Len(issued) /\ issued[place[k]] = queue[k].of
       /\ place[k + 1] = place[k] + (IF Completes(queue[k]) THEN 1 ELSE 0)
  /\ IF Owes
       THEN /\ place[Len(queue) + 1] = Len(issued)
            /\ issued[Len(issued)] = current
       ELSE place[Len(queue) + 1] = Len(issued) + 1

AreIssued ==
  ~panicked => \E place \in [1 .. Len(queue) + 1 -> 1 .. Len(issued) + 1] : Places(place)

(* What the buffer holds when the packet at n comes next.  Of a message    *)
(* with a length below a header's, nothing is kept.                        *)
Buffered(m, n) ==
  IF n = 0 \/ Reasm!MessageLength(m) < HeaderSize
    THEN Reasm!Empty
    ELSE [size |-> n, of |-> m, from |-> 0, run |-> n]

Fed == ~panicked => buf = Buffered(Of(1), From(1))

TrackInv == issued \in Seq(Messages) /\ Cut /\ InOrder /\ AreIssued /\ Fed

(* A transfer is not empty.                                                *)
LEMMA TransferFacts ==
  ASSUME NEW m \in Messages
  PROVE  /\ SizeOf[m] \in Nat /\ SizeOf[m] >= HeaderSize /\ HeaderSize > 0
         /\ Reasm!Transfer(m) \in Nat /\ Reasm!Transfer(m) >= SizeOf[m]
         /\ Reasm!Transfer(m) > 0
<1>1. SizeOf[m] \in Nat /\ SizeOf[m] >= HeaderSize /\ HeaderSize \in Nat \ {0}
  BY PartsAssumption
<1>2. ReasmP!Transfer(m) \in Nat /\ ReasmP!Transfer(m) >= SizeOf[m]
  BY <1>1, ReasmAssumed, ReasmP!PaddedFacts DEF ReasmP!Transfer
<1> QED BY <1>1, <1>2, SameReasm

(* It begins with a packet.                                                *)
LEMMA FirstCut ==
  ASSUME NEW m \in Messages, Sendable(m)
  PROVE  IsCut(m, 0)
<1>1. (Alignment * 0) % Alignment = 0 /\ (PacketSize * 0) % PacketSize = 0
  BY PartsAssumption, ModMultiple
<1> QED BY <1>1, TransferFacts, PartsAssumption DEF IsCut

(* And each packet ends it, or is full, ends short of the message's own    *)
(* last byte, and has another behind it.                                   *)
LEMMA NextCut ==
  ASSUME NEW m, NEW n, IsCut(m, n)
  PROVE  LET p == Reasm!PacketAt(m, n) IN
         /\ p \in Packets /\ p.of = m /\ p.from = n
         /\ p.size \in Nat \ {0} /\ n + p.size \in Nat
         /\ n + p.size <= Reasm!Transfer(m)
         /\ EndsTransfer(p) <=> n + p.size = Reasm!Transfer(m)
         /\ ~EndsTransfer(p) => /\ IsCut(m, n + p.size)
                                /\ n + p.size < SizeOf[m] /\ n + p.size >= HeaderSize
<1> DEFINE p == Reasm!PacketAt(m, n)
<1>1. m \in Messages /\ n \in Nat /\ n % Alignment = 0 /\ n % PacketSize = 0
      /\ n < ReasmP!Transfer(m)
  BY SameReasm DEF IsCut
<1>2. p = ReasmP!PacketAt(m, n) /\ ReasmP!Transfer(m) = Reasm!Transfer(m)
  BY SameReasm
<1>3. /\ p.of = m /\ p.from = n /\ p.size \in Nat \ {0}
      /\ n + p.size \in Nat /\ (n + p.size) % Alignment = 0
      /\ n + p.size <= Reasm!Transfer(m)
      /\ n + p.size # Reasm!Transfer(m) => n + p.size < SizeOf[m] /\ n + p.size >= HeaderSize
  BY <1>1, <1>2, ReasmAssumed, ReasmP!NextPacket
<1>4. p \in Packets
  BY <1>1, <1>3 DEF Reasm!PacketAt, Packets
<1>5. EndsTransfer(p) <=> n + p.size = Reasm!Transfer(m)
  BY <1>3 DEF EndsTransfer
<1>6. ASSUME n + p.size # Reasm!Transfer(m)
      PROVE  (n + p.size) % PacketSize = 0
  <2>1. p.size = IF n + PacketSize < Reasm!Transfer(m) THEN PacketSize ELSE Reasm!Transfer(m) - n
    BY DEF Reasm!PacketAt
  <2>2. p.size = PacketSize
    BY <1>1, <1>3, <1>6, <2>1, TransferFacts
  <2>3. PacketSize \in Nat \ {0} /\ PacketSize % PacketSize = 0
    <3>1. (PacketSize * 1) % PacketSize = 0
      BY PartsAssumption, ModMultiple
    <3> QED BY <3>1, PartsAssumption
  <2>4. (n + PacketSize) % PacketSize = n % PacketSize
    <3>1. n \in Int /\ PacketSize \in Int
      BY <1>1, <2>3
    <3> QED BY ONLY <2>3, <3>1, ModShift
  <2> QED BY <1>1, <2>2, <2>4
<1> HIDE DEF p
<1>7. ASSUME n + p.size # Reasm!Transfer(m)
      PROVE  IsCut(m, n + p.size)
  <2>1. Sendable(m)
    BY DEF IsCut
  <2> QED BY <1>1, <1>3, <1>6, <1>7, <2>1, TransferFacts DEF IsCut
<1> QED BY <1>3, <1>4, <1>5, <1>7 DEF p

(* The length of a message is an int.                                      *)
LEMMA MessageLengthInt ==
  ASSUME NEW m \in Messages
  PROVE  Reasm!MessageLength(m) \in Int
<1>1. Declares[m] \in 0 .. IntMod - 1 /\ HeaderSize \in Nat /\ IntMod \in Nat \ {0}
  BY PartsAssumption
<1>2. Reasm!Wrapped(HeaderSize + Declares[m]) \in Int
  BY <1>1 DEF Reasm!Wrapped
<1> QED BY <1>1, <1>2 DEF Reasm!MessageLength

(* Feed makes of a packet whose transfer lost none what was sent: the      *)
(* message with the last packet and nothing before, and what it keeps is   *)
(* what was sent so far.  A length below a header's it makes the most of   *)
(* with the first packet, and nothing of the others.                       *)
LEMMA CleanPacket ==
  ASSUME NEW m, NEW n, IsCut(m, n), buf = Buffered(m, n), Reasm!Feed(Reasm!PacketAt(m, n))
  PROVE  LET p == Reasm!PacketAt(m, n) IN
         /\ EndsTransfer(p) => buf' = Reasm!Empty
         /\ ~EndsTransfer(p) => buf' = Buffered(m, n + p.size)
         /\ Completes(p) => \/ out' = m
                            \/ /\ out' = Reasm!Mangled /\ Returned(p) = m
                               /\ m \in Writes /\ Reasm!MessageLength(m) < HeaderSize
                            \/ out' = Reasm!Panicked
         /\ ~Completes(p) => out' = Nothing
<1> DEFINE p == Reasm!PacketAt(m, n)
           b == Reasm!Grown(buf, p)
           upTo == n + p.size
<1>1. /\ m \in Messages /\ n \in Nat
      /\ p.of = m /\ p.from = n /\ p.size \in Nat \ {0} /\ upTo \in Nat
      /\ EndsTransfer(p) <=> upTo = Reasm!Transfer(m)
      /\ ~EndsTransfer(p) => upTo < SizeOf[m] /\ upTo >= HeaderSize
  BY NextCut DEF IsCut
<1>2. /\ buf' = IF Reasm!TooShort(b) \/ Reasm!Incomplete(b) THEN b ELSE Reasm!Empty
      /\ out' = IF Reasm!Complete(b) THEN Reasm!MessageOf(b) ELSE Nothing
  BY DEF Reasm!Feed
<1>3. /\ SizeOf[m] \in Nat /\ SizeOf[m] >= HeaderSize /\ HeaderSize \in Nat \ {0}
      /\ Reasm!Transfer(m) \in Nat /\ Reasm!Transfer(m) >= SizeOf[m]
  BY <1>1, TransferFacts, PartsAssumption
<1>5. CASE AsSent(m)
  <2> USE DEF AsSent
  <2>1. b = [size |-> upTo, of |-> m, from |-> 0, run |-> upTo]
    <3>1. CASE n = 0
      <4>1. buf = Reasm!Empty
        BY <3>1 DEF Buffered
      <4> HIDE DEF p
      <4> QED BY <1>1, <3>1, <4>1 DEF Reasm!Grown, Reasm!Continues, Reasm!Empty
    <3>2. CASE n # 0
      <4>1. buf = [size |-> n, of |-> m, from |-> 0, run |-> n]
        BY <1>3, <1>5, <3>2 DEF Buffered
      <4> HIDE DEF p
      <4> QED BY <1>1, <3>2, <4>1 DEF Reasm!Grown, Reasm!Continues
    <3> QED BY <3>1, <3>2
  <2> HIDE DEF p, b, upTo
  <2>2. CASE ~EndsTransfer(p)
    <3>1. ~Reasm!Complete(b) /\ Reasm!Incomplete(b)
      BY <1>1, <1>3, <1>5, <2>1, <2>2 DEF Reasm!Complete, Reasm!Incomplete, Reasm!TooShort, Reasm!HasHeader
    <3>2. Buffered(m, upTo) = b
      BY <1>1, <1>3, <1>5, <2>1, <2>2 DEF Buffered
    <3>3. ~Completes(p)
      BY <1>1, <1>5, <2>2 DEF Completes
    <3> QED BY <1>2, <2>2, <3>1, <3>2, <3>3 DEF p, upTo
  <2>3. CASE EndsTransfer(p)
    <3>1. /\ Reasm!Complete(b) /\ ~Reasm!Incomplete(b) /\ ~Reasm!TooShort(b)
          /\ Reasm!MessageOf(b) = m
      BY <1>1, <1>3, <1>5, <2>1, <2>3
      DEF Reasm!Complete, Reasm!Incomplete, Reasm!TooShort, Reasm!HasHeader, Reasm!MessageOf
    <3>2. Completes(p)
      BY <1>1, <1>5, <2>3 DEF Completes
    <3> QED BY <1>2, <2>3, <3>1, <3>2 DEF p
  <2> QED BY <2>2, <2>3
<1>6. CASE /\ ~AsSent(m) /\ Reasm!MessageLength(m) < HeaderSize
           /\ \A k \in 0 .. Reasm!Transfer(m) - 1 :
                k % PacketSize = 0 => Reasm!PacketAt(m, k).size >= HeaderSize
  <2>1. buf = Reasm!Empty /\ p.size >= HeaderSize
    <3>1. n \in 0 .. Reasm!Transfer(m) - 1 /\ n % PacketSize = 0
      BY <1>3 DEF IsCut
    <3> QED BY <1>6, <3>1 DEF Buffered
  <2>2. m \in Writes
    BY <1>3, <1>6 DEF Reasm!MessageLength
  <2> HIDE DEF p
  <2>3. b = [size |-> p.size, of |-> m, from |-> n, run |-> p.size]
    BY <1>1, <2>1 DEF Reasm!Grown, Reasm!Continues, Reasm!Empty
  <2>4. Returned(p) = IF out' = Reasm!Mangled THEN b.of ELSE out'
    BY DEF Returned
  <2> HIDE DEF b
  <2>5. Reasm!MessageLength(m) \in Int
    BY <1>1, MessageLengthInt
  <2>6. ~Reasm!TooShort(b) /\ ~Reasm!Incomplete(b)
    <3>1. ~Reasm!TooShort(b)
      BY <1>1, <1>3, <2>1, <2>3 DEF Reasm!TooShort
    <3>2. ~(p.size < Reasm!MessageLength(m))
      BY <1>1, <1>3, <1>6, <2>1, <2>5
    <3> QED BY <2>3, <3>1, <3>2 DEF Reasm!Incomplete
  <2>7. buf' = Reasm!Empty /\ Buffered(m, upTo) = Reasm!Empty
    BY <1>2, <1>6, <2>6 DEF Buffered
  <2>8. Reasm!Complete(b) <=> n = 0
    BY <1>1, <1>3, <1>6, <2>1, <2>3, <2>5, <2>6 DEF Reasm!Complete, Reasm!HasHeader
  <2>9. Reasm!MessageOf(b) \in {Reasm!Mangled, Reasm!Panicked}
    <3>1. b.of = m /\ Reasm!MessageLength(m) \notin HeaderSize .. b.run
      BY <1>3, <1>6, <2>3, <2>5
    <3> QED BY <3>1 DEF Reasm!MessageOf
  <2>10. Completes(p) <=> n = 0
    BY <1>1, <1>6 DEF Completes
  <2>11. ASSUME Completes(p)
         PROVE  \/ /\ out' = Reasm!Mangled /\ Returned(p) = m
                   /\ m \in Writes /\ Reasm!MessageLength(m) < HeaderSize
                \/ out' = Reasm!Panicked
    <3>1. out' \in {Reasm!Mangled, Reasm!Panicked}
      BY <1>2, <2>8, <2>9, <2>10, <2>11
    <3>2. out' = Reasm!Mangled => Returned(p) = m
      BY <2>3, <2>4
    <3> QED BY <1>6, <2>2, <3>1, <3>2
  <2>12. ~Completes(p) => out' = Nothing
    BY <1>2, <2>8, <2>10
  <2> QED BY <2>7, <2>11, <2>12 DEF p, upTo
<1>7. /\ Sendable(m)
      /\ AsSent(m) \/ ~AsSent(m)
  BY DEF IsCut
<1> QED BY <1>5, <1>6, <1>7 DEF Sendable, AsSent

(* The tracks are laid before the first message.                           *)
LEMMA TrackInit == Init => TrackInv
<1> SUFFICES ASSUME Init
             PROVE  TrackInv
  OBVIOUS
<1>1. /\ queue = <<>> /\ issued = <<>> /\ Len(queue) = 0 /\ Len(issued) = 0
      /\ Reasm!Between /\ ~Owes /\ buf = Reasm!Empty
  BY DEF Init, Owes, Reasm!Between
<1>2. issued \in Seq(Messages)
  BY <1>1
<1>3. Cut /\ InOrder
  BY <1>1 DEF Cut, InOrder
<1>4. AreIssued
  <2> DEFINE place == [k \in 1 .. Len(queue) + 1 |-> 1]
  <2>1. place \in [1 .. Len(queue) + 1 -> 1 .. Len(issued) + 1] /\ Places(place)
    BY <1>1 DEF Places
  <2> QED BY <2>1 DEF AreIssued
<1>5. Fed
  BY <1>1 DEF Fed, From, Buffered
<1> QED BY <1>2, <1>3, <1>4, <1>5 DEF TrackInv

(* They stay while neither the host nor the Reassembler moves.             *)
LEMMA TrackKept ==
  ASSUME TrackInv, UNCHANGED <<current, sent, queue, buf, issued, panicked>>
  PROVE  TrackInv'
<1>1. issued' \in Seq(Messages) /\ Cut'
  BY DEF TrackInv, Cut, IsCut, Reasm!Between
<1>2. \A k : Of(k)' = Of(k) /\ From(k)' = From(k)
  BY DEF Of, From, Reasm!Between
<1>3. InOrder' /\ Fed'
  BY <1>2 DEF TrackInv, InOrder, Fed
<1>4. AreIssued'
  BY DEF TrackInv, AreIssued, Places, Owes, Reasm!Between
<1> QED BY <1>1, <1>3, <1>4 DEF TrackInv

(* What comes after the queue now is the beginning of m.                   *)
LEMMA TrackBegin ==
  ASSUME SafeInv, TrackInv, NEW m \in Messages, Begin(m), honest'
  PROVE  TrackInv'
<1>0. /\ Reasm!Between /\ current' = m /\ sent' = 0 /\ issued' = Append(issued, m)
      /\ Sendable(m) /\ ~panicked
      /\ UNCHANGED <<queue, buf, panicked>>
  BY DEF Begin
<1>1. ~Reasm!Between' /\ ~Owes /\ Owes' /\ IsCut(m, 0)
  BY <1>0, TransferFacts, FirstCut, PartsAssumption DEF Reasm!Between, Owes
<1>2. /\ issued \in Seq(Messages) /\ issued' \in Seq(Messages)
      /\ Len(issued') = Len(issued) + 1
      /\ \A k \in 1 .. Len(issued) : issued'[k] = issued[k]
      /\ issued'[Len(issued) + 1] = m
      /\ queue \in Seq(Packets)
  BY <1>0 DEF TrackInv, SafeInv, TypeOK, Packets
<1>3. \A k : From(k)' = From(k)
  BY <1>0, <1>1 DEF From
<1>4. \A k : k <= Len(queue) => Of(k)' = Of(k)
  BY <1>0 DEF Of
<1>5. Cut'
  BY <1>0, <1>1 DEF TrackInv, Cut
<1>6. InOrder'
  <2>1. ASSUME NEW k \in 1 .. Len(queue), ~EndsTransfer(queue[k])
        PROVE  k + 1 <= Len(queue)
    <3>1. /\ From(k + 1) = queue[k].from + queue[k].size
          /\ queue[k] \in Packets /\ queue[k].size > 0
      BY <1>2, <2>1 DEF TrackInv, InOrder, SafeInv, PacketsHaveHeaders
    <3>2. From(k + 1) # 0
      BY <3>1 DEF Packets
    <3> QED BY <1>0, <1>2, <3>2 DEF From
  <2> QED BY <1>0, <1>3, <1>4, <2>1 DEF TrackInv, InOrder
<1>7. AreIssued'
  <2>1. PICK place \in [1 .. Len(queue) + 1 -> 1 .. Len(issued) + 1] : Places(place)
    BY <1>0 DEF TrackInv, AreIssued
  <2>2. place \in [1 .. Len(queue') + 1 -> 1 .. Len(issued') + 1]
    BY <1>0, <1>2, <2>1
  <2>3. Places(place)'
    <3>1. /\ place[Len(queue) + 1] = Len(issued) + 1
          /\ place[Len(queue) + 1] = Len(issued')
          /\ issued'[Len(issued')] = current'
      BY <1>0, <1>1, <1>2, <2>1 DEF Places
    <3>2. \A k \in 1 .. Len(queue) :
            /\ place[k] \in 1 .. Len(issued) + 1
            /\ Completes(queue[k]) => place[k] <= Len(issued) /\ issued[place[k]] = queue[k].of
      BY <2>1 DEF Places
    <3>3. \A k \in 1 .. Len(queue) :
            Completes(queue[k]) => place[k] <= Len(issued') /\ issued'[place[k]] = queue[k].of
      BY <1>2, <3>2
    <3> QED BY <1>0, <1>1, <2>1, <3>1, <3>3 DEF Places
  <2> QED BY <2>2, <2>3 DEF AreIssued
<1>8. Fed'
  <2>1. CASE 1 <= Len(queue)
    BY <1>0, <1>3, <1>4, <2>1 DEF TrackInv, Fed
  <2>2. CASE ~(1 <= Len(queue))
    <3>1. From(1) = 0
      BY <1>0, <2>2 DEF From
    <3> QED BY <1>0, <1>3, <3>1 DEF TrackInv, Fed, Buffered
  <2> QED BY <2>1, <2>2
<1> QED BY <1>2, <1>5, <1>6, <1>7, <1>8 DEF TrackInv

(* What the host was to send next is now the last in the queue.            *)
LEMMA TrackSend ==
  ASSUME SafeInv, TrackInv, SendPacket
  PROVE  TrackInv'
<1> DEFINE p == Reasm!PacketAt(current, sent)
           n == Len(queue)
<1>0. /\ ~Reasm!Between /\ ~panicked
      /\ sent' = sent + p.size /\ queue' = Append(queue, p)
      /\ UNCHANGED <<current, buf, panicked, issued>>
  BY DEF SendPacket
<1>1. /\ IsCut(current, sent) /\ p = Reasm!PacketAt(p.of, p.from)
      /\ p \in Packets /\ p.of = current /\ p.from = sent
      /\ EndsTransfer(p) <=> sent' = Reasm!Transfer(current)
      /\ ~EndsTransfer(p) => IsCut(current, sent')
      /\ sent \in Nat /\ sent' # 0
  BY <1>0, NextCut DEF TrackInv, Cut, IsCut
<1> HIDE DEF p
<1>2. /\ queue \in Seq(Packets) /\ n \in Nat /\ Len(queue') = n + 1
      /\ \A k \in 1 .. n : queue'[k] = queue[k]
      /\ queue'[n + 1] = p
  BY <1>0, <1>1 DEF SafeInv, TypeOK, Packets
<1>3. Reasm!Between' <=> EndsTransfer(p)
  BY <1>0, <1>1, PartsAssumption DEF Reasm!Between, IsCut
<1>3a. (Owes' <=> Owes /\ ~Completes(p)) /\ (Completes(p) => Owes)
  BY <1>0, <1>1, <1>3 DEF Owes, Completes, AsSent
<1>4. \A k \in 1 .. n + 1 : Of(k)' = Of(k) /\ From(k)' = From(k)
  BY <1>0, <1>1, <1>2 DEF Of, From
<1>5. \A k : k = n + 2 => Of(k)' = current /\ From(k)' = IF EndsTransfer(p) THEN 0 ELSE sent'
  BY <1>0, <1>2, <1>3 DEF Of, From
<1> HIDE DEF n
<1>6. Cut'
  <2>1. ASSUME NEW k \in 1 .. n + 1
        PROVE  /\ IsCut(queue'[k].of, queue'[k].from)
               /\ queue'[k] = Reasm!PacketAt(queue'[k].of, queue'[k].from)
    <3>1. CASE k \in 1 .. n
      BY <1>2, <3>1 DEF TrackInv, Cut, n
    <3>2. CASE k = n + 1
      BY <1>1, <1>2, <3>2
    <3> QED BY <1>2, <2>1, <3>1, <3>2
  <2> QED BY <1>0, <1>1, <1>2, <1>3, <2>1 DEF Cut
<1>7. InOrder'
  <2>1. ASSUME NEW k \in 1 .. n + 1
        PROVE  IF EndsTransfer(queue'[k])
                 THEN From(k + 1)' = 0
                 ELSE Of(k + 1)' = queue'[k].of /\ From(k + 1)' = queue'[k].from + queue'[k].size
    <3>1. CASE k \in 1 .. n
      <4>1. k + 1 \in 1 .. n + 1 /\ queue'[k] = queue[k]
        BY <1>2, <3>1
      <4> QED BY <1>4, <3>1, <4>1 DEF TrackInv, InOrder, n
    <3>2. CASE k = n + 1
      <4>1. k + 1 = n + 2 /\ queue'[k] = p
        BY <1>2, <3>2
      <4> QED BY <1>0, <1>1, <1>5, <4>1
    <3> QED BY <1>2, <2>1, <3>1, <3>2
  <2> QED BY <1>2, <2>1 DEF InOrder
<1>8. AreIssued'
  <2>1. PICK place \in [1 .. n + 1 -> 1 .. Len(issued) + 1] : Places(place)
    BY <1>0 DEF TrackInv, AreIssued, n
  <2> DEFINE d == IF Completes(p) THEN 1 ELSE 0
  <2>2. /\ Len(issued) \in Nat
        /\ IF Owes
             THEN place[n + 1] = Len(issued) /\ issued[Len(issued)] = current
             ELSE place[n + 1] = Len(issued) + 1
        /\ place[1] = 1 /\ 1 \in 1 .. n + 1 /\ n + 1 \in 1 .. n + 1
        /\ \A j, k \in 1 .. n + 1 : j <= k => place[j] <= place[k]
        /\ \A k \in 1 .. n : Completes(queue[k]) =>
             place[k] <= Len(issued) /\ issued[place[k]] = queue[k].of
        /\ \A k \in 1 .. n : place[k + 1] = place[k] + (IF Completes(queue[k]) THEN 1 ELSE 0)
    BY <1>0, <1>2, <2>1 DEF Places, TrackInv, n
  <2>3. d \in 0 .. 1 /\ (d = 1 <=> Completes(p)) /\ (d = 1 => Owes)
    BY <1>3a
  <2> HIDE DEF d
  <2>4. PICK new : new = [k \in 1 .. n + 2 |-> IF k = n + 2 THEN place[n + 1] + d ELSE place[k]]
    OBVIOUS
  <2>5. new \in [1 .. n + 2 -> 1 .. Len(issued) + 1]
    BY <1>2, <2>1, <2>2, <2>3, <2>4
  <2>6. /\ \A k \in 1 .. n + 1 : new[k] = place[k]
        /\ new[n + 2] = place[n + 1] + d /\ place[n + 1] \in Nat
    BY <1>2, <2>1, <2>2, <2>4
  <2>7. \A j, k \in 1 .. n + 2 : j <= k => new[j] <= new[k]
    <3>1. \A j \in 1 .. n + 1 : place[j] <= place[n + 1] /\ place[j] \in Nat
      BY <1>2, <2>1, <2>2
    <3> SUFFICES ASSUME NEW j \in 1 .. n + 2, NEW k \in 1 .. n + 2, j <= k
                 PROVE  new[j] <= new[k]
      OBVIOUS
    <3>2. CASE k \in 1 .. n + 1
      <4>1. j \in 1 .. n + 1
        BY <1>2, <3>2
      <4> QED BY <2>2, <2>6, <3>2, <4>1
    <3>3. CASE k = n + 2 /\ j \in 1 .. n + 1
      BY <2>2, <2>3, <2>6, <3>1, <3>3
    <3>4. CASE k = n + 2 /\ j = n + 2
      BY <2>2, <2>3, <2>6, <3>4
    <3> QED BY <1>2, <3>2, <3>3, <3>4
  <2>8. ASSUME NEW k \in 1 .. n + 1
        PROVE  /\ Completes(queue'[k]) => new[k] <= Len(issued) /\ issued[new[k]] = queue'[k].of
               /\ new[k + 1] = new[k] + (IF Completes(queue'[k]) THEN 1 ELSE 0)
    <3>1. CASE k \in 1 .. n
      <4>1. /\ new[k] = place[k] /\ new[k + 1] = place[k + 1]
            /\ queue'[k] = queue[k]
        BY <1>2, <2>6, <3>1
      <4>2. /\ Completes(queue[k]) => place[k] <= Len(issued) /\ issued[place[k]] = queue[k].of
            /\ place[k + 1] = place[k] + (IF Completes(queue[k]) THEN 1 ELSE 0)
        BY <2>2, <3>1
      <4> QED BY <4>1, <4>2
    <3>2. CASE k = n + 1
      <4>1. k + 1 = n + 2 /\ queue'[k] = p
        BY <1>2, <3>2
      <4> QED BY <1>1, <1>2, <2>2, <2>3, <2>6, <3>2, <4>1
    <3> QED BY <1>2, <2>8, <3>1, <3>2
  <2>9. Places(new)'
    <3>1. Len(queue') + 1 = n + 2 /\ new[1] = 1
      BY <1>2, <2>2, <2>6
    <3>2. IF Owes'
            THEN new[n + 2] = Len(issued) /\ issued[Len(issued)] = current
            ELSE new[n + 2] = Len(issued) + 1
      BY <1>3a, <2>2, <2>3, <2>6
    <3> QED BY <1>0, <1>2, <2>7, <2>8, <3>1, <3>2 DEF Places
  <2> QED BY <1>0, <1>2, <2>5, <2>9 DEF AreIssued
<1>9. Fed'
  BY <1>0, <1>2, <1>4 DEF TrackInv, Fed
<1> QED BY <1>0, <1>6, <1>7, <1>8, <1>9 DEF TrackInv

(* The Handler is called with the message that was issued next, by the     *)
(* packet that completes it; other packets bring nothing.                  *)
LEMMA Performed ==
  ASSUME SafeInv, TrackInv, honest, Process
  PROVE  LET p == queue[1] IN
         /\ EndsTransfer(p) => buf' = Reasm!Empty
         /\ ~EndsTransfer(p) => buf' = Buffered(p.of, p.from + p.size)
         /\ panicked' => NotReady
         /\ ~panicked' /\ Completes(p) =>
              /\ issued # <<>> /\ Head(issued) = p.of /\ issued' = Tail(issued)
              /\ p.of \in Messages /\ HandleBulkOut(p.of)
              /\ \/ out' = p.of
                 \/ p.of \in Writes /\ Reasm!MessageLength(p.of) < HeaderSize
         /\ ~Completes(p) => NotReady
         /\ out' \in Messages => Completes(p)
<1> DEFINE p == queue[1]
<1>1. /\ queue # <<>> /\ queue \in Seq(Packets) /\ Head(queue) = p /\ 1 \in 1 .. Len(queue)
      /\ ~panicked /\ Reasm!Feed(p)
  <2>1. queue # <<>> /\ queue \in Seq(Packets) /\ Head(queue) = p /\ 1 \in 1 .. Len(queue)
    BY Processed DEF Process, SafeInv, TypeOK, Packets
  <2> QED BY <2>1 DEF Process, Tx!MainAt
<1>2. IsCut(p.of, p.from) /\ p = Reasm!PacketAt(p.of, p.from)
  BY <1>1 DEF TrackInv, Cut
<1>3. buf = Buffered(p.of, p.from)
  BY <1>1 DEF TrackInv, Fed, Of, From
<1>4. \/ /\ Returned(p) \in Messages /\ Takes(Returned(p)) /\ HandleBulkOut(Returned(p))
         /\ out' = Returned(p) \/ (out' = Reasm!Mangled /\ Returned(p) \in Writes)
      \/ out' \in {Nothing, Reasm!Panicked} /\ NotReady
  BY Dispatched, Zenon
<1>5. panicked' => out' = Reasm!Panicked
  BY Handled
<1>6. Completes(p) => issued # <<>> /\ Head(issued) = p.of
  <2>1. PICK place \in [1 .. Len(queue) + 1 -> 1 .. Len(issued) + 1] : Places(place)
    BY <1>1 DEF TrackInv, AreIssued
  <2>2. /\ place[1] = 1
        /\ Completes(p) => place[1] <= Len(issued) /\ issued[place[1]] = p.of
    BY <1>1, <2>1 DEF Places, p
  <2>3. issued \in Seq(Messages)
    BY DEF TrackInv
  <2> QED BY <2>2, <2>3
<1> HIDE DEF p
<1>7. /\ EndsTransfer(p) => buf' = Reasm!Empty
      /\ ~EndsTransfer(p) => buf' = Buffered(p.of, p.from + p.size)
      /\ Completes(p) => \/ out' = p.of
                         \/ /\ out' = Reasm!Mangled /\ Returned(p) = p.of
                            /\ p.of \in Writes /\ Reasm!MessageLength(p.of) < HeaderSize
                         \/ out' = Reasm!Panicked
      /\ ~Completes(p) => out' = Nothing
  <2>1. PICK m, n : m = p.of /\ n = p.from
    OBVIOUS
  <2>2. IsCut(m, n) /\ p = Reasm!PacketAt(m, n) /\ buf = Buffered(m, n) /\ Reasm!Feed(Reasm!PacketAt(m, n))
    BY <1>1, <1>2, <1>3, <2>1
  <2> QED BY <2>1, <2>2, CleanPacket
<1>8. /\ {Reasm!Mangled, Reasm!Panicked, Nothing} \cap Messages = {}
      /\ Reasm!Mangled # Reasm!Panicked /\ Reasm!Mangled # Nothing
      /\ p.of \in Messages
  BY <1>2, PartsAssumption DEF Reasm!Mangled, Reasm!Panicked, IsCut
<1>9. out' # Reasm!Mangled => Returned(p) = out'
  BY DEF Returned
<1>10. ASSUME out' \in {Nothing, Reasm!Panicked}
       PROVE  NotReady
  BY <1>4, <1>8, <1>9, <1>10
<1>11. ASSUME ~panicked', Completes(p)
       PROVE  /\ Takes(p.of) /\ HandleBulkOut(p.of)
              /\ \/ out' = p.of
                 \/ p.of \in Writes /\ Reasm!MessageLength(p.of) < HeaderSize
  <2>1. out' # Reasm!Panicked
    BY <1>10, <1>11 DEF NotReady
  <2>2. out' # Nothing
    BY <1>7, <1>8, <1>11, <2>1
  <2>3. Returned(p) = p.of
    BY <1>7, <1>8, <1>9, <1>11, <2>1
  <2> QED BY <1>4, <1>7, <1>11, <2>1, <2>2, <2>3
<1>12. Completes(p) /\ Takes(p.of) => issued' = Tail(issued)
  BY <1>6 DEF Takes
<1>13. panicked' => NotReady
  BY <1>5, <1>10
<1>14. ~Completes(p) => NotReady
  BY <1>7, <1>10
<1>15. out' \in Messages => Completes(p)
  BY <1>7, <1>8
<1> QED BY <1>6, <1>7, <1>8, <1>11, <1>12, <1>13, <1>14, <1>15, Zenon DEF p

(* What comes after the first packet is what main takes next.              *)
LEMMA TrackProcess ==
  ASSUME SafeInv, TrackInv, honest, Process
  PROVE  TrackInv'
<1> DEFINE p == queue[1]
           n == Len(queue)
<1>1. /\ queue \in Seq(Packets) /\ n \in Nat \ {0} /\ p \in Packets
      /\ Len(queue') = n - 1
      /\ \A k \in 1 .. n - 1 : queue'[k] = queue[k + 1]
      /\ UNCHANGED <<current, sent>>
  <2>1. /\ queue \in Seq(Packets) /\ queue # <<>>
        /\ Len(queue') = Len(queue) - 1
        /\ \A k \in 1 .. Len(queue) - 1 : queue'[k] = queue[k + 1]
        /\ UNCHANGED <<current, sent>>
    BY Processed DEF SafeInv, TypeOK, Packets, Process
  <2> QED BY <2>1
<1>2. (Reasm!Between' <=> Reasm!Between) /\ (Owes' <=> Owes)
  BY <1>1 DEF Reasm!Between, Owes
<1>3. \A k \in 1 .. n : Of(k)' = Of(k + 1) /\ From(k)' = From(k + 1)
  BY <1>1, <1>2 DEF Of, From
<1>4. /\ EndsTransfer(p) => buf' = Reasm!Empty
      /\ ~EndsTransfer(p) => buf' = Buffered(p.of, p.from + p.size)
      /\ ~panicked' /\ Completes(p) => issued # <<>> /\ issued' = Tail(issued)
      /\ panicked' \/ ~Completes(p) => issued' = issued
  BY Performed DEF NotReady
<1>5. issued \in Seq(Messages) /\ issued' \in Seq(Messages)
  BY <1>4 DEF TrackInv
<1>6. IF EndsTransfer(p) THEN From(2) = 0 ELSE Of(2) = p.of /\ From(2) = p.from + p.size
  BY <1>1 DEF TrackInv, InOrder
<1> HIDE DEF p, n
<1>7. Cut'
  <2>1. \A k \in 1 .. n - 1 : k + 1 \in 1 .. Len(queue)
    BY <1>1 DEF n
  <2> QED BY <1>1, <1>2, <2>1 DEF TrackInv, Cut
<1>8. InOrder'
  <2> SUFFICES ASSUME NEW k \in 1 .. n - 1
               PROVE  IF EndsTransfer(queue'[k])
                        THEN From(k + 1)' = 0
                        ELSE /\ Of(k + 1)' = queue'[k].of
                             /\ From(k + 1)' = queue'[k].from + queue'[k].size
    BY <1>1 DEF InOrder
  <2>1. PICK j \in 1 .. n : j = k + 1
    BY <1>1
  <2>2. queue'[k] = queue[j] /\ Of(j)' = Of(j + 1) /\ From(j)' = From(j + 1)
    BY <1>1, <1>3, <2>1
  <2>3. IF EndsTransfer(queue[j])
          THEN From(j + 1) = 0
          ELSE Of(j + 1) = queue[j].of /\ From(j + 1) = queue[j].from + queue[j].size
    BY DEF TrackInv, InOrder, n
  <2> QED BY <2>1, <2>2, <2>3
<1>9. AreIssued'
  <2> SUFFICES ASSUME ~panicked'
               PROVE  \E place \in [1 .. Len(queue') + 1 -> 1 .. Len(issued') + 1] : Places(place)'
    BY DEF AreIssued
  <2> DEFINE d == IF Completes(p) THEN 1 ELSE 0
             e(k) == IF Completes(queue[k]) THEN 1 ELSE 0
  <2>1. PICK place \in [1 .. n + 1 -> 1 .. Len(issued) + 1] : Places(place)
    BY DEF TrackInv, AreIssued, n, Process, Tx!MainAt
  <2>2. /\ Len(issued) \in Nat
        /\ \A j, k \in 1 .. n + 1 : j <= k => place[j] <= place[k]
        /\ \A k \in 1 .. n : Completes(queue[k]) =>
             place[k] <= Len(issued) /\ issued[place[k]] = queue[k].of
        /\ \A k \in 1 .. n : place[k + 1] = place[k] + e(k)
        /\ IF Owes
             THEN place[n + 1] = Len(issued) /\ issued[Len(issued)] = current
             ELSE place[n + 1] = Len(issued) + 1
    BY <1>5, <2>1 DEF Places, n
  <2>3. d \in 0 .. 1 /\ place[2] = 1 + d
    BY <1>1, <2>1, <2>2 DEF Places, p, n
  <2>4. /\ Len(issued') = Len(issued) - d
        /\ \A k \in 1 .. Len(issued) - d : issued'[k] = issued[k + d]
    BY <1>4, <1>5
  <2> HIDE DEF d
  <2>5. \A k \in 2 .. n + 1 : place[k] - d \in 1 .. Len(issued') + 1
    <3>1. \A k \in 2 .. n + 1 : place[2] <= place[k] /\ place[k] \in 1 .. Len(issued) + 1
      BY <1>1, <2>1, <2>2
    <3> QED BY <2>2, <2>3, <2>4, <3>1
  <2>6. PICK new : new = [k \in 1 .. n |-> place[k + 1] - d]
    OBVIOUS
  <2>7. new \in [1 .. n -> 1 .. Len(issued') + 1]
    BY <1>1, <2>5, <2>6
  <2>8. new[1] = 1 /\ \A k \in 1 .. n : new[k] = place[k + 1] - d
    BY <1>1, <2>3, <2>6
  <2>9. \A j, k \in 1 .. n : j <= k => new[j] <= new[k]
    <3> SUFFICES ASSUME NEW j \in 1 .. n, NEW k \in 1 .. n, j <= k
                 PROVE  new[j] <= new[k]
      OBVIOUS
    <3>1. PICK a \in 1 .. n + 1, b \in 1 .. n + 1 : a = j + 1 /\ b = k + 1 /\ a <= b
      BY <1>1
    <3>2. place[a] <= place[b] /\ place[a] \in Nat /\ place[b] \in Nat
      BY <2>1, <2>2, <3>1
    <3> QED BY <2>3, <2>8, <3>1, <3>2
  <2>10. ASSUME NEW k \in 1 .. n - 1
         PROVE  /\ Completes(queue'[k]) =>
                     new[k] <= Len(issued') /\ issued'[new[k]] = queue'[k].of
                /\ new[k + 1] = new[k] + (IF Completes(queue'[k]) THEN 1 ELSE 0)
    <3>1. PICK j \in 2 .. n : j = k + 1
      BY <1>1
    <3>2. /\ Completes(queue[j]) => place[j] <= Len(issued) /\ issued[place[j]] = queue[j].of
          /\ place[j + 1] = place[j] + e(j)
          /\ place[j] \in Nat /\ place[j + 1] \in Nat
          /\ place[j] - d \in 1 .. Len(issued') + 1
      <4>1. j \in 1 .. n /\ j \in 1 .. n + 1 /\ j + 1 \in 1 .. n + 1 /\ j \in 2 .. n + 1
        BY <1>1
      <4> HIDE DEF e
      <4>2. place[j] \in Nat /\ place[j + 1] \in Nat
        BY <2>1, <4>1
      <4> QED BY <2>2, <2>5, <4>1, <4>2
    <3>3. new[k] = place[j] - d /\ new[k + 1] = place[j + 1] - d /\ queue'[k] = queue[j]
      <4>1. k \in 1 .. n /\ k + 1 \in 1 .. n
        BY <1>1
      <4> QED BY <1>1, <2>8, <3>1, <4>1
    <3>4. Completes(queue[j]) => new[k] <= Len(issued')
      BY <2>2, <2>3, <2>4, <3>2, <3>3
    <3>5. ASSUME Completes(queue[j])
          PROVE  issued'[new[k]] = queue[j].of
      <4>1. new[k] \in 1 .. Len(issued) - d /\ new[k] + d = place[j]
        <5> HIDE DEF e
        <5>1. new[k] \in 1 .. Len(issued') + 1 /\ new[k] + d = place[j]
          BY <2>3, <3>2, <3>3
        <5> QED BY <2>2, <2>3, <2>4, <3>4, <3>5, <5>1
      <4> QED BY <2>4, <3>2, <3>5, <4>1
    <3>6. e(j) \in 0 .. 1
      OBVIOUS
    <3>7. new[k + 1] = new[k] + e(j)
      <4> HIDE DEF e
      <4> QED BY <2>3, <3>2, <3>3, <3>6
    <3> QED BY <3>3, <3>4, <3>5, <3>7
  <2>11. IF Owes
           THEN new[n] = Len(issued') /\ issued'[Len(issued')] = current
           ELSE new[n] = Len(issued') + 1
    <3>1. new[n] = place[n + 1] - d /\ place[n + 1] - d \in 1 .. Len(issued') + 1
      BY <1>1, <2>5, <2>8
    <3>2. CASE ~Owes
      BY <2>2, <2>3, <2>4, <3>1, <3>2
    <3>3. CASE Owes
      <4>1. new[n] = Len(issued') /\ Len(issued') \in 1 .. Len(issued) - d
            /\ Len(issued') + d = Len(issued)
        BY <2>2, <2>3, <2>4, <3>1, <3>3
      <4> QED BY <2>2, <2>4, <3>3, <4>1
    <3> QED BY <3>2, <3>3
  <2>12. Places(new)'
    <3>1. Len(queue') + 1 = n
      BY <1>1
    <3> QED BY <1>1, <1>2, <2>8, <2>9, <2>10, <2>11, <3>1 DEF Places
  <2>13. new \in [1 .. Len(queue') + 1 -> 1 .. Len(issued') + 1]
    <3>1. Len(queue') + 1 = n
      BY <1>1
    <3> QED BY <2>7, <3>1
  <2> QED BY <2>12, <2>13
<1>10. Fed'
  <2>1. Of(1)' = Of(2) /\ From(1)' = From(2)
    BY <1>1, <1>3
  <2>2. CASE EndsTransfer(p)
    BY <1>4, <1>6, <2>1, <2>2 DEF Fed, Buffered
  <2>3. CASE ~EndsTransfer(p)
    BY <1>4, <1>6, <2>1, <2>3 DEF Fed, Buffered
  <2> QED BY <2>2, <2>3
<1> QED BY <1>5, <1>7, <1>8, <1>9, <1>10 DEF TrackInv

(* When nothing is on the way, nothing is left to perform.                 *)
LEMMA RestingDone ==
  ASSUME TrackInv, queue = <<>>, Reasm!Between, ~panicked
  PROVE  issued = <<>>
<1>1. PICK place \in [1 .. Len(queue) + 1 -> 1 .. Len(issued) + 1] : Places(place)
  BY DEF TrackInv, AreIssued
<1>2. place[1] = 1 /\ place[1] = Len(issued) + 1
  BY <1>1 DEF Places, Owes
<1>3. issued \in Seq(Messages)
  BY DEF TrackInv
<1> QED BY <1>2, <1>3

(* A write that comes out shorter than a header is one of those that may   *)
(* be refused: an int has no room for its length, or it is not as long as  *)
(* it declares.                                                            *)
LEMMA ShortIsRefusable ==
  ASSUME NEW m \in Writes, Reasm!MessageLength(m) < HeaderSize
  PROVE  m \in Refusable
<1> DEFINE n == HeaderSize + Declares[m]
<1>1. /\ IntMod \in Nat \ {0} /\ IntMod % 2 = 0 /\ IntMod \div 2 \in Int
      /\ IntMod \div 2 <= IntMod /\ HeaderSize \in Nat
      /\ n \in Nat /\ n >= HeaderSize
  BY FirmwareAssumption, PartsAssumption
<1>2. Reasm!MessageLength(m) = IF n % IntMod < IntMod \div 2 THEN n % IntMod ELSE (n % IntMod) - IntMod
  BY DEF Reasm!MessageLength, Reasm!Wrapped
<1> HIDE DEF n
<1>3. ~(n < IntMod \div 2)
  <2> SUFFICES ASSUME n < IntMod \div 2
               PROVE  FALSE
    OBVIOUS
  <2>1. n % IntMod = n
    BY <1>1, ModCases
  <2> QED BY <1>1, <1>2, <2>1
<1>4. SizeOf[m] \in Nat
  BY FirmwareAssumption, PartsAssumption
<1> QED BY <1>1, <1>3, <1>4 DEF Refusable, n

(* Main takes a packet: with the one that completes it, the message that   *)
(* comes next is performed, or refused; with the others, nothing is.       *)
LEMMA ProcessServes ==
  ASSUME SafeInv, TrackInv, honest, Process
  PROVE  Service!Next \/ UNCHANGED Service!vars
<1> DEFINE p == queue[1]
<1>1. UNCHANGED <<waiting, given>> /\ at \in Nat /\ answer \in Nat /\ at <= answer
  BY Processed DEF SafeInv, TypeOK
<1>2. CASE NotReady
  <2>1. UNCHANGED <<issued, asked, answer, at, calls>>
    BY <1>2 DEF NotReady, instrumentVars, Silent
  <2> QED BY <1>1, <2>1 DEF Service!vars
<1>3. CASE ~panicked' /\ Completes(p)
  <2> DEFINE m == p.of
  <2>1. /\ issued # <<>> /\ Head(issued) = m /\ issued' = Tail(issued)
        /\ m \in Messages /\ HandleBulkOut(m)
        /\ out' = m \/ (m \in Writes /\ Reasm!MessageLength(m) < HeaderSize)
    BY <1>3, Performed
  <2>0. out' \in Requests => Opens(1) /\ 1 \in 1 .. Len(queue)
    BY Processed
  <2> HIDE DEF p, m
  <2>2. CASE m \in Writes /\ HandleWrite(m)
    <3>1. UNCHANGED asked
      BY <2>2, WriteHandled
    <3>2. CASE Front!Sliced(Declares[m], Reasm!MessageLength(m))
      <4>1. /\ \/ answer' \in Answers \cup {0} /\ at' = 0
               \/ UNCHANGED <<answer, at>>
            /\ calls' = 1 - calls
        BY <2>2, <3>2, WriteHandled
      <4>2. Service!PerformWrite
        BY <1>1, <2>1, <2>2, <3>1, <4>1 DEF Service!PerformWrite, Service!Perform
      <4> QED BY <4>2 DEF Service!Next
    <3>3. CASE ~Front!Sliced(Declares[m], Reasm!MessageLength(m))
      <4>1. UNCHANGED <<answer, at, calls>>
        BY <2>2, <3>3, WriteHandled
      <4>2. Reasm!MessageLength(m) < HeaderSize
        <5>1. ~(Reasm!MessageLength(m) >= HeaderSize)
          BY <2>2, <3>3, PayloadIsThere
        <5>2. Reasm!MessageLength(m) \in Int /\ HeaderSize \in Nat
          BY <2>1, MessageLengthInt, PartsAssumption
        <5> QED BY <5>1, <5>2
      <4>3. m \in Refusable
        BY <2>2, <4>2, ShortIsRefusable
      <4>4. Service!Refuse
        BY <1>1, <2>1, <3>1, <4>1, <4>3 DEF Service!Refuse
      <4> QED BY <4>4 DEF Service!Next
    <3> QED BY <3>2, <3>3
  <2>3. CASE m \in Requests /\ HandleRequest(m)
    <3>1. out' = m
      BY <2>1, <2>3, FirmwareAssumption
    <3>2. /\ at' \in at .. answer /\ at' - at \in 0 .. Most[m]
          /\ UNCHANGED answer /\ calls' = 1 - calls
          /\ CountsError \/ Sends([tag |-> Tag[m], n |-> at' - at])
          /\ Most[m] \in Int
      BY <1>1, <2>3, RequestHandled, FirmwareAssumption
    <3>3. asked = Nothing
      BY <2>0, <2>3, <3>1 DEF SafeInv, OneRequest
    <3>4. asked' \in {[tag |-> Tag[m], n |-> at' - at], Nothing}
      BY <3>2, <3>3 DEF CountsError, Sends
    <3>5. at' - at <= Most[m]
      BY <3>2
    <3>6. Service!PerformRequest
      BY <1>1, <2>1, <2>3, <3>2, <3>4, <3>5 DEF Service!PerformRequest, Service!Perform
    <3> QED BY <3>6 DEF Service!Next
  <2>4. CASE m \in Triggers /\ HandleTrigger
    <3>1. UNCHANGED <<answer, at, asked>> /\ calls' = 1 - calls
      BY <2>4 DEF HandleTrigger, Called, Silent
    <3>2. m \in Messages \ (Writes \cup Requests)
      BY <2>1, <2>4, FirmwareAssumption
    <3>3. Service!PerformTrigger
      BY <1>1, <2>1, <3>1, <3>2 DEF Service!PerformTrigger, Service!Perform
    <3> QED BY <3>3 DEF Service!Next
  <2>5. CASE m \notin Writes \cup Requests \cup Triggers /\ HandleUnknown
    <3>1. UNCHANGED <<answer, at, calls, asked>> /\ m \in Refusable
      BY <2>1, <2>5 DEF HandleUnknown, instrumentVars, Silent, Refusable
    <3>2. Service!Refuse
      BY <1>1, <2>1, <3>1 DEF Service!Refuse
    <3> QED BY <3>2 DEF Service!Next
  <2> QED BY <2>1, <2>2, <2>3, <2>4, <2>5 DEF HandleBulkOut
<1>4. panicked' \in BOOLEAN
  BY Handled
<1> QED BY <1>2, <1>3, <1>4, Performed

(* Every step of the firmware is one of the service, or none.              *)
LEMMA ServiceStep ==
  ASSUME SafeInv, TrackInv, honest', [Next]_vars
  PROVE  Service!Next \/ UNCHANGED Service!vars
<1>1. ASSUME NEW m \in Messages, Begin(m)
      PROVE  Service!Next
  BY <1>1 DEF Begin, instrumentVars, Service!Issue, Service!Next
<1>2. CASE SendPacket
  BY <1>2 DEF SendPacket, instrumentVars, Service!vars
<1>3. CASE Receive
  <2>1. UNCHANGED <<issued, answer, at, calls>>
    BY <1>3 DEF Receive, instrumentVars
  <2>2. asked \in Responses /\ asked # Nothing
    BY <1>3, SafeReceive, FirmwareAssumption
  <2>3. CASE UNCHANGED <<given, waiting, asked>>
    BY <2>1, <2>3 DEF Service!vars
  <2>4. CASE given' = asked /\ waiting' = Nothing /\ asked' = Nothing
    BY <2>1, <2>2, <2>4 DEF Service!Give, Service!Next
  <2> QED BY <1>3, <2>3, <2>4, SafeReceive
<1>4. CASE GiveUp
  <2>1. issued = <<>>
    BY <1>4, RestingDone DEF GiveUp, Resting
  <2> QED BY <1>4, <2>1 DEF GiveUp, instrumentVars, Service!GiveUp, Service!Next
<1>5. CASE Process
  <2>1. honest
    BY <1>5, Processed
  <2> QED BY <1>5, <2>1, ProcessServes
<1>6. CASE Transmit \/ TxHandler
  BY <1>6, SafeSending DEF Service!vars
<1>7. CASE UNCHANGED vars
  BY <1>7 DEF vars, hostVars, instrumentVars, Service!vars
<1> QED BY <1>1, <1>2, <1>3, <1>4, <1>5, <1>6, <1>7 DEF Next, Main

(* The tracks through every step.                                          *)
LEMMA TrackStep ==
  ASSUME SafeInv, TrackInv, honest', [Next]_vars
  PROVE  TrackInv'
<1>1. ASSUME NEW m \in Messages, Begin(m)
      PROVE  TrackInv'
  BY <1>1, TrackBegin
<1>2. CASE SendPacket
  BY <1>2, TrackSend
<1>3. CASE Process
  <2>1. honest
    BY <1>3, Processed
  <2> QED BY <1>3, <2>1, TrackProcess
<1>4. CASE Receive
  BY <1>4, TrackKept DEF Receive
<1>5. CASE GiveUp
  BY <1>5, TrackKept DEF GiveUp
<1>6. CASE Transmit \/ TxHandler
  BY <1>6, SafeSending, TrackKept
<1>7. CASE UNCHANGED vars
  BY <1>7, TrackKept DEF vars, hostVars
<1> QED BY <1>1, <1>2, <1>3, <1>4, <1>5, <1>6, <1>7 DEF Next, Main

(* A host that is honest now always was.                                   *)
LEMMA StaysHonest ==
  ASSUME SafeInv, [Next]_vars, honest'
  PROVE  honest
<1>1. ASSUME NEW m \in Messages, Begin(m)
      PROVE  honest
  BY <1>1 DEF Begin
<1>2. CASE SendPacket \/ Receive \/ GiveUp
  BY <1>2 DEF SendPacket, Receive, GiveUp
<1>3. CASE Main \/ TxHandler
  BY <1>3, Processed, SafeSending DEF Main
<1>4. CASE UNCHANGED vars
  BY <1>4 DEF vars, hostVars
<1> QED BY <1>1, <1>2, <1>3, <1>4 DEF Next

(* The service, for all sizes and all messages, and whatever calls of      *)
(* drivers and sends of packets fail: as long as a host sends each message *)
(* as its header says, what it issues reaches the instrument once and in   *)
(* order, or is refused where an int has no room for its length; and the   *)
(* reply it is given is whole, and what was read for the request it waits  *)
(* for (processPacket and startSend of src/cmd/firmware/main.go, with      *)
(* Feed, HandleBulkOut, Start and Next, which they call).                  *)
THEOREM ServicePerformed == Spec => ServiceImplemented
<1> DEFINE Tracked == honest => TrackInv
<1>1. Init => SafeInv /\ Tracked /\ Service!Init
  <2>1. Init => Service!Init
    BY DEF Init, Tx!Init, Service!Init
  <2> QED BY <2>1, SafeInit, TrackInit
<1>2. SafeInv /\ Tracked /\ [Next]_vars => SafeInv' /\ Tracked'
  BY SafeStep, TrackStep, StaysHonest
<1>3. SafeInv /\ Tracked /\ [Next]_vars => [honest' => Service!Next]_(Service!vars)
  BY ServiceStep, StaysHonest
<1> HIDE DEF Tracked
<1> QED BY <1>1, <1>2, <1>3, PTL DEF Spec, ServiceImplemented

-----------------------------------------------------------------------------
(* Silence.  A host that waits, for whose request no error was counted,    *)
(* has a response on the way to it, or its request is still on the way to  *)
(* main.                                                                   *)
Busy == requests # <<>> \/ pc # "idle" \/ endpoint # <<>> \/ completion

Opening ==
  \/ current = waiting /\ sent = 0
  \/ \E k \in 1 .. Len(queue) : queue[k].of = waiting /\ queue[k].from = 0

Expected ==
  honest /\ waiting # Nothing /\ ~panicked /\ ~counted =>
    (asked # Nothing /\ Busy) \/ Opening

(* While a response is under way, an interrupt of the endpoint is main's   *)
(* to send the next packet.                                                *)
TxActive == asked # Nothing /\ requests = <<>> => txPending

WaitInv == TxActive /\ Expected

(* Nothing is awaited before the first message.                            *)
LEMMA WaitInit == Init => WaitInv
BY DEF Init, Tx!Init, WaitInv, TxActive, Expected

(* The host: it sends the request, takes packets of the reply, gives up.   *)
LEMMA WaitHost ==
  ASSUME SafeInv, WaitInv, SendPacket \/ Receive \/ GiveUp \/ \E m \in Messages : Begin(m)
  PROVE  WaitInv'
<1>1. ASSUME NEW m \in Messages, Begin(m)
      PROVE  WaitInv'
  <2>1. TxActive'
    BY <1>1 DEF WaitInv, TxActive, Begin, txVars
  <2>2. Expected'
    BY <1>1 DEF Begin, Expected, Opening
  <2> QED BY <2>1, <2>2 DEF WaitInv
<1>2. CASE SendPacket
  <2> DEFINE p == Reasm!PacketAt(current, sent)
  <2>1. p.of = current /\ p.from = sent /\ p \in Packets /\ queue \in Seq(Packets)
    BY <1>2, NextSent DEF SendPacket, SafeInv, TypeOK, Packets
  <2>2. /\ queue' = Append(queue, p)
        /\ UNCHANGED <<current, waiting, honest, asked, requests, panicked, counted>>
        /\ UNCHANGED txVars
    BY <1>2 DEF SendPacket
  <2> HIDE DEF p
  <2>3. /\ Len(queue') = Len(queue) + 1 /\ queue'[Len(queue) + 1] = p
        /\ \A k \in 1 .. Len(queue) : k \in 1 .. Len(queue') /\ queue'[k] = queue[k]
    BY <2>1, <2>2
  <2>4. Opening => Opening'
    <3>1. ASSUME current = waiting, sent = 0
          PROVE  Opening'
      <4>1. Len(queue) + 1 \in 1 .. Len(queue')
        BY <2>1, <2>3
      <4> QED BY <2>1, <2>2, <2>3, <3>1, <4>1 DEF Opening
    <3>2. ASSUME NEW k \in 1 .. Len(queue), queue[k].of = waiting, queue[k].from = 0
          PROVE  Opening'
      BY <2>2, <2>3, <3>2 DEF Opening
    <3> QED BY <3>1, <3>2 DEF Opening
  <2>5. (Busy' <=> Busy) /\ TxActive'
    BY <2>2 DEF Busy, txVars, WaitInv, TxActive
  <2> QED BY <2>2, <2>4, <2>5 DEF WaitInv, Expected
<1>3. CASE Receive
  <2>1. /\ completion' = TRUE /\ UNCHANGED <<honest, requests, txPending>>
        /\ asked # Nothing
        /\ \/ UNCHANGED <<waiting, asked>>
           \/ waiting' = Nothing /\ asked' = Nothing
    BY <1>3, SafeReceive, FirmwareAssumption DEF Receive
  <2> QED BY <2>1 DEF WaitInv, TxActive, Expected, Busy
<1>4. CASE GiveUp
  BY <1>4 DEF GiveUp, WaitInv, TxActive, Expected
<1> QED BY <1>1, <1>2, <1>3, <1>4

(* A request is one packet, and comes out with it.                         *)
LEMMA RequestComes ==
  ASSUME SafeInv, TrackInv, honest, Process, ~panicked',
         queue[1].of \in Requests, queue[1].from = 0
  PROVE  HandleRequest(out') /\ out' \in Requests
<1> DEFINE p == queue[1]
<1>1. IsCut(p.of, p.from) /\ p = Reasm!PacketAt(p.of, p.from) /\ p.of \in Messages
  <2>1. 1 \in 1 .. Len(queue)
    BY Processed
  <2> QED BY <2>1 DEF TrackInv, Cut, IsCut
<1>2. Reasm!MessageLength(p.of) = HeaderSize /\ SizeOf[p.of] = HeaderSize
  BY <1>1, FirmwareAssumption, PartsAssumption DEF IsCut, Sendable, Reasm!MessageLength
<1> HIDE DEF p
<1>3. EndsTransfer(p)
  <2>1. PICK m, n : m = p.of /\ n = p.from
    OBVIOUS
  <2>2. IsCut(m, n) /\ p = Reasm!PacketAt(m, n) /\ SizeOf[m] = HeaderSize
    BY <1>1, <1>2, <2>1
  <2>3. ~EndsTransfer(p) => n + p.size < HeaderSize /\ n + p.size >= HeaderSize /\ n + p.size \in Nat
    BY <2>2, NextCut
  <2> QED BY <2>3, PartsAssumption
<1>4. Completes(p)
  BY <1>2, <1>3 DEF Completes, AsSent
<1>5. HandleBulkOut(p.of) /\ (out' = p.of \/ p.of \in Writes)
  BY <1>4, Performed DEF p
<1>6. p.of \in Requests /\ p.of \notin Writes \cup Triggers
  BY FirmwareAssumption DEF p
<1> QED BY <1>5, <1>6 DEF HandleBulkOut

(* Main takes a packet: the request, and there is a response or an error   *)
(* is counted; or another one, and the wait goes on.                       *)
LEMMA WaitProcess ==
  ASSUME SafeInv, honest => TrackInv, WaitInv, Process
  PROVE  WaitInv'
<1>1. /\ requests = <<>> /\ pc = "idle" /\ ~completion /\ ~panicked
      /\ UNCHANGED <<current, sent, waiting, honest>> /\ UNCHANGED txVars
  BY Processed DEF Process, Tx!MainAt
<1>2. counted' = counted \/ counted' = TRUE
  <2>1. ASSUME NEW m, HandleRequest(m)
        PROVE  counted' = counted \/ counted' = TRUE
    BY <2>1, Zenon DEF HandleRequest, Sends, CountsError
  <2>2. ASSUME NEW m, HandleWrite(m)
        PROVE  counted' = counted
    BY <2>2, WriteHandled
  <2>3. ASSUME NEW m, HandleBulkOut(m)
        PROVE  counted' = counted \/ counted' = TRUE
    BY <2>1, <2>2, <2>3, Zenon DEF HandleBulkOut, HandleTrigger, HandleUnknown, Silent
  <2> QED BY <2>3, Dispatched, Zenon DEF NotReady, Silent
<1>3. \/ UNCHANGED <<asked, requests>>
      \/ asked' \in Responses /\ requests' = <<asked'>> /\ out' \in Requests
  BY Handled
<1>4. TxActive'
  BY <1>1, <1>3 DEF WaitInv, TxActive, txVars
<1>5. ASSUME asked # Nothing, Busy
      PROVE  asked' # Nothing /\ Busy'
  <2>1. CASE UNCHANGED <<asked, requests>>
    BY <1>1, <1>5, <2>1 DEF Busy, txVars
  <2>2. CASE asked' \in Responses /\ requests' = <<asked'>>
    <3>1. requests' # <<>>
      BY <2>2
    <3> QED BY <2>2, <3>1, FirmwareAssumption DEF Busy
  <2> QED BY <1>3, <2>1, <2>2
<1>6. ASSUME honest, ~panicked', waiting \in Requests, queue[1].of = waiting, queue[1].from = 0
      PROVE  counted' = TRUE \/ (asked' # Nothing /\ Busy')
  <2>1. out' \in Requests /\ HandleRequest(out')
    BY <1>6, RequestComes
  <2>2. CASE CountsError
    BY <2>2 DEF CountsError
  <2>3. ASSUME NEW r, Sends(r)
        PROVE  Busy' /\ asked' = r
    <3>1. requests' # <<>>
      BY <2>3 DEF Sends
    <3> QED BY <2>3, <3>1 DEF Sends, Busy
  <2>4. CASE ~CountsError
    <3>1. PICK r : Sends(r)
      BY <2>1, <2>4 DEF HandleRequest
    <3>2. requests' # <<>> /\ Busy'
      BY <2>3, <3>1 DEF Sends
    <3>3. ~(UNCHANGED requests)
      BY <1>1, <3>2
    <3> QED BY <1>3, <3>2, <3>3, FirmwareAssumption
  <2> QED BY <2>2, <2>4
<1>7. ASSUME NEW k \in 1 .. Len(queue), k # 1, queue[k].of = waiting, queue[k].from = 0
      PROVE  Opening'
  <2>1. PICK j \in 1 .. Len(queue') : k = j + 1 /\ queue'[j] = queue[k]
    <3>1. k - 1 \in 1 .. Len(queue) - 1 /\ (k - 1) + 1 = k
      BY <1>7, Processed
    <3> QED BY <3>1, Processed
  <2> QED BY <1>1, <1>7, <2>1 DEF Opening
<1>8. current = waiting /\ sent = 0 => Opening'
  BY <1>1 DEF Opening
<1>9. Expected'
  <2> SUFFICES ASSUME honest', ~panicked', waiting' # Nothing, ~counted'
               PROVE  (asked' # Nothing /\ Busy') \/ Opening'
    BY DEF Expected
  <2>1. honest /\ ~counted /\ waiting \in Requests /\ counted' # TRUE
    <3>1. honest' = honest /\ waiting' = waiting
      BY <1>1
    <3>2. honest
      BY <3>1, Zenon
    <3>3. counted' # TRUE
      OBVIOUS
    <3>4. counted' = counted
      BY <1>2, <3>3, Zenon
    <3>5. ~counted
      BY <3>4, Zenon
    <3>6. waiting \in Requests
      BY <3>1 DEF SafeInv, TypeOK
    <3> QED BY <3>2, <3>3, <3>5, <3>6, Zenon
  <2>2. (asked # Nothing /\ Busy) \/ Opening
    BY <1>1, <2>1 DEF WaitInv, Expected
  <2>3. CASE Opening
    BY <1>6, <1>7, <1>8, <2>1, <2>3 DEF Opening
  <2> QED BY <1>5, <2>2, <2>3
<1> QED BY <1>4, <1>9 DEF WaitInv

(* startSend and usbtmcTxHandler: a packet of the response is loaded, or a *)
(* failure is counted.                                                     *)
LEMMA WaitSending ==
  ASSUME SafeInv, WaitInv, Transmit \/ TxHandler
  PROVE  WaitInv'
<1>1. UNCHANGED <<current, sent, waiting, honest, queue, asked, panicked>>
  BY SafeSending
<1>2. Opening' <=> Opening
  BY <1>1 DEF Opening
<1>3. CASE Transmit
  <2>1. Tx!Main /\ counted' = (counted \/ (pc = "send" /\ endpoint' = <<>>))
    BY <1>3 DEF Transmit
  <2>2. \/ Busy' /\ UNCHANGED <<requests, txPending>>
        \/ Busy' /\ txPending' = TRUE
        \/ /\ Tx!StartSend /\ UNCHANGED <<requests, txPending>>
    BY <2>1
    DEF Tx!Main, Tx!MainAt, Tx!InStart, Tx!Accept, Tx!Start, Tx!StartData, Tx!StartOffset,
        Tx!StartSentFinal, Tx!ChunkOfStart, Tx!ChunkEnd, Tx!ChunkSlice, Tx!ChunkAdvance,
        Tx!ChunkMark, Tx!StartSend, Busy
  <2>3. TxActive'
    BY <1>1, <2>2 DEF WaitInv, TxActive
  <2>4. ASSUME ~counted'
        PROVE  Busy' /\ ~counted
    <3>1. ~counted /\ ~(pc = "send" /\ endpoint' = <<>>)
      BY <2>1, <2>4, Zenon
    <3>2. Tx!StartSend => endpoint' # <<>>
      BY <3>1 DEF Tx!StartSend, Tx!MainAt
    <3> QED BY <2>2, <3>1, <3>2 DEF Busy
  <2>5. Expected'
    BY <1>1, <1>2, <2>4 DEF WaitInv, Expected
  <2> QED BY <2>3, <2>5 DEF WaitInv
<1>4. CASE TxHandler
  <2>1. Tx!TxHandler /\ counted' = (counted \/ (txPending /\ ~sentFinal /\ endpoint' = <<>>))
    BY <1>4 DEF TxHandler
  <2>2. completion /\ ~panicked /\ UNCHANGED <<requests, pc>>
    BY <2>1 DEF Tx!TxHandler, Tx!mainVars
  <2>3. ASSUME asked # Nothing, requests = <<>>
        PROVE  txPending /\ ~sentFinal /\ UNCHANGED txPending
    <3>1. txPending
      BY <2>3 DEF WaitInv, TxActive
    <3>2. ~sentFinal
      BY <2>2, <2>3 DEF SafeInv, TxP!FlowInv, TxP!RequestInv, TxP!StreamInv, TxP!Streaming
    <3>3. UNCHANGED txPending
      BY <2>1, <3>1, <3>2
      DEF Tx!TxHandler, Tx!TxIgnored, Tx!TxDone, Tx!TxNext, Tx!TxPanics
    <3> QED BY <3>1, <3>2, <3>3
  <2>4. TxActive'
    <3>1. CASE asked # Nothing /\ requests = <<>>
      BY <1>1, <2>2, <2>3, <3>1 DEF TxActive
    <3>2. CASE ~(asked # Nothing /\ requests = <<>>)
      BY <1>1, <2>2, <3>2 DEF TxActive
    <3> QED BY <3>1, <3>2
  <2>5. ASSUME ~counted', asked # Nothing
        PROVE  Busy'
    <3>1. CASE requests # <<>>
      BY <2>2, <3>1 DEF Busy
    <3>2. CASE requests = <<>>
      <4>1. txPending /\ ~sentFinal
        BY <2>3, <2>5, <3>2
      <4>2. endpoint' # <<>>
        BY <2>1, <2>5, <4>1, Zenon
      <4> QED BY <4>2 DEF Busy
    <3> QED BY <3>1, <3>2
  <2>6. ~counted' => ~counted
    BY <2>1, Zenon
  <2>7. Expected'
    BY <1>1, <1>2, <2>5, <2>6 DEF WaitInv, Expected
  <2> QED BY <2>4, <2>7 DEF WaitInv
<1> QED BY <1>3, <1>4

(* The wait through every step.                                            *)
LEMMA WaitStep ==
  ASSUME SafeInv, honest => TrackInv, WaitInv, [Next]_vars
  PROVE  WaitInv'
<1>1. CASE Next
  BY <1>1, WaitHost, WaitProcess, WaitSending DEF Next, Main
<1>2. CASE UNCHANGED vars
  BY <1>2 DEF vars, hostVars, txVars, WaitInv, TxActive, Expected, Busy, Opening
<1> QED BY <1>1, <1>2

(* The firmware drops a request it cannot answer and has no way to say so  *)
(* (processPacket, src/cmd/firmware/main.go); but where an honest host     *)
(* waits and nothing moves any more, an error was counted for its request, *)
(* and of what it has issued nothing is left that the Handler was not      *)
(* called with.                                                            *)
THEOREM SilenceMeansAnError == Spec => [](SilenceIsCounted /\ NothingLeftUndone)
<1> DEFINE Inv == SafeInv /\ (honest => TrackInv) /\ WaitInv
<1>1. Init => Inv
  BY SafeInit, TrackInit, WaitInit
<1>2. Inv /\ [Next]_vars => Inv'
  BY SafeStep, TrackStep, StaysHonest, WaitStep
<1>3. Inv => SilenceIsCounted
  <2> SUFFICES ASSUME SafeInv, Expected, honest, waiting # Nothing, Resting, ~panicked
               PROVE  counted
    BY DEF WaitInv, SilenceIsCounted
  <2>1. queue = <<>> /\ Reasm!Between /\ ~Busy
    BY DEF Resting, Tx!Resting, Busy
  <2>2. waiting \in Requests /\ waiting \in Messages
    BY FirmwareAssumption DEF SafeInv, TypeOK
  <2>3. ~(current = waiting /\ sent = 0)
    BY <2>1, <2>2, TransferFacts DEF Reasm!Between
  <2> QED BY <2>1, <2>3 DEF Expected, Opening
<1>4. Inv => NothingLeftUndone
  BY RestingDone DEF NothingLeftUndone, Resting
<1> HIDE DEF Inv
<1> QED BY <1>1, <1>2, <1>3, <1>4, PTL DEF Spec

=============================================================================
