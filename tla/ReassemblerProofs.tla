-------------------------- MODULE ReassemblerProofs ---------------------------
(***************************************************************************)
(* Proofs about Reassembler, for every packet size, alignment and set of   *)
(* messages: why the padding of a transfer never spills into a packet of   *)
(* its own, and what follows from that.                                    *)
(***************************************************************************)
EXTENDS Reassembler, CounterArithmetic, TLAPS

USE SizeAssumption

-----------------------------------------------------------------------------
(* Padded(n) is the least multiple of the alignment that is not less than  *)
(* n.                                                                      *)
LEMMA PaddedFacts ==
  ASSUME NEW n \in Nat
  PROVE  /\ Padded(n) \in Nat
         /\ Padded(n) >= n
         /\ Padded(n) % Alignment = 0
<1>1. Alignment \in Nat \ {0}
  OBVIOUS
<1> QED BY <1>1, RoundUpFacts DEF Padded

(* Padding goes no further than the next multiple.                          *)
LEMMA PaddedLeast ==
  ASSUME NEW n \in Nat, NEW k \in Nat, k % Alignment = 0, k >= n
  PROVE  k >= Padded(n)
<1>1. Alignment \in Nat \ {0}
  OBVIOUS
<1> QED BY <1>1, RoundUpLeast DEF Padded

(* The next packet of a transfer either ends it, or is full and ends short *)
(* of the message's own last byte: padding never has a packet of its own.  *)
LEMMA NextPacket ==
  ASSUME NEW m \in Messages, NEW from \in Nat,
         from % Alignment = 0, from < Transfer(m)
  PROVE  LET p == PacketAt(m, from)
             end == from + p.size
         IN  /\ p.of = m /\ p.from = from /\ p.size \in Nat \ {0}
             /\ end \in Nat /\ end % Alignment = 0 /\ end <= Transfer(m)
             /\ Transfer(m) >= SizeOf[m] /\ SizeOf[m] \in Nat
             /\ end # Transfer(m) => end < SizeOf[m] /\ end >= HeaderSize
<1> DEFINE p == PacketAt(m, from)
           end == from + p.size
<1>1. /\ SizeOf[m] \in Nat
      /\ Transfer(m) \in Nat /\ Transfer(m) >= SizeOf[m]
      /\ Transfer(m) % Alignment = 0
  BY PaddedFacts DEF Transfer
<1>2. p.of = m /\ p.from = from
      /\ p.size = IF from + PacketSize < Transfer(m) THEN PacketSize ELSE Transfer(m) - from
  BY DEF PacketAt
<1> HIDE DEF p
<1>3. CASE from + PacketSize < Transfer(m)
  <2>1. end = from + PacketSize
    BY <1>2, <1>3
  <2>2. (from + PacketSize) % Alignment = from % Alignment
    <3>1. Alignment \in Nat \ {0} /\ PacketSize \in Int /\ from \in Int /\ PacketSize % Alignment = 0
      OBVIOUS
    <3> QED BY ONLY <3>1, ModShift
  <2>3. end < SizeOf[m]
    BY <1>1, <1>3, <2>1, <2>2, PaddedLeast DEF Transfer
  <2> QED BY <1>1, <1>2, <1>3, <2>1, <2>2, <2>3 DEF p
<1>4. CASE ~(from + PacketSize < Transfer(m))
  <2>1. end = Transfer(m)
    BY <1>1, <1>2, <1>4
  <2> QED BY <1>1, <1>2, <1>4, <2>1 DEF p
<1> QED BY <1>3, <1>4

(* An int has room for the length of a well-formed message.                *)
LEMMA LengthFacts ==
  ASSUME WellFormed, NEW m \in Messages
  PROVE  /\ MessageLength(m) = SizeOf[m]
         /\ SizeOf[m] \in Nat /\ SizeOf[m] >= HeaderSize
<1>1. SizeOf[m] \in Nat /\ SizeOf[m] >= HeaderSize
  OBVIOUS
<1>2. CASE m \in DevDepMsgOut
  <2> DEFINE n == HeaderSize + Declares[m]
  <2>1. n = SizeOf[m] /\ n < IntMod \div 2
    BY <1>2 DEF WellFormed
  <2>2. IntMod \div 2 <= IntMod
    OBVIOUS
  <2> HIDE DEF n
  <2>3. n % IntMod = n
    BY <1>1, <2>1, <2>2, ModCases
  <2>4. Wrapped(n) = n
    BY <2>1, <2>3 DEF Wrapped
  <2> QED BY <1>1, <1>2, <2>1, <2>4 DEF MessageLength, n
<1>3. CASE m \notin DevDepMsgOut
  BY <1>1, <1>3 DEF MessageLength, WellFormed
<1> QED BY <1>2, <1>3

-----------------------------------------------------------------------------
(* Feed keeps the type of its buffer, and what it keeps is the beginning   *)
(* of a message.                                                           *)
LEMMA FeedStep ==
  ASSUME TypeOK, NEW p \in [of : Messages, from : Nat, size : Nat], Feed(p)
  PROVE  /\ buf' \in [size : Nat, of : Messages \cup {NoMessage}, from : Nat, run : Nat]
         /\ out' \in Messages \cup {NoMessage, Mangled, Panicked}
         /\ WellFormed => out' # Panicked
         /\ OnlyIncompleteIsKept'
<1> DEFINE b == Grown(buf, p)
<1>1. b \in [size : Nat, of : Messages \cup {NoMessage}, from : Nat, run : Nat]
  BY DEF TypeOK, Grown, Continues
<1>2. Empty \in [size : Nat, of : Messages \cup {NoMessage}, from : Nat, run : Nat]
  BY DEF Empty
<1>3. TooShort(Empty)
  BY DEF TooShort, Empty
<1>4. /\ buf' = IF TooShort(b) \/ Incomplete(b) THEN b ELSE Empty
      /\ out' = IF Complete(b) THEN MessageOf(b) ELSE NoMessage
  BY DEF Feed
<1> HIDE DEF b
<1>5. OnlyIncompleteIsKept'
  BY <1>3, <1>4 DEF OnlyIncompleteIsKept
<1>6. ASSUME WellFormed, Complete(b)
      PROVE  MessageOf(b) # Panicked
  <2>1. b.of \in Messages \cup {NoMessage}
    BY <1>1
  <2>2. MessageOf(b) \in {b.of, Mangled} \/ MessageLength(b.of) < 0
    BY DEF MessageOf
  <2>3. ~(MessageLength(b.of) < 0)
    <3>1. CASE b.of \in Messages
      BY <1>6, <3>1, LengthFacts
    <3>2. CASE b.of = NoMessage
      BY <3>2 DEF MessageLength
    <3> QED BY <2>1, <3>1, <3>2
  <2> QED BY <2>1, <2>2, <2>3 DEF Mangled, Panicked
<1> QED BY <1>1, <1>2, <1>4, <1>5, <1>6 DEF MessageOf

(* How far the host is in a transfer.                                      *)
Underway ==
  /\ sent % Alignment = 0
  /\ current # NoMessage => sent <= Transfer(current)

(* The packet the host sends next, and where it is then.                   *)
LEMMA SendStep ==
  ASSUME TypeOK, Underway, ~Between
  PROVE  /\ current \in Messages
         /\ sent \in Nat /\ sent % Alignment = 0 /\ sent < Transfer(current)
         /\ PacketAt(current, sent) \in [of : Messages, from : Nat, size : Nat]
<1>1. current \in Messages /\ sent \in Nat /\ sent # Transfer(current)
  BY DEF TypeOK, Between
<1>2. SizeOf[current] \in Nat
  BY <1>1
<1>3. Transfer(current) \in Nat
  BY <1>2, PaddedFacts DEF Transfer
<1>4. sent < Transfer(current) /\ sent % Alignment = 0
  BY <1>1, <1>3, SizeAssumption DEF Underway
<1> QED BY <1>1, <1>3, <1>4 DEF PacketAt

(* A packet that follows on in a transfer extends the buffer.              *)
LEMMA CleanFeed ==
  ASSUME TypeOK, CleanInv, WellFormed, ~Between, ~spoilt, Packet
  PROVE  /\ sent' # Transfer(current) =>
              /\ buf' = [size |-> sent', of |-> current, from |-> 0, run |-> sent']
              /\ out' = NoMessage
              /\ sent' < MessageLength(current)
         /\ sent' = Transfer(current) => buf' = Empty /\ out' = current
<1> DEFINE p == PacketAt(current, sent)
           b == Grown(buf, p)
           n == sent + p.size
<1>1. /\ current \in Messages /\ sent \in Nat
      /\ p.of = current /\ p.from = sent /\ p.size \in Nat \ {0}
      /\ n \in Nat
      /\ n <= Transfer(current)
      /\ Transfer(current) >= SizeOf[current] /\ SizeOf[current] \in Nat
      /\ n # Transfer(current) => n < SizeOf[current] /\ n >= HeaderSize
  BY SendStep, NextPacket DEF CleanInv, Underway
<1>2. sent' = n /\ Feed(p)
  BY DEF Packet
<1>3. b = [size |-> n, of |-> current, from |-> 0, run |-> n]
  <2>1. CASE sent = 0
    <3>1. buf = Empty
      BY <2>1 DEF CleanInv
    <3> QED BY <1>1, <2>1, <3>1 DEF Grown, Continues, Empty
  <2>2. CASE sent > 0
    <3>1. buf = [size |-> sent, of |-> current, from |-> 0, run |-> sent]
      BY <2>2 DEF CleanInv
    <3> QED BY <1>1, <2>2, <3>1 DEF Grown, Continues
  <2> QED BY <1>1, <2>1, <2>2
<1>4. MessageLength(current) = SizeOf[current] /\ SizeOf[current] >= HeaderSize
  BY <1>1, LengthFacts
<1>5. /\ buf' = IF TooShort(b) \/ Incomplete(b) THEN b ELSE Empty
      /\ out' = IF Complete(b) THEN MessageOf(b) ELSE NoMessage
  BY <1>2 DEF Feed
<1> HIDE DEF p, b, n
<1>6. CASE n # Transfer(current)
  <2>1. Incomplete(b) /\ ~Complete(b)
    BY <1>1, <1>3, <1>4, <1>6 DEF Incomplete, Complete, TooShort, HasHeader
  <2> QED BY <1>1, <1>2, <1>3, <1>4, <1>5, <1>6, <2>1
<1>7. CASE n = Transfer(current)
  <2>1. Complete(b) /\ ~Incomplete(b) /\ ~TooShort(b) /\ MessageOf(b) = current
    BY <1>1, <1>3, <1>4, <1>7 DEF Incomplete, Complete, TooShort, HasHeader, MessageOf
  <2> QED BY <1>2, <1>5, <1>7, <2>1
<1> QED BY <1>6, <1>7

-----------------------------------------------------------------------------
Clean == CleanInv /\ CleanTransferArrives

(* The invariants hold of the empty buffer.                                *)
LEMMA InitOK == Init => TypeOK /\ Clean /\ OnlyIncompleteIsKept
<1> SUFFICES ASSUME Init
             PROVE  TypeOK /\ Clean /\ OnlyIncompleteIsKept
  OBVIOUS
<1>1. TypeOK
  BY DEF Init, TypeOK, Empty
<1>2. 0 % Alignment = 0
  <2>1. (Alignment * 0) % Alignment = 0
    BY ModMultiple
  <2> QED BY <2>1
<1>3. Between
  BY DEF Init, Between
<1> QED
  BY <1>1, <1>2, <1>3
  DEF Init, Clean, CleanInv, CleanTransferArrives, OnlyIncompleteIsKept, TooShort, Empty

(* The first packet is still to come: nothing of the transfer is buffered. *)
LEMMA BeginStep ==
  ASSUME TypeOK, Clean, WellFormed, NEW m \in Messages, Begin(m)
  PROVE  TypeOK' /\ CleanInv' /\ CleanTransferArrives' /\ ~Between'
<1> USE DEF Begin, Clean
<1>1. SizeOf[m] \in Nat /\ SizeOf[m] >= HeaderSize
  OBVIOUS
<1>2. Transfer(m) \in Nat /\ Transfer(m) > 0
  BY <1>1, PaddedFacts DEF Transfer
<1>3. ~Between'
  BY <1>2 DEF Between
<1>4. TypeOK'
  BY DEF TypeOK
<1>5. MessageLength(m) > 0
  BY <1>1, LengthFacts
<1>6. 0 % Alignment = 0
  <2>1. (Alignment * 0) % Alignment = 0
    BY ModMultiple
  <2> QED BY <2>1
<1>7. ~spoilt' => buf = Empty
  OBVIOUS
<1>8. ~MayBeLost => ~spoilt'
  BY DEF CleanInv, Empty
<1>9. CleanInv'
  BY <1>2, <1>3, <1>5, <1>6, <1>7, <1>8 DEF CleanInv
<1> QED BY <1>3, <1>4, <1>9 DEF CleanTransferArrives

(* Feed: the packets of a clean transfer add up until the message is whole. *)
LEMMA PacketStep ==
  ASSUME TypeOK, Clean, WellFormed, Packet
  PROVE  TypeOK' /\ Clean' /\ OnlyIncompleteIsKept'
<1> DEFINE p == PacketAt(current, sent)
<1>1. ~Between /\ UNCHANGED <<current, spoilt>> /\ sent' = sent + p.size /\ Feed(p)
  BY DEF Packet
<1>2. /\ current \in Messages /\ sent \in Nat
      /\ p \in [of : Messages, from : Nat, size : Nat]
      /\ sent' \in Nat /\ sent' % Alignment = 0 /\ sent' <= Transfer(current)
      /\ p.size \in Nat \ {0}
      /\ sent' # Transfer(current) => sent' >= HeaderSize
  BY <1>1, SendStep, NextPacket DEF Clean, CleanInv, Underway
<1> HIDE DEF p
<1>3. TypeOK' /\ OnlyIncompleteIsKept' /\ out' # Panicked
  BY <1>1, <1>2, FeedStep DEF TypeOK
<1>4. Between' <=> sent' = Transfer(current)
  BY <1>1, <1>2 DEF Between
<1>5. CASE spoilt
  <2>1. Clean'
    BY <1>1, <1>2, <1>3, <1>5 DEF Clean, CleanInv, CleanTransferArrives
  <2> QED BY <1>3, <2>1
<1>6. CASE ~spoilt
  <2>1. /\ sent' # Transfer(current) =>
              /\ buf' = [size |-> sent', of |-> current, from |-> 0, run |-> sent']
              /\ out' = NoMessage
              /\ sent' < MessageLength(current)
        /\ sent' = Transfer(current) => buf' = Empty /\ out' = current
    BY <1>1, <1>6, CleanFeed DEF Clean
  <2>2. sent' > 0
    BY <1>1, <1>2
  <2>3. CleanTransferArrives'
    BY <1>1, <1>4, <2>1 DEF CleanTransferArrives
  <2>4. CleanInv'
    BY <1>1, <1>2, <1>3, <1>4, <1>6, <2>1, <2>2 DEF Clean, CleanInv
  <2> QED BY <1>3, <2>3, <2>4 DEF Clean
<1> QED BY <1>5, <1>6 DEF TypeOK

(* A lost packet spoils the transfer and touches nothing else.             *)
LEMMA LoseStep ==
  ASSUME TypeOK, Clean, Lose
  PROVE  TypeOK' /\ Clean'
<1> DEFINE p == PacketAt(current, sent)
<1>1. /\ ~Between /\ MayBeLost /\ sent' = sent + p.size /\ spoilt'
      /\ spoilt' \in BOOLEAN /\ UNCHANGED <<current, buf, out>>
  BY DEF Lose
<1>2. /\ current \in Messages
      /\ sent' \in Nat /\ sent' % Alignment = 0 /\ sent' <= Transfer(current)
  BY <1>1, SendStep, NextPacket DEF Clean, CleanInv, Underway
<1> HIDE DEF p
<1> QED BY <1>1, <1>2 DEF TypeOK, Clean, CleanInv, CleanTransferArrives

(* A step that changes nothing.                                            *)
LEMMA StutterStep ==
  ASSUME TypeOK, Clean, OnlyIncompleteIsKept, UNCHANGED vars
  PROVE  TypeOK' /\ Clean' /\ OnlyIncompleteIsKept'
BY DEF vars, hostVars, TypeOK, Clean, CleanInv, CleanTransferArrives, Between,
       OnlyIncompleteIsKept, TooShort, Incomplete, HasHeader

-----------------------------------------------------------------------------
(* Feed keeps nothing but the beginning of a message it may still deliver, *)
(* whatever lengths the headers declare, a wrapped sum among them.         *)
THEOREM NothingElseKept ==
  Spec => [](TypeOK /\ OnlyIncompleteIsKept)
<1> DEFINE Inv == TypeOK /\ Underway /\ OnlyIncompleteIsKept
<1>1. Init => Inv
  BY InitOK DEF Clean, CleanInv, Underway
<1>2. Inv /\ [Next]_vars => Inv'
  <2> SUFFICES ASSUME TypeOK, Underway, OnlyIncompleteIsKept, [Next]_vars
               PROVE  TypeOK' /\ Underway' /\ OnlyIncompleteIsKept'
    OBVIOUS
  <2>1. ASSUME NEW m \in Messages, Begin(m)
        PROVE  TypeOK' /\ Underway' /\ OnlyIncompleteIsKept'
    <3>1. sent' = 0 /\ 0 % Alignment = 0 /\ 0 <= Transfer(m)
      <4>1. (Alignment * 0) % Alignment = 0
        BY ModMultiple
      <4>2. SizeOf[m] \in Nat
        OBVIOUS
      <4> QED BY <2>1, <4>1, <4>2, PaddedFacts DEF Begin, Transfer
    <3>2. TypeOK'
      BY <2>1 DEF Begin, TypeOK
    <3>3. OnlyIncompleteIsKept'
      BY <2>1 DEF Begin, OnlyIncompleteIsKept, TooShort, Incomplete, HasHeader
    <3> QED BY <2>1, <3>1, <3>2, <3>3 DEF Begin, Underway
  <2>2. ASSUME NEW q, q = PacketAt(current, sent), ~Between,
               sent' = sent + q.size, current' = current
        PROVE  /\ q \in [of : Messages, from : Nat, size : Nat]
               /\ sent' \in Nat /\ Underway'
    BY <2>2, SendStep, NextPacket DEF Underway
  <2>3. CASE Packet
    <3> DEFINE p == PacketAt(current, sent)
    <3>1. ~Between /\ sent' = sent + p.size /\ Feed(p) /\ UNCHANGED <<current, spoilt>>
      BY <2>3 DEF Packet
    <3>2. /\ p \in [of : Messages, from : Nat, size : Nat]
          /\ sent' \in Nat /\ Underway'
      BY <2>2, <3>1
    <3> HIDE DEF p
    <3> QED BY <3>1, <3>2, FeedStep DEF TypeOK
  <2>4. CASE Lose
    <3>1. sent' \in Nat /\ Underway'
      BY <2>2, <2>4 DEF Lose
    <3>2. spoilt' \in BOOLEAN /\ UNCHANGED <<current, buf, out>>
      BY <2>4 DEF Lose
    <3>3. OnlyIncompleteIsKept'
      BY <3>2 DEF OnlyIncompleteIsKept, TooShort, Incomplete, HasHeader
    <3> QED BY <3>1, <3>2, <3>3 DEF TypeOK
  <2>5. CASE UNCHANGED vars
    BY <2>5
    DEF vars, hostVars, TypeOK, Underway, OnlyIncompleteIsKept, TooShort, Incomplete, HasHeader
  <2> QED BY <2>1, <2>3, <2>4, <2>5 DEF Next
<1>3. Inv => TypeOK /\ OnlyIncompleteIsKept
  OBVIOUS
<1> HIDE DEF Inv
<1> QED BY <1>1, <1>2, <1>3, PTL DEF Spec

-----------------------------------------------------------------------------
(* A transfer that starts on an empty buffer and loses nothing delivers    *)
(* its message and leaves the buffer empty, whatever was lost before; and  *)
(* Feed never keeps what it could have delivered or should have dropped.   *)
THEOREM CleanTransfers ==
  ASSUME WellFormed
  PROVE  Spec => [](TypeOK /\ CleanInv /\ CleanTransferArrives /\ OnlyIncompleteIsKept)
<1> DEFINE Inv == TypeOK /\ Clean /\ OnlyIncompleteIsKept
<1>1. Inv /\ [Next]_vars => Inv'
  <2> SUFFICES ASSUME Inv, [Next]_vars
               PROVE  Inv'
    OBVIOUS
  <2>1. ASSUME NEW m \in Messages, Begin(m)
        PROVE  Inv'
    <3>1. OnlyIncompleteIsKept'
      BY <2>1 DEF Begin, OnlyIncompleteIsKept, TooShort, Incomplete, HasHeader
    <3> QED BY <2>1, <3>1, BeginStep DEF Clean
  <2>2. CASE Packet
    BY <2>2, PacketStep
  <2>3. CASE Lose
    <3>1. OnlyIncompleteIsKept'
      BY <2>3 DEF Lose, OnlyIncompleteIsKept, TooShort, Incomplete, HasHeader
    <3> QED BY <2>3, <3>1, LoseStep
  <2>4. CASE UNCHANGED vars
    BY <2>4, StutterStep
  <2> QED BY <2>1, <2>2, <2>3, <2>4 DEF Next
<1>2. Init => Inv
  BY InitOK
<1>3. Inv => TypeOK /\ CleanInv /\ CleanTransferArrives /\ OnlyIncompleteIsKept
  BY DEF Clean
<1> HIDE DEF Inv
<1> QED BY <1>1, <1>2, <1>3, PTL DEF Spec

(* Reassembly is the stream of the messages that nothing is lost of.       *)
THEOREM MessagesWhole ==
  ASSUME WellFormed
  PROVE  Spec => MessagesArriveWhole
<1> DEFINE Inv == TypeOK /\ CleanInv /\ CleanTransferArrives
<1>1. Init => Stream!Init
  BY DEF Init, Stream!Init, Owed, Out, Between
<1>2. Inv /\ Inv' /\ [Next]_vars => [Stream!Next]_(Stream!vars)
  <2> SUFFICES ASSUME Inv, Inv', [Next]_vars
               PROVE  [Stream!Next]_(Stream!vars)
    OBVIOUS
  <2>1. ASSUME NEW m \in Messages, Begin(m)
        PROVE  Stream!Next
    <3>1. ~Between' /\ Owed = NoMessage
      BY <2>1, BeginStep DEF Begin, Clean, Owed
    <3>2. CASE buf = Empty
      BY <2>1, <3>1, <3>2 DEF Begin, Owed, Out, Stream!Send, Stream!Next
    <3>3. CASE buf # Empty
      <4>1. spoilt' /\ spoilt' = TRUE
        BY <2>1, <3>3 DEF Begin
      <4>2. MayBeLost
        BY <4>1, SizeAssumption DEF CleanInv
      <4> QED BY <4>1, <4>2 DEF Owed, Out, Stream!Lose, Stream!Next
    <3> QED BY <3>2, <3>3
  <2>2. CASE Packet /\ ~spoilt
    <3>1. /\ ~Between /\ ~spoilt /\ UNCHANGED spoilt /\ current' = current
          /\ current \in Messages /\ out = NoMessage
      BY <2>2, SendStep DEF Packet, CleanInv, Underway, TypeOK
    <3>2. CASE Between'
      <4>1. out' = current
        BY <3>1, <3>2 DEF CleanTransferArrives
      <4> QED BY <3>1, <3>2, <4>1 DEF Owed, Out, Stream!Deliver, Stream!Next
    <3>3. CASE ~Between'
      <4>1. out' = NoMessage
        BY <3>1, <3>3 DEF CleanInv
      <4> QED BY <3>1, <3>3, <4>1 DEF Owed, Out, Stream!vars
    <3> QED BY <3>2, <3>3
  <2>3. CASE Packet /\ spoilt
    BY <2>3 DEF Packet, Owed, Out, Stream!vars
  <2>4. CASE Lose
    BY <2>4 DEF Lose, Owed, Out, Stream!Lose, Stream!Next
  <2>5. CASE UNCHANGED vars
    BY <2>5 DEF vars, hostVars, Owed, Out, Between, Stream!vars
  <2> QED BY <2>1, <2>2, <2>3, <2>4, <2>5 DEF Next
<1>3. Spec => []Inv
  BY CleanTransfers, PTL
<1> HIDE DEF Inv
<1> QED BY <1>1, <1>2, <1>3, PTL DEF Spec, MessagesArriveWhole, Stream!Spec

=============================================================================
