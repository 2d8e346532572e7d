----------------------------- MODULE Reassembler ------------------------------
(***************************************************************************)
(* usbep.Reassembler: USBTMC messages put together again from the packets  *)
(* of the bulk-OUT endpoint, by the length their headers declare.          *)
(*                                                                         *)
(* Bytes are told apart only by where they come from: a packet is the      *)
(* stretch [from, from + size) of the transfer of a message, and the       *)
(* buffer is known by its length and by the unbroken stretch of one        *)
(* transfer at its front.  The first bytes of a transfer are its header;   *)
(* other bytes at the front of the buffer do not pass for a header (the    *)
(* wire package compares the tag with its complement).                     *)
(*                                                                         *)
(* RxRing hands packets over in order; when it overflows, packets are      *)
(* missing.  The host sends one transfer after the other.  A slice         *)
(* expression that goes out of range is the end of the firmware.           *)
(***************************************************************************)
EXTENDS Integers

CONSTANTS
  HeaderSize,     (* wire.HeaderSize: 12                                   *)
  PacketSize,     (* the packet size of a full-speed endpoint: 64          *)
  Alignment,      (* a transfer is padded to a multiple of it: 4           *)
  Messages,       (* the messages a host may send                          *)
  SizeOf,         (* message |-> its bytes, header and payload             *)
  DevDepMsgOut,   (* the messages whose header has a length to go by       *)
  Declares,       (* message |-> that length, TransferSize                 *)
  IntMod,         (* the values of an int, and of TransferSize: 2^32       *)
  NoMessage,      (* nothing                                               *)
  MayBeLost       (* packets may be missing                                *)

(* A message with bytes of more than one transfer in it, or with less than *)
(* a header.                                                               *)
Mangled == -1

(* A slice expression went out of range.                                   *)
Panicked == -2

ASSUME SizeAssumption ==
  /\ HeaderSize \in Nat \ {0}
  /\ PacketSize \in Nat \ {0}
  /\ Alignment \in Nat \ {0}
  /\ PacketSize % Alignment = 0
  /\ HeaderSize <= PacketSize
  /\ DevDepMsgOut \subseteq Messages
  /\ IntMod \in Nat \ {0}
  /\ Declares \in [Messages -> 0 .. IntMod - 1]
  /\ SizeOf \in [Messages -> Nat]
  /\ \A m \in Messages : SizeOf[m] >= HeaderSize
  /\ NoMessage \notin Messages
  /\ {Mangled, Panicked} \cap (Messages \cup {NoMessage}) = {}
  /\ MayBeLost \in BOOLEAN

(* Messages are what their headers declare, and an int has room for that;  *)
(* those of a type without a length are headers and nothing else.          *)
WellFormed ==
  \A m \in Messages :
    /\ m \in DevDepMsgOut => /\ SizeOf[m] = HeaderSize + Declares[m]
                             /\ SizeOf[m] < IntMod \div 2
    /\ m \notin DevDepMsgOut => SizeOf[m] = HeaderSize

VARIABLES
  current,        (* the message the host is sending or has sent last      *)
  sent,           (* the bytes of its transfer sent so far                 *)
  spoilt,         (* its transfer began on leftovers, or lost a packet     *)
  buf,            (* r.buf: [size, of, from, run]                          *)
  out             (* what Feed returned last: a message as it was sent,    *)
                  (* NoMessage, Mangled, or Panicked                       *)

hostVars == <<current, sent, spoilt>>
vars == <<hostVars, buf, out>>

-----------------------------------------------------------------------------
(* The host's side: a transfer is the message padded to the alignment, cut *)
(* into packets that are all full but the last.                            *)
Padded(n) == Alignment * ((n + Alignment - 1) \div Alignment)

Transfer(m) == Padded(SizeOf[m])

PacketAt(m, from) ==
  [of   |-> m,
   from |-> from,
   size |-> IF from + PacketSize < Transfer(m) THEN PacketSize ELSE Transfer(m) - from]

(* No transfer is under way.                                               *)
Between == current # NoMessage => sent = Transfer(current)

-----------------------------------------------------------------------------
(* Feed.                                                                   *)
Empty == [size |-> 0, of |-> NoMessage, from |-> 0, run |-> 0]

(* append(r.buf, packet...)                                                *)
Continues(b, p) ==
  \/ b.size = 0
  \/ b.run = b.size /\ b.of = p.of /\ b.from + b.run = p.from

Grown(b, p) ==
  [size |-> b.size + p.size,
   of   |-> IF b.size = 0 THEN p.of ELSE b.of,
   from |-> IF b.size = 0 THEN p.from ELSE b.from,
   run  |-> IF Continues(b, p) THEN b.run + p.size ELSE b.run]

(* wire.DecodeHeaderPrefix finds a header.                                 *)
HasHeader(b) == b.from = 0 /\ b.run >= HeaderSize

(* messageLength, whose sum is an int's: it may wrap.  Mutant: a sum that  *)
(* does is taken for a header.                                             *)
Wrapped(n) == LET w == n % IntMod IN IF w < IntMod \div 2 THEN w ELSE w - IntMod

LengthAtLeastHeader(m) ==
  IF m \in DevDepMsgOut /\ Wrapped(HeaderSize + Declares[m]) >= HeaderSize
    THEN HeaderSize + Declares[m]
    ELSE HeaderSize

MessageLength(m) ==
  IF m \in DevDepMsgOut THEN Wrapped(HeaderSize + Declares[m]) ELSE HeaderSize

(* The outcomes of Feed once the packet is in the buffer b.                *)
TooShort(b) == b.size < HeaderSize

Corrupt(b) == ~TooShort(b) /\ ~HasHeader(b)

Incomplete(b) == ~TooShort(b) /\ HasHeader(b) /\ b.size < MessageLength(b.of)

(* Mutant: complete only when a byte follows.                              *)
NeedsOneMore(b) == ~TooShort(b) /\ HasHeader(b) /\ b.size > MessageLength(b.of)

Complete(b) == ~TooShort(b) /\ HasHeader(b) /\ b.size >= MessageLength(b.of)

(* r.buf[:want].                                                           *)
MessageOf(b) ==
  LET want == MessageLength(b.of) IN
    IF want < 0 THEN Panicked
    ELSE IF want \in HeaderSize .. b.run THEN b.of ELSE Mangled

(* Mutants: a corrupt prefix is kept, and nothing is added to it; what     *)
(* follows a message is kept, as the start of the next one; and the        *)
(* message is cut off the buffer without a look at whether it is all       *)
(* there.                                                                  *)
FeedKeepsCorrupt(p) ==
  LET b == Grown(buf, p) IN
    /\ buf' = IF Complete(b) THEN Empty ELSE IF Corrupt(buf) THEN buf ELSE b
    /\ out' = IF Complete(b) THEN MessageOf(b) ELSE NoMessage

FeedKeepsRest(p) ==
  LET b == Grown(buf, p)
      n == IF Complete(b) THEN MessageLength(b.of) ELSE 0 IN
    /\ buf' = IF TooShort(b) \/ Incomplete(b) THEN b
              ELSE IF Complete(b) /\ b.size > n
                THEN [size |-> b.size - n, of |-> b.of, from |-> n, run |-> b.size - n]
              ELSE Empty
    /\ out' = IF Complete(b) THEN MessageOf(b) ELSE NoMessage

FeedUnchecked(p) ==
  LET b == Grown(buf, p)
      n == MessageLength(b.of) IN
    /\ buf' = IF TooShort(b) THEN b
              ELSE [size |-> b.size - n, of |-> b.of, from |-> n, run |-> b.size - n]
    /\ out' = IF TooShort(b) THEN NoMessage ELSE MessageOf(b)

Feed(p) ==
  LET b == Grown(buf, p) IN
    /\ buf' = IF TooShort(b) \/ Incomplete(b) THEN b ELSE Empty
    /\ out' = IF Complete(b) THEN MessageOf(b) ELSE NoMessage

-----------------------------------------------------------------------------
Init ==
  /\ current = NoMessage
  /\ sent = 0
  /\ spoilt = FALSE
  /\ buf = Empty
  /\ out = NoMessage

Begin(m) ==
  /\ Between
  /\ out # Panicked
  /\ current' = m
  /\ sent' = 0
  /\ spoilt' = (buf # Empty)
  /\ out' = NoMessage
  /\ UNCHANGED buf

(* The next packet reaches Feed.                                           *)
Packet ==
  /\ ~Between
  /\ out # Panicked
  /\ LET p == PacketAt(current, sent) IN
       /\ Feed(p)
       /\ sent' = sent + p.size
  /\ UNCHANGED <<current, spoilt>>

(* The next packet does not reach Feed.                                    *)
Lose ==
  /\ MayBeLost
  /\ ~Between
  /\ out # Panicked
  /\ sent' = sent + PacketAt(current, sent).size
  /\ spoilt' = TRUE
  /\ UNCHANGED <<current, buf, out>>

Host == Packet \/ \E m \in Messages : Begin(m)

Next ==
  \/ \E m \in Messages : Begin(m)
  \/ Packet
  \/ Lose

(* A host that goes on sending.                                            *)
Spec == Init /\ [][Next]_vars /\ WF_vars(Host)

-----------------------------------------------------------------------------
TypeOK ==
  /\ current \in Messages \cup {NoMessage}
  /\ sent \in Nat
  /\ spoilt \in BOOLEAN
  /\ buf \in [size : Nat, of : Messages \cup {NoMessage}, from : Nat, run : Nat]
  /\ out \in Messages \cup {NoMessage, Mangled, Panicked}

(* Every message whose transfer finds the buffer empty and loses no packet *)
(* comes out once, as it was sent, with the last packet of its transfer    *)
(* and not before.                                                         *)
Owed == IF Between \/ spoilt THEN NoMessage ELSE current

Out == IF spoilt THEN NoMessage ELSE out

Stream == INSTANCE MessageStream WITH owed <- Owed, out <- Out

MessagesArriveWhole == Stream!Spec

(* Whatever was lost before it, a transfer that finds the buffer empty and *)
(* loses nothing delivers its message and leaves the buffer empty.         *)
CleanTransferArrives ==
  Between /\ current # NoMessage /\ ~spoilt => out = current /\ buf = Empty

(* Feed keeps no complete message and no corrupt header: the buffer never  *)
(* outgrows the message its header declares by as much as a byte.          *)
OnlyIncompleteIsKept == TooShort(buf) \/ Incomplete(buf)

(* Feed's comment on a corrupt prefix: it is dropped so that one bad       *)
(* packet does not wedge every future one behind it.  Once packets are no  *)
(* longer lost, so that every step is the host's, messages come out again. *)
RecoversFromLoss ==
  <>[][Host]_vars => []<>(out \in Messages)

(* The invariant behind it, of well-formed messages: up to the last packet *)
(* of a clean transfer, the buffer is what was sent of it, and that is not *)
(* yet the whole message.                                                  *)
CleanInv ==
  /\ sent % Alignment = 0
  /\ current # NoMessage => sent <= Transfer(current)
  /\ ~spoilt /\ Between => buf = Empty
  /\ ~spoilt /\ ~Between =>
       /\ sent < MessageLength(current)
       /\ out = NoMessage
       /\ sent > 0 => buf = [size |-> sent, of |-> current, from |-> 0, run |-> sent]
       /\ sent > 0 => sent >= HeaderSize
       /\ sent = 0 => buf = Empty
  /\ ~MayBeLost => ~spoilt
  /\ out # Panicked

=============================================================================
