------------------------------- MODULE Handler --------------------------------
(***************************************************************************)
(* usbtmcfront.Handler and the instrument behind it: what becomes of one   *)
(* USBTMC message.                                                         *)
(*                                                                         *)
(* Messages and answers are known by their lengths.  A message's len is    *)
(* what is there of it, its size what its header declares.  Lengths are    *)
(* computed in the int of the firmware's processor, as wide as the uint32  *)
(* that sizes are declared in.                                             *)
(*                                                                         *)
(* Instrument is as gpib.Instrument describes it: a program message may    *)
(* come in parts, the last one with END, and an answer may be read in      *)
(* parts.  A new program message makes it forget an unread answer.         *)
(***************************************************************************)
EXTENDS Integers

CONSTANTS
  HeaderSize,          (* wire.HeaderSize: 12                              *)
  IntMod,              (* the values of an int: 2^32                       *)
  MaxResponsePayload,  (* h.maxResponsePayload(): 4096                     *)
  Answers              (* the lengths of the instrument's answers          *)

VARIABLES
  answer,      (* the length of the instrument's answer                    *)
  at           (* the bytes of it that were read                           *)

Min2(a, b) == IF a < b THEN a ELSE b

(* int arithmetic.                                                         *)
Int32(n) == LET r == n % IntMod IN IF r < IntMod \div 2 THEN r ELSE r - IntMod

-----------------------------------------------------------------------------
(* payloadBytes: where the payload ends.  Mutants: the header is not       *)
(* counted, and a message with padding after its payload is refused.       *)
HeaderlessEnd(size) == size

PayloadEnd(size) == Int32(HeaderSize + Int32(size))

ExactTooLong(size, len) == PayloadEnd(size) # len

TooLong(size, len) == PayloadEnd(size) > len

(* Its outcomes, and HandleBulkOut's for a header cut short: an error      *)
(* before any call of the instrument, a slice expression                   *)
(* msg[wire.HeaderSize:end] with end before the payload, or a payload.     *)
Refused(size, len) == len < HeaderSize \/ TooLong(size, len)

OutOfRange(size, len) == ~Refused(size, len) /\ PayloadEnd(size) < HeaderSize

Sliced(size, len) == ~Refused(size, len) /\ PayloadEnd(size) >= HeaderSize

(* Instrument.Write: part of a program message makes the instrument forget *)
(* its answer, and with END it may have a new one.                         *)
Answering(end) ==
  /\ answer' \in IF end THEN Answers ELSE {0}
  /\ at' = 0

(* handleRequestDevDepMsgIn: the bytes asked of the instrument.            *)
Want(size) == Min2(size, MaxResponsePayload)

(* Instrument.Read takes as many from the answer, or fewer.                *)
TakenFrom(size) ==
  /\ at' \in at .. at + Min2(Want(size), answer - at)
  /\ UNCHANGED answer

(* The length the response declares of n bytes read.  Mutant: that of the  *)
(* whole buffer.                                                           *)
BufferLength(n, want) == want

Declared(n, want) == n

=============================================================================
