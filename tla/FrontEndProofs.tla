----------------------------- MODULE FrontEndProofs ----------------------------
(***************************************************************************)
(* Proofs about the two front ends of an instrument.                       *)
(*                                                                         *)
(* UsbTmcFront, for any sizes, lengths and answers, and for any width of   *)
(* an int: the host and the instrument agree on program message and        *)
(* answer, but for what failing calls and messages that fall short of what *)
(* they declare account for, and the handler panics only on sizes that a   *)
(* header cannot be added to.                                              *)
(*                                                                         *)
(* HislipDevice, for any number of instruments: what RemoteLocal has done  *)
(* to the bus when it returns, with and without an error, whatever calls   *)
(* came before it.                                                         *)
(***************************************************************************)
EXTENDS UsbTmcFront, HislipDevice, CounterArithmetic, SequenceTheorems

USE FrontAssumption

-----------------------------------------------------------------------------
FrontInv ==
  /\ TypeOK
  /\ NothingLost
  /\ PanicsOnlyOnWrap

(* Where a payload ends: a slice expression that is in range takes what    *)
(* the header declares, and that is there; one that is out of range has a  *)
(* sum that is not an int; and a message that carries what it declares is  *)
(* not refused.                                                            *)
LEMMA PayloadEndFacts ==
  ASSUME NEW size \in Sizes, NEW len \in Lens
  PROVE  /\ PayloadEnd(size) \in Int
         /\ Carried(size, len) \in Nat
         /\ Sliced(size, len) =>
              /\ PayloadEnd(size) - HeaderSize = size
              /\ Carried(size, len) = size
         /\ OutOfRange(size, len) => HeaderSize + size >= IntMod \div 2
         /\ Refused(size, len) => FallsShort(size, len)
<1>1. /\ size \in 0 .. IntMod - 1 /\ IntMod \in Nat \ {0} /\ HeaderSize \in Nat
      /\ len \in Int /\ IntMod % 2 = 0 /\ IntMod \div 2 \in Nat
      /\ len < IntMod \div 2
  OBVIOUS
<1>2. PayloadEnd(size) = Signed(HeaderSize + Signed(size, IntMod), IntMod)
  BY DEF PayloadEnd, Int32, Signed
<1>3. /\ PayloadEnd(size) \in -(IntMod \div 2) .. (IntMod \div 2) - 1
      /\ HeaderSize + size < IntMod \div 2 => PayloadEnd(size) = HeaderSize + size
      /\ PayloadEnd(size) >= HeaderSize => PayloadEnd(size) = HeaderSize + size
  BY ONLY <1>1, <1>2, SignedSum, Zenon
<1>4. PayloadEnd(size) \in Int
  BY <1>1, <1>3
<1>5. ASSUME Sliced(size, len)
      PROVE  /\ PayloadEnd(size) - HeaderSize = size
             /\ Carried(size, len) = size
  BY <1>1, <1>3, <1>4, <1>5 DEF Sliced, Refused, TooLong, Carried, Min2
<1>6. ASSUME OutOfRange(size, len)
      PROVE  HeaderSize + size >= IntMod \div 2
  BY <1>1, <1>3, <1>4, <1>6 DEF OutOfRange
<1>7. ASSUME Refused(size, len), ~FallsShort(size, len)
      PROVE  FALSE
  BY <1>1, <1>3, <1>4, <1>7 DEF Refused, TooLong, FallsShort
<1>8. Carried(size, len) \in Nat
  BY <1>1 DEF Carried, Min2
<1> QED BY <1>4, <1>5, <1>6, <1>7, <1>8

(* What is read of an answer.                                              *)
LEMMA TakenFacts ==
  ASSUME TypeOK, NEW size \in Sizes, TakenFrom(size)
  PROVE  at' \in at .. answer /\ answer' = answer
<1>1. size \in Nat /\ at \in Nat /\ answer \in Nat /\ at <= answer
  BY DEF TypeOK
<1> QED BY <1>1 DEF TakenFrom, Want, Min2

(* The part of an answer between two places in it.                         *)
LEMMA PartFacts ==
  ASSUME NEW a \in Nat, NEW b \in Nat, a <= b
  PROVE  /\ b - a \in 0 .. b
         /\ b - a \in Nat
         /\ a + (b - a) = b
OBVIOUS

(* What the host and the instrument have of a program message after a      *)
(* message that is written.                                                *)
LEMMA WriteStep ==
  ASSUME FrontInv, NEW size \in Sizes, NEW len \in Lens, NEW end \in BOOLEAN,
         Write(size, len, end)
  PROVE  FrontInv'
<1>1. /\ size \in Nat /\ told \in Nat /\ heard \in Nat
      /\ toldEnd \in BOOLEAN /\ heardEnd \in BOOLEAN /\ fault \in BOOLEAN
      /\ request \in Nat
  BY DEF FrontInv, TypeOK
<1>2. /\ told' = IF toldEnd THEN size ELSE told + size
      /\ heard' = IF heardEnd THEN size ELSE heard + size
  BY PayloadEndFacts DEF Write, Tells, Hears
<1>3. /\ toldEnd' = end /\ heardEnd' = end /\ has' = 0 /\ hasEnd' = FALSE /\ lost' = 0
      /\ at' = 0 /\ response' = None /\ request' = request /\ panicked' = panicked
      /\ ~panicked
  BY DEF Write, Tells, NewAnswer, Answering
<1>4. answer' \in Nat
  BY DEF Write, NewAnswer, Answering
<1>5. fault' <=> fault /\ ~(toldEnd /\ heardEnd)
  BY Zenon DEF Write, Lasting
<1>6. fault' \in BOOLEAN /\ panicked' \in BOOLEAN
  BY <1>3 DEF Write, Lasting, FrontInv, TypeOK
<1>7. TypeOK'
  <2>1. {told', heard', answer', at', has', lost', request'} \subseteq Nat
    BY <1>1, <1>2, <1>3, <1>4, <1>6
  <2>2. {toldEnd', hasEnd', heardEnd', fault', panicked'} \subseteq BOOLEAN
    BY <1>1, <1>2, <1>3, <1>4, <1>6
  <2> QED BY <1>1, <1>2, <1>3, <1>4, <1>6, <2>1, <2>2 DEF TypeOK
<1>8. NothingLost'
  <2> SUFFICES ASSUME ~fault'
               PROVE  heard' = told'
    BY <1>3 DEF NothingLost
  <2>1. CASE toldEnd /\ heardEnd
    BY <1>2, <2>1
  <2>2. CASE ~fault
    BY <1>1, <1>2, <2>2 DEF FrontInv, NothingLost
  <2> QED BY <1>5, <2>1, <2>2
<1> QED BY <1>3, <1>7, <1>8 DEF FrontInv, PanicsOnlyOnWrap

(* A write that fails is a fault: there is nothing to agree on.            *)
LEMMA WriteFailsStep ==
  ASSUME FrontInv, NEW size \in Sizes, NEW len \in Lens, NEW end \in BOOLEAN,
         WriteFails(size, len, end)
  PROVE  FrontInv'
<1>1. /\ size \in Nat /\ told \in Nat /\ heard \in Nat
      /\ toldEnd \in BOOLEAN /\ heardEnd \in BOOLEAN /\ request \in Nat
      /\ panicked \in BOOLEAN
  BY DEF FrontInv, TypeOK
<1>2. PICK n \in 0 .. PayloadEnd(size) - HeaderSize, done \in BOOLEAN :
        Hears(n) /\ heardEnd' = done /\ NewAnswer(done)
  BY DEF WriteFails
<1>3. n \in Nat
  BY PayloadEndFacts
<1>4. /\ told' = IF toldEnd THEN size ELSE told + size
      /\ heard' = IF heardEnd THEN n ELSE heard + n
  BY <1>2, PayloadEndFacts DEF WriteFails, Tells, Hears
<1>5. /\ toldEnd' = end /\ heardEnd' = done /\ has' = 0 /\ hasEnd' = FALSE /\ lost' = 0
      /\ at' = 0 /\ response' = None /\ request' = request
      /\ panicked' = panicked /\ ~panicked /\ fault' = TRUE
  BY <1>2 DEF WriteFails, Tells, NewAnswer, Answering
<1>6. told' \in Nat /\ heard' \in Nat /\ answer' \in Nat
  BY <1>1, <1>2, <1>3, <1>4 DEF NewAnswer, Answering
<1>7. TypeOK'
  <2>1. {told', heard', answer', at', has', lost', request'} \subseteq Nat
    BY <1>1, <1>5, <1>6
  <2>2. {toldEnd', hasEnd', heardEnd', fault', panicked'} \subseteq BOOLEAN
    BY <1>1, <1>5
  <2> QED BY <1>1, <1>5, <1>6, <2>1, <2>2 DEF TypeOK
<1> QED BY <1>5, <1>7 DEF FrontInv, NothingLost, PanicsOnlyOnWrap

(* A message that is refused has reached the instrument in no part; what   *)
(* the host sent of it is a fault.                                         *)
LEMMA RejectStep ==
  ASSUME FrontInv, NEW size \in Sizes, NEW len \in Lens, NEW end \in BOOLEAN,
         Reject(size, len, end)
  PROVE  FrontInv'
<1>1. /\ told \in Nat /\ toldEnd \in BOOLEAN /\ Carried(size, len) \in Nat
  BY PayloadEndFacts DEF FrontInv, TypeOK
<1>2. /\ told' = IF toldEnd THEN Carried(size, len) ELSE told + Carried(size, len)
      /\ toldEnd' = end
  BY DEF Reject, Tells
<1>3. /\ response' = None /\ ~panicked
      /\ UNCHANGED <<heard, heardEnd, has, hasEnd, lost, answer, at, request, panicked>>
  BY DEF Reject, answerVars
<1>4. fault' = TRUE
  <2>1. FallsShort(size, len)
    BY PayloadEndFacts DEF Reject
  <2>2. fault' = (Lasting \/ FallsShort(size, len))
    BY DEF Reject
  <2> QED BY <2>1, <2>2, Zenon
<1>5. told' \in Nat
  BY <1>1, <1>2
<1>6. TypeOK'
  <2>1. {told', heard', answer', at', has', lost', request'} \subseteq Nat
    BY <1>3, <1>5 DEF FrontInv, TypeOK
  <2>2. {toldEnd', hasEnd', heardEnd', fault', panicked'} \subseteq BOOLEAN
    BY <1>2, <1>3, <1>4 DEF FrontInv, TypeOK
  <2> QED BY <1>3, <2>1, <2>2 DEF FrontInv, TypeOK
<1> QED BY <1>3, <1>4, <1>6 DEF FrontInv, NothingLost, PanicsOnlyOnWrap

(* An answer, or a part of it, reaches the host.                           *)
LEMMA ReadStep ==
  ASSUME FrontInv, NEW size \in Sizes, Read(size)
  PROVE  FrontInv'
<1>1. /\ size \in Nat /\ at \in Nat /\ answer \in Nat /\ has \in Nat /\ lost \in Nat
      /\ at <= answer /\ has + lost = at
  BY DEF FrontInv, TypeOK, NothingLost
<1>2. at' \in at .. answer /\ answer' = answer
  BY TakenFacts DEF FrontInv, Read
<1>3. /\ has' = has + (at' - at)
      /\ response' = at' - at /\ request' = size
      /\ UNCHANGED <<told, toldEnd, heard, heardEnd, lost, fault, panicked>> /\ ~panicked
  BY DEF Read, Declared, programVars
<1>4. hasEnd' = (at' = answer')
  BY <1>2, Zenon DEF Read
<1>5. hasEnd' \in BOOLEAN
  BY <1>4
<1>6. at' \in Nat /\ has' \in Nat /\ response' \in 0 .. at' /\ has' + lost = at'
  <2>1. has' = has + (at' - at) /\ response' = at' - at
    BY <1>3
  <2>2. at' \in at .. answer
    BY <1>2
  <2>3. /\ at \in Nat /\ at' \in Nat /\ has \in Nat /\ lost \in Nat /\ answer \in Nat
        /\ at <= at' /\ at' <= answer /\ has + lost = at
    BY ONLY <1>1, <2>2
  <2>4. PICK d \in Nat : d = at' - at /\ d \in 0 .. at' /\ at + d = at'
    BY ONLY <2>3, PartFacts, Zenon
  <2>5. at \in Nat /\ has \in Nat /\ lost \in Nat /\ has + lost = at /\ d \in Nat
    BY ONLY <2>3, <2>4, Zenon
  <2>6. /\ has + d \in Nat /\ has + d + lost = at + d
        /\ lost + d \in Nat /\ has + (lost + d) = at + d
    BY ONLY <2>5
  <2> QED BY ONLY <2>1, <2>3, <2>4, <2>5, <2>6, Zenon
<1>7. TypeOK'
  <2>1. {told', heard', answer', at', has', lost', request'} \subseteq Nat
    BY <1>1, <1>2, <1>3, <1>6 DEF FrontInv, TypeOK
  <2>2. {toldEnd', hasEnd', heardEnd', fault', panicked'} \subseteq BOOLEAN
    BY <1>3, <1>5 DEF FrontInv, TypeOK
  <2>3. at' <= answer'
    BY <1>1, <1>2
  <2> QED BY <1>6, <2>1, <2>2, <2>3 DEF TypeOK
<1>8. NothingLost'
  <2>1. ~fault' => heard' = told' /\ heardEnd' = toldEnd'
    BY <1>3 DEF FrontInv, NothingLost
  <2>2. has' + lost' = at'
    BY <1>3, <1>6
  <2>3. /\ hasEnd' => at' = answer'
        /\ response' # None => hasEnd' = (at' = answer')
    BY <1>4, Zenon
  <2> QED BY <2>1, <2>2, <2>3, Zenon DEF NothingLost
<1> QED BY <1>3, <1>7, <1>8 DEF FrontInv, PanicsOnlyOnWrap

(* A read that fails has taken what it has taken.                          *)
LEMMA ReadFailsStep ==
  ASSUME FrontInv, NEW size \in Sizes, ReadFails(size)
  PROVE  FrontInv'
<1>1. /\ size \in Nat /\ at \in Nat /\ answer \in Nat /\ has \in Nat /\ lost \in Nat
      /\ at <= answer /\ has + lost = at
  BY DEF FrontInv, TypeOK, NothingLost
<1>2. at' \in at .. answer /\ answer' = answer
  BY TakenFacts DEF FrontInv, ReadFails
<1>3. /\ lost' = lost + (at' - at) /\ request' = size /\ response' = None
      /\ UNCHANGED <<told, toldEnd, heard, heardEnd, has, hasEnd, fault, panicked>>
      /\ ~panicked
  BY DEF ReadFails, programVars
<1>4. at' \in Nat /\ lost' \in Nat /\ has + lost' = at' /\ at' <= answer
  <2>1. lost' = lost + (at' - at)
    BY <1>3
  <2>2. at' \in at .. answer
    BY <1>2
  <2>3. /\ at \in Nat /\ at' \in Nat /\ has \in Nat /\ lost \in Nat /\ answer \in Nat
        /\ at <= at' /\ at' <= answer /\ has + lost = at
    BY ONLY <1>1, <2>2
  <2>4. PICK d \in Nat : d = at' - at /\ d \in 0 .. at' /\ at + d = at'
    BY ONLY <2>3, PartFacts, Zenon
  <2>5. at \in Nat /\ has \in Nat /\ lost \in Nat /\ has + lost = at /\ d \in Nat
    BY ONLY <2>3, <2>4, Zenon
  <2>6. /\ has + d \in Nat /\ has + d + lost = at + d
        /\ lost + d \in Nat /\ has + (lost + d) = at + d
    BY ONLY <2>5
  <2> QED BY ONLY <2>1, <2>3, <2>4, <2>5, <2>6, Zenon
<1>5. TypeOK'
  <2>1. {told', heard', answer', at', has', lost', request'} \subseteq Nat
    BY <1>1, <1>2, <1>3, <1>4 DEF FrontInv, TypeOK
  <2>2. {toldEnd', hasEnd', heardEnd', fault', panicked'} \subseteq BOOLEAN
    BY <1>3 DEF FrontInv, TypeOK
  <2> QED BY <1>2, <1>3, <1>4, <2>1, <2>2 DEF TypeOK
<1>6. NothingLost'
  <2>1. hasEnd' => at' = answer'
    BY <1>1, <1>2, <1>3 DEF FrontInv, NothingLost
  <2>2. ~fault' => heard' = told' /\ heardEnd' = toldEnd'
    BY <1>3 DEF FrontInv, NothingLost
  <2> QED BY <1>3, <1>4, <2>1, <2>2 DEF NothingLost
<1> QED BY <1>3, <1>5, <1>6 DEF FrontInv, PanicsOnlyOnWrap

(* The other steps leave host and instrument alone.                        *)
LEMMA OtherStep ==
  ASSUME FrontInv,
         \/ \E size \in Sizes, len \in Lens : Panic(size, len)
         \/ Trigger
         \/ UNCHANGED vars
  PROVE  FrontInv'
<1>1. CASE \E size \in Sizes, len \in Lens : Panic(size, len)
  <2>1. PICK size \in Sizes, len \in Lens : Panic(size, len)
    BY <1>1
  <2>2. HeaderSize + size >= IntMod \div 2 /\ size \in Nat
    BY <2>1, PayloadEndFacts DEF Panic
  <2>3. /\ panicked' = TRUE /\ request' = size
        /\ UNCHANGED <<programVars, answerVars, response, fault>>
    BY <2>1 DEF Panic
  <2> QED BY <2>2, <2>3 DEF FrontInv, TypeOK, NothingLost, PanicsOnlyOnWrap, programVars,
                            answerVars
<1>2. CASE Trigger
  BY <1>2 DEF Trigger, FrontInv, TypeOK, NothingLost, PanicsOnlyOnWrap, programVars, answerVars
<1>3. CASE UNCHANGED vars
  BY <1>3 DEF vars, FrontInv, TypeOK, NothingLost, PanicsOnlyOnWrap, programVars, answerVars
<1> QED BY <1>1, <1>2, <1>3

-----------------------------------------------------------------------------
(* However the host splits its program messages and requests and the       *)
(* instrument its answers: the instrument has heard what the host told it, *)
(* unless a write failed or a message fell short of what it declares; the  *)
(* host has what was read but for what failing reads took, and knows       *)
(* whether there is more; and the handler panics only on a size that takes *)
(* the sum with the header out of the range of an int.                     *)
THEOREM HostAndInstrumentAgree ==
  Spec => [](TypeOK /\ NothingLost /\ PanicsOnlyOnWrap)
<1>1. Init => FrontInv
  <2> SUFFICES ASSUME Init PROVE FrontInv
    OBVIOUS
  <2>1. {told, heard, answer, at, has, lost, request} \subseteq Nat
    BY DEF Init
  <2>2. {toldEnd, hasEnd, heardEnd, fault, panicked} \subseteq BOOLEAN
    BY DEF Init
  <2>3. has + lost = at
    BY DEF Init
  <2> QED BY <2>1, <2>2, <2>3 DEF Init, FrontInv, TypeOK, NothingLost, PanicsOnlyOnWrap
<1>2. FrontInv /\ [Next]_vars => FrontInv'
  <2> SUFFICES ASSUME FrontInv, [Next]_vars PROVE FrontInv'
    OBVIOUS
  <2> QED BY WriteStep, WriteFailsStep, RejectStep, ReadStep, ReadFailsStep, OtherStep
          DEF Next, DevDepMsgOut
<1>3. FrontInv => TypeOK /\ NothingLost /\ PanicsOnlyOnWrap
  BY DEF FrontInv
<1> QED BY <1>1, <1>2, <1>3, PTL DEF Spec

-----------------------------------------------------------------------------
USE InstrumentAssumption

DriverCalls == [op : {"RemoteEnable", "LocalLockout", "GoToLocal"}, on : BOOLEAN]

(* Where RemoteLocal is while it runs: at its first call, with the bus as  *)
(* it found it; or at the second, with REN as the mode has it.             *)
Midway ==
  /\ mode \in Modes
  /\ target \in Instruments
  /\ ~addressed
  /\ \/ todo = Plan(mode) /\ bus = before
     \/ /\ Len(Plan(mode)) = 2
        /\ todo = Tail(Plan(mode))
        /\ ren = Plan(mode)[1].on
        /\ lockout = (before[2] /\ ren)
        /\ remote = IF ren THEN before[3] ELSE {}

RemoteLocalInv ==
  /\ DeviceTypeOK
  /\ result = "none" => Midway
  /\ result = "error" => mode \in Modes
  /\ ModeTakesEffect
  /\ FailureStaysWithinMode

(* The calls that the planned ones are put together from.                  *)
LEMMA CallFacts ==
  ASSUME NEW op \in {"RemoteEnable", "LocalLockout"}
  PROVE  /\ Call(op, "NoChange") = <<>>
         /\ Call(op, "True") = << [op |-> op, on |-> TRUE] >>
         /\ Call(op, "False") = << [op |-> op, on |-> FALSE] >>
<1>1. /\ Call(op, "NoChange") = <<>>
      /\ Call(op, "True") = << [op |-> op, on |-> "True" = "True"] >>
      /\ Call(op, "False") = << [op |-> op, on |-> "False" = "True"] >>
  BY DEF Call
<1>2. ("True" = "True") = TRUE /\ ("False" = "True") = FALSE
  OBVIOUS
<1> QED BY <1>1, <1>2, Zenon

(* The driver's calls as sequences: one, or two.                           *)
LEMMA PlanParts ==
  ASSUME NEW a \in DriverCalls, NEW b \in DriverCalls
  PROVE  /\ << a >> \o << b >> \o <<>> = << a, b >>
         /\ << a >> \o <<>> \o <<>> = << a >>
         /\ <<>> \o <<>> \o << a >> = << a >>
<1> HIDE DEF DriverCalls
<1>1. /\ << a >> \in Seq(DriverCalls) /\ << b >> \in Seq(DriverCalls)
      /\ <<>> \in Seq(DriverCalls) /\ << a, b >> \in Seq(DriverCalls)
  OBVIOUS
<1>2. << a >> \o << b >> = << a, b >>
  <2> DEFINE ab == Append(<< a >>, b)
  <2>1. /\ ab \in Seq(DriverCalls)
        /\ Len(ab) = 2
        /\ ab[1] = a /\ ab[2] = b
    BY <1>1
  <2>2. Len(<< a, b >>) = 2 /\ << a, b >>[1] = a /\ << a, b >>[2] = b
    OBVIOUS
  <2> HIDE DEF ab
  <2>3. ab = << a, b >>
    BY <1>1, <2>1, <2>2, SeqEqual
  <2> QED BY <1>1, <2>3, AppendIsConcat DEF ab
<1> QED BY <1>1, <1>2, ConcatEmptySeq

RenOn == [op |-> "RemoteEnable", on |-> TRUE]
RenOff == [op |-> "RemoteEnable", on |-> FALSE]
LockoutOn == [op |-> "LocalLockout", on |-> TRUE]
LockoutOff == [op |-> "LocalLockout", on |-> FALSE]
AddressedLocal == [op |-> "GoToLocal", on |-> TRUE]

(* The driver calls of each mode, one by one.                              *)
LEMMA PlanCases ==
  ASSUME NEW m \in Modes
  PROVE  LET e == Effects(m) IN
         \/ /\ e.RemoteEnable = "False" /\ e.LocalLockout = "False" /\ e.Remote = "False"
            /\ Plan(m) = << RenOff, LockoutOff >>
         \/ /\ e.RemoteEnable = "True" /\ e.LocalLockout = "NoChange" /\ e.Remote # "False"
            /\ Plan(m) = << RenOn >>
         \/ /\ e.RemoteEnable = "True" /\ e.LocalLockout = "True" /\ e.Remote # "False"
            /\ Plan(m) = << RenOn, LockoutOn >>
         \/ /\ e.RemoteEnable = "NoChange" /\ e.LocalLockout = "NoChange" /\ e.Remote = "False"
            /\ Plan(m) = << AddressedLocal >>
<1> DEFINE e == Effects(m)
<1>1. Plan(m) = Call("RemoteEnable", e.RemoteEnable) \o Call("LocalLockout", e.LocalLockout)
                  \o GoToLocalCall(e)
  BY DEF Plan, Modes, Invalid
<1>2. /\ RenOn \in DriverCalls /\ RenOff \in DriverCalls
      /\ LockoutOn \in DriverCalls /\ LockoutOff \in DriverCalls
      /\ AddressedLocal \in DriverCalls
  BY DEF RenOn, RenOff, LockoutOn, LockoutOff, AddressedLocal, DriverCalls
<1>3. \/ e.RemoteEnable = "False" /\ e.LocalLockout = "False" /\ e.Remote = "False"
      \/ e.RemoteEnable = "True" /\ e.LocalLockout = "NoChange" /\ e.Remote # "False"
      \/ e.RemoteEnable = "True" /\ e.LocalLockout = "True" /\ e.Remote # "False"
      \/ e.RemoteEnable = "NoChange" /\ e.LocalLockout = "NoChange" /\ e.Remote = "False"
  BY DEF Effects, Effect, Modes
<1> HIDE DEF e
<1>4. /\ Call("RemoteEnable", "True") = << RenOn >>
      /\ Call("RemoteEnable", "False") = << RenOff >>
      /\ Call("RemoteEnable", "NoChange") = <<>>
      /\ Call("LocalLockout", "True") = << LockoutOn >>
      /\ Call("LocalLockout", "False") = << LockoutOff >>
      /\ Call("LocalLockout", "NoChange") = <<>>
  BY CallFacts DEF RenOn, RenOff, LockoutOn, LockoutOff
<1>5. GoToLocalCall(e) = IF e.Remote = "False" /\ e.RemoteEnable = "NoChange"
                           THEN << AddressedLocal >> ELSE <<>>
  BY DEF GoToLocalCall, AddressedLocal
<1>6. CASE e.RemoteEnable = "False" /\ e.LocalLockout = "False" /\ e.Remote = "False"
  <2>1. Plan(m) = << RenOff >> \o << LockoutOff >> \o <<>>
    BY <1>1, <1>4, <1>5, <1>6
  <2> QED BY <1>2, <1>6, <2>1, PlanParts DEF e
<1>7. CASE e.RemoteEnable = "True" /\ e.LocalLockout = "NoChange" /\ e.Remote # "False"
  <2>1. Plan(m) = << RenOn >> \o <<>> \o <<>>
    BY <1>1, <1>4, <1>5, <1>7
  <2> QED BY <1>2, <1>7, <2>1, PlanParts DEF e
<1>8. CASE e.RemoteEnable = "True" /\ e.LocalLockout = "True" /\ e.Remote # "False"
  <2>1. Plan(m) = << RenOn >> \o << LockoutOn >> \o <<>>
    BY <1>1, <1>4, <1>5, <1>8
  <2> QED BY <1>2, <1>8, <2>1, PlanParts DEF e
<1>9. CASE e.RemoteEnable = "NoChange" /\ e.LocalLockout = "NoChange" /\ e.Remote = "False"
  <2>1. Plan(m) = <<>> \o <<>> \o << AddressedLocal >>
    BY <1>1, <1>4, <1>5, <1>9
  <2> QED BY <1>2, <1>9, <2>1, PlanParts DEF e
<1> QED BY <1>3, <1>6, <1>7, <1>8, <1>9

(* A planned call is one the driver has, and there are one or two of them. *)
LEMMA PlanType ==
  ASSUME NEW m \in Modes \cup {Invalid}
  PROVE  /\ Plan(m) \in Seq(DriverCalls)
         /\ m \in Modes => Plan(m) # <<>>
         /\ m = Invalid => Plan(m) = <<>>
<1>1. /\ RenOn \in DriverCalls /\ RenOff \in DriverCalls
      /\ LockoutOn \in DriverCalls /\ LockoutOff \in DriverCalls
      /\ AddressedLocal \in DriverCalls
  BY DEF RenOn, RenOff, LockoutOn, LockoutOff, AddressedLocal, DriverCalls
<1>2. m = Invalid => Plan(m) = <<>> /\ m \notin Modes
  BY DEF Plan, Invalid, Modes
<1>3. ASSUME m \in Modes
      PROVE  Plan(m) \in Seq(DriverCalls) /\ Plan(m) # <<>>
  <2> HIDE DEF Modes, DriverCalls, RenOn, RenOff, LockoutOn, LockoutOff, AddressedLocal
  <2>1. \/ Plan(m) = << RenOff, LockoutOff >>
        \/ Plan(m) = << RenOn >>
        \/ Plan(m) = << RenOn, LockoutOn >>
        \/ Plan(m) = << AddressedLocal >>
    BY <1>3, PlanCases
  <2>2. \A a, b \in DriverCalls : /\ << a >> \in Seq(DriverCalls) /\ << a >> # <<>>
                                /\ << a, b >> \in Seq(DriverCalls) /\ << a, b >> # <<>>
    OBVIOUS
  <2> QED BY <1>1, <2>1, <2>2
<1>4. CASE m = Invalid
  BY <1>2, <1>4
<1>5. CASE m \in Modes
  BY <1>2, <1>3, <1>5
<1> QED BY <1>4, <1>5

(* How a driver call changes the bus.                                      *)
LEMMA DoParts ==
  ASSUME NEW call, Do(call), lockout \in BOOLEAN, ren \in BOOLEAN
  PROVE  /\ call = RenOn => ren' /\ (lockout' <=> lockout) /\ remote' = remote
         /\ call = RenOff => ~ren' /\ ~lockout' /\ remote' = {}
         /\ call = LockoutOn => (ren' <=> ren) /\ (lockout' <=> ren) /\ remote' = remote
         /\ call = LockoutOff => (ren' <=> ren) /\ ~lockout' /\ remote' = remote
         /\ call = AddressedLocal => /\ (ren' <=> ren) /\ (lockout' <=> lockout)
                                     /\ remote' = remote \ {target}
<1>1. /\ call = RenOn => call.op = "RemoteEnable" /\ call.on
      /\ call = RenOff => call.op = "RemoteEnable" /\ ~call.on
      /\ call = LockoutOn => call.op = "LocalLockout" /\ call.on
      /\ call = LockoutOff => call.op = "LocalLockout" /\ ~call.on
      /\ call = AddressedLocal => call.op = "GoToLocal"
  BY DEF RenOn, RenOff, LockoutOn, LockoutOff, AddressedLocal
<1>2. /\ "RemoteEnable" # "LocalLockout"
      /\ "RemoteEnable" # "GoToLocal"
      /\ "LocalLockout" # "GoToLocal"
  OBVIOUS
<1>3. /\ call.op = "RemoteEnable" => RemoteEnable(call.on)
      /\ call.op = "LocalLockout" => LocalLockout(call.on)
      /\ call.op = "GoToLocal" => GoToLocal
  BY <1>2 DEF Do
<1>4. CASE call.op = "RemoteEnable"
  <2>1. (ren' <=> call.on) /\ (lockout' <=> lockout /\ call.on)
        /\ (call.on => remote' = remote) /\ (~call.on => remote' = {})
    BY <1>3, <1>4, Zenon DEF RemoteEnable
  <2> QED BY <1>1, <1>2, <1>4, <2>1, Zenon
<1>5. CASE call.op = "LocalLockout"
  <2>1. (ren' <=> ren) /\ (lockout' <=> call.on /\ ren) /\ remote' = remote
    <3>1. ren' = ren /\ remote' = remote
      BY <1>3, <1>5 DEF LocalLockout
    <3>2. lockout' <=> call.on /\ ren
      BY <1>3, <1>5, Zenon DEF LocalLockout
    <3> QED BY <3>1, <3>2, Zenon
  <2> QED BY <1>1, <1>2, <1>5, <2>1, Zenon
<1>6. CASE call.op = "GoToLocal"
  <2>1. (ren' <=> ren) /\ (lockout' <=> lockout) /\ remote' = remote \ {target}
    <3>1. ren' = ren /\ lockout' = lockout
      BY <1>3, <1>6 DEF GoToLocal
    <3> QED BY <1>3, <1>6, <3>1, Zenon DEF GoToLocal
  <2> QED BY <1>1, <1>2, <1>6, <2>1, Zenon
<1> QED BY <1>4, <1>5, <1>6 DEF Do

(* The bus after a driver call: of the types it had.                       *)
LEMMA DoType ==
  ASSUME NEW call, Do(call), call.on \in BOOLEAN, ren \in BOOLEAN, lockout \in BOOLEAN,
         remote \subseteq Instruments
  PROVE  ren' \in BOOLEAN /\ lockout' \in BOOLEAN /\ remote' \subseteq Instruments
<1>1. CASE RemoteEnable(call.on)
  BY <1>1 DEF RemoteEnable
<1>2. CASE LocalLockout(call.on)
  BY <1>2 DEF LocalLockout
<1>3. CASE GoToLocal
  BY <1>3 DEF GoToLocal
<1> QED BY <1>1, <1>2, <1>3 DEF Do

(* A call that is the only one left is the last.                           *)
LEMMA OnlyOne ==
  ASSUME NEW a
  PROVE  << a >> # <<>> /\ Head(<< a >>) = a /\ Tail(<< a >>) = <<>>
<1>1. << a >> \in Seq({a}) /\ Len(<< a >>) = 1 /\ << a >> # <<>> /\ Head(<< a >>) = a
  OBVIOUS
<1>2. Tail(<< a >>) \in Seq({a}) /\ Len(Tail(<< a >>)) = 0
  BY <1>1, HeadTailProperties
<1> QED BY <1>1, <1>2, EmptySeq

(* What a driver call brings about, when it is the first of RemoteLocal or *)
(* the second: no line leaves what the mode has it, and when there is no   *)
(* call after it every line is as the mode has it.                         *)
LEMMA CallOfMode ==
  ASSUME DeviceTypeOK, Midway, Do(Head(todo))
  PROVE  LET e == Effects(mode) IN
         /\ Tail(todo) # <<>> => /\ Len(Plan(mode)) = 2
                                 /\ Tail(todo) = Tail(Plan(mode))
                                 /\ ren' <=> Plan(mode)[1].on
                                 /\ lockout' <=> before[2] /\ ren'
                                 /\ remote' = IF ren' THEN before[3] ELSE {}
         /\ Tail(todo) = <<>> =>
              /\ Follows(e.RemoteEnable, ren', before[1])
              /\ Follows(e.LocalLockout, lockout', before[2])
              /\ e.Remote = "False" => target \notin remote'
              /\ e.Remote # "False" => remote' = before[3]
         /\ ~(ren' <=> before[1]) => Follows(e.RemoteEnable, ren', before[1])
         /\ ~(lockout' <=> before[2]) => Follows(e.LocalLockout, lockout', before[2])
<1> DEFINE e == Effects(mode)
<1> DEFINE first == todo = Plan(mode) /\ bus = before
<1> DEFINE second == /\ Len(Plan(mode)) = 2 /\ todo = Tail(Plan(mode))
                     /\ ren = Plan(mode)[1].on /\ lockout = (before[2] /\ ren)
                     /\ remote = IF ren THEN before[3] ELSE {}
<1>1. /\ before[1] \in BOOLEAN /\ before[2] \in BOOLEAN
      /\ ren \in BOOLEAN /\ lockout \in BOOLEAN
      /\ ren' \in BOOLEAN /\ lockout' \in BOOLEAN
  <2>1. Plan(mode) \in Seq(DriverCalls) /\ Plan(mode) # <<>>
    BY PlanType DEF Midway
  <2>2. todo \in Seq(DriverCalls) /\ todo # <<>>
    BY <2>1, HeadTailProperties DEF Midway
  <2>3. Head(todo).on \in BOOLEAN
    <3>1. Head(todo) \in DriverCalls
      BY <2>2, HeadTailProperties
    <3> QED BY <3>1 DEF DriverCalls
  <2>4. ren \in BOOLEAN /\ lockout \in BOOLEAN /\ remote \subseteq Instruments
    BY DEF DeviceTypeOK
  <2>5. before[1] \in BOOLEAN /\ before[2] \in BOOLEAN
    BY DEF DeviceTypeOK
  <2> QED BY <2>3, <2>4, <2>5, DoType
<1>2. mode \in Modes /\ (first \/ second)
  BY DEF Midway
<1>3. first => (ren <=> before[1]) /\ (lockout <=> before[2]) /\ remote = before[3]
  BY DEF bus
<1>4. RenOff.on = FALSE /\ RenOn.on = TRUE
  BY DEF RenOn, RenOff
<1>5. LET c == Head(todo) IN
      /\ c = RenOn => ren' /\ (lockout' <=> lockout) /\ remote' = remote
      /\ c = RenOff => ~ren' /\ ~lockout' /\ remote' = {}
      /\ c = LockoutOn => (ren' <=> ren) /\ (lockout' <=> ren) /\ remote' = remote
      /\ c = LockoutOff => (ren' <=> ren) /\ ~lockout' /\ remote' = remote
      /\ c = AddressedLocal => /\ (ren' <=> ren) /\ (lockout' <=> lockout)
                               /\ remote' = remote \ {target}
  BY <1>1, DoParts
<1>6. second => /\ ren <=> Plan(mode)[1].on
                /\ lockout <=> before[2] /\ ren
                /\ remote = IF ren THEN before[3] ELSE {}
  BY <1>1, Zenon
<1>7. CASE /\ e.RemoteEnable = "False" /\ e.LocalLockout = "False" /\ e.Remote = "False"
           /\ Plan(mode) = << RenOff, LockoutOff >>
  <2>1. Len(Plan(mode)) = 2 /\ Plan(mode)[1].on = FALSE /\ Tail(Plan(mode)) = << LockoutOff >>
    BY <1>4, <1>7
  <2>2. CASE first
    <3>1. Head(todo) = RenOff /\ Tail(todo) = << LockoutOff >> /\ Tail(todo) # <<>>
      BY <1>7, <2>2
    <3>2. ~ren' /\ ~lockout' /\ remote' = {}
      BY <1>5, <3>1
    <3> QED BY <1>1, <1>7, <2>1, <3>1, <3>2 DEF Follows
  <2>3. CASE second
    <3>1. Head(todo) = LockoutOff /\ Tail(todo) = <<>>
      BY <2>1, <2>3, OnlyOne
    <3>2. ~ren' /\ ~lockout' /\ remote' = {}
      BY <1>5, <1>6, <2>1, <2>3, <3>1
    <3> QED BY <1>1, <1>7, <2>1, <3>1, <3>2 DEF Follows
  <2> QED BY <1>2, <2>2, <2>3
<1>8. CASE /\ e.RemoteEnable = "True" /\ e.LocalLockout = "NoChange" /\ e.Remote # "False"
           /\ Plan(mode) = << RenOn >>
  <2>1. ~second
    BY <1>8
  <2>2. Head(todo) = RenOn /\ Tail(todo) = <<>>
    BY <1>2, <1>8, <2>1, OnlyOne
  <2>3. ren' /\ (lockout' <=> before[2]) /\ remote' = before[3]
    BY <1>2, <1>3, <1>5, <2>1, <2>2
  <2> QED BY <1>1, <1>8, <2>2, <2>3 DEF Follows
<1>9. CASE /\ e.RemoteEnable = "True" /\ e.LocalLockout = "True" /\ e.Remote # "False"
           /\ Plan(mode) = << RenOn, LockoutOn >>
  <2>1. Len(Plan(mode)) = 2 /\ Plan(mode)[1].on = TRUE /\ Tail(Plan(mode)) = << LockoutOn >>
    BY <1>4, <1>9
  <2>2. CASE first
    <3>1. Head(todo) = RenOn /\ Tail(todo) = << LockoutOn >> /\ Tail(todo) # <<>>
      BY <1>9, <2>2
    <3>2. ren' /\ (lockout' <=> before[2]) /\ remote' = before[3]
      BY <1>3, <1>5, <2>2, <3>1
    <3> QED BY <1>1, <1>9, <2>1, <3>1, <3>2 DEF Follows
  <2>3. CASE second
    <3>1. Head(todo) = LockoutOn /\ Tail(todo) = <<>>
      BY <2>1, <2>3, OnlyOne
    <3>2. ren' /\ lockout' /\ remote' = before[3]
      BY <1>5, <1>6, <2>1, <2>3, <3>1
    <3> QED BY <1>1, <1>9, <2>1, <3>1, <3>2 DEF Follows
  <2> QED BY <1>2, <2>2, <2>3
<1>10. CASE /\ e.RemoteEnable = "NoChange" /\ e.LocalLockout = "NoChange" /\ e.Remote = "False"
            /\ Plan(mode) = << AddressedLocal >>
  <2>1. ~second
    BY <1>10
  <2>2. Head(todo) = AddressedLocal /\ Tail(todo) = <<>>
    BY <1>2, <1>10, <2>1, OnlyOne
  <2>3. (ren' <=> before[1]) /\ (lockout' <=> before[2]) /\ target \notin remote'
    BY <1>2, <1>3, <1>5, <2>1, <2>2
  <2> QED BY <1>1, <1>10, <2>2, <2>3 DEF Follows
<1> HIDE DEF first, second, e
<1> QED BY <1>2, <1>7, <1>8, <1>9, <1>10, PlanCases DEF e

-----------------------------------------------------------------------------
(* The invariant holds initially.                                          *)
LEMMA InitInv == DeviceInit => RemoteLocalInv
<1> SUFFICES ASSUME DeviceInit PROVE RemoteLocalInv
  OBVIOUS
<1>1. DeviceTypeOK
  BY EmptySeq DEF DeviceInit, DeviceTypeOK, bus, DriverCalls
<1> QED BY <1>1 DEF DeviceInit, RemoteLocalInv, ModeTakesEffect, Returned, FailureStaysWithinMode

(* A command that addresses an instrument happens between two calls of     *)
(* RemoteLocal: the instrument of the one before is in remote after it, or *)
(* it is another one.                                                      *)
LEMMA ListensStep ==
  ASSUME RemoteLocalInv, NEW i \in Instruments, Listens(i)
  PROVE  RemoteLocalInv'
<1> DEFINE e == Effects(mode)
<1>1. /\ UNCHANGED <<caps, ren, lockout, target, mode, todo, result, before>>
      /\ addressed' = (addressed \/ i = target)
      /\ remote' = IF ren THEN remote \cup {i} ELSE remote
      /\ result # "none"
  BY DEF Listens
<1>2. DeviceTypeOK'
  <2>1. remote' \subseteq Instruments
    BY <1>1 DEF RemoteLocalInv, DeviceTypeOK
  <2>2. addressed' \in BOOLEAN
    BY <1>1 DEF RemoteLocalInv, DeviceTypeOK
  <2> QED BY <1>1, <2>1, <2>2 DEF RemoteLocalInv, DeviceTypeOK
<1>3. ModeTakesEffect'
  <2> SUFFICES ASSUME Returned
               PROVE  /\ Follows(e.RemoteEnable, ren, before[1])
                      /\ Follows(e.LocalLockout, lockout, before[2])
                      /\ e.Remote = "True" =>
                           (target \in remote' <=> addressed' \/ target \in before[3])
                      /\ e.Remote # "True" /\ ~addressed' =>
                           Follows(e.Remote, target \in remote', target \in before[3])
    BY <1>1 DEF ModeTakesEffect, Returned
  <2>1. /\ Follows(e.RemoteEnable, ren, before[1])
        /\ Follows(e.LocalLockout, lockout, before[2])
        /\ e.Remote = "True" => (target \in remote <=> addressed \/ target \in before[3])
        /\ e.Remote # "True" /\ ~addressed =>
             Follows(e.Remote, target \in remote, target \in before[3])
    BY DEF RemoteLocalInv, ModeTakesEffect
  <2>2. e.Remote = "True" => ren
    <3>1. mode \in Modes
      BY DEF Returned, RemoteLocalInv, DeviceTypeOK
    <3>2. e.Remote = "True" => e.RemoteEnable = "True"
      BY <3>1, PlanCases
    <3> QED BY <2>1, <3>2 DEF Follows
  <2>3. CASE i = target
    <3>1. addressed'
      BY <1>1, <2>3
    <3>2. ren => target \in remote'
      BY <1>1, <2>3
    <3> QED BY <2>1, <2>2, <3>1, <3>2
  <2>4. CASE i # target
    <3>1. addressed' <=> addressed
      BY <1>1, <2>4
    <3>2. (target \in remote') = (target \in remote)
      BY <1>1, <2>4
    <3> HIDE DEF e
    <3> QED BY ONLY <2>1, <3>1, <3>2, Zenon
  <2> QED BY <2>3, <2>4
<1>4. FailureStaysWithinMode'
  BY <1>1 DEF RemoteLocalInv, FailureStaysWithinMode
<1> QED BY <1>1, <1>2, <1>3, <1>4 DEF RemoteLocalInv

(* RemoteLocal starts with all calls of the mode before it.                *)
LEMMA RemoteLocalStep ==
  ASSUME RemoteLocalInv, NEW i \in Instruments, NEW m \in Modes \cup {Invalid}, RemoteLocal(i, m)
  PROVE  RemoteLocalInv'
<1>1. /\ Plan(m) \in Seq(DriverCalls)
      /\ m \in Modes => Plan(m) # <<>>
      /\ m = Invalid => Plan(m) = <<>>
  BY PlanType
<1>2. /\ ren' = ren /\ lockout' = lockout /\ remote' = remote /\ caps' = caps
      /\ target' = i /\ mode' = m /\ todo' = Plan(m)
      /\ before' = <<ren, lockout, remote>> /\ addressed' = FALSE
      /\ result' = IF Plan(m) = <<>> THEN "ok" ELSE "none"
  BY DEF RemoteLocal, bus
<1>3. DeviceTypeOK'
  <2>1. before' \in BOOLEAN \X BOOLEAN \X SUBSET Instruments
    BY <1>2 DEF RemoteLocalInv, DeviceTypeOK
  <2>2. (result = "none" <=> todo # <<>>)' /\ (result \in {"none", "ok", "error"})'
    BY <1>2
  <2> QED BY <1>1, <1>2, <2>1, <2>2 DEF RemoteLocalInv, DeviceTypeOK, DriverCalls
<1>4. result' = "none" => Midway'
  <2> SUFFICES ASSUME result' = "none" PROVE Midway'
    OBVIOUS
  <2>1. m \in Modes
    BY <1>1, <1>2
  <2>2. todo' = Plan(mode') /\ bus' = before'
    BY <1>2 DEF bus
  <2> QED BY <1>2, <2>1, <2>2 DEF Midway
<1>5. ~Returned'
  <2> SUFFICES ASSUME result' = "ok" PROVE mode' = Invalid
    BY DEF Returned
  <2> QED BY <1>1, <1>2
<1>6. result' # "error"
  BY <1>2
<1> QED BY <1>3, <1>4, <1>5, <1>6 DEF RemoteLocalInv, ModeTakesEffect, FailureStaysWithinMode

(* The state of the calls and of the bus after one driver call.            *)
LEMMA CallType ==
  ASSUME RemoteLocalInv, result = "none", UNCHANGED bus \/ Do(Head(todo))
  PROVE  /\ ren' \in BOOLEAN /\ lockout' \in BOOLEAN /\ remote' \subseteq Instruments
         /\ Tail(todo) \in Seq(DriverCalls)
<1>1. todo \in Seq(DriverCalls) /\ todo # <<>>
  BY DEF RemoteLocalInv, DeviceTypeOK, DriverCalls
<1>2. Head(todo) \in DriverCalls /\ Tail(todo) \in Seq(DriverCalls)
  BY <1>1, HeadTailProperties
<1>3. Head(todo).on \in BOOLEAN
  BY <1>2 DEF DriverCalls
<1>4. ren \in BOOLEAN /\ lockout \in BOOLEAN /\ remote \subseteq Instruments
  BY DEF RemoteLocalInv, DeviceTypeOK
<1>5. CASE UNCHANGED bus
  BY <1>2, <1>4, <1>5 DEF bus
<1>6. CASE Do(Head(todo))
  BY <1>2, <1>3, <1>4, <1>6, DoType
<1> QED BY <1>5, <1>6

(* Between two driver calls no line leaves what the mode has it either.    *)
LEMMA BetweenCalls ==
  ASSUME DeviceTypeOK, Midway
  PROVE  LET e == Effects(mode) IN
         /\ ~(ren <=> before[1]) => Follows(e.RemoteEnable, ren, before[1])
         /\ ~(lockout <=> before[2]) => Follows(e.LocalLockout, lockout, before[2])
<1> DEFINE e == Effects(mode)
<1>1. /\ before[1] \in BOOLEAN /\ before[2] \in BOOLEAN
      /\ ren \in BOOLEAN /\ lockout \in BOOLEAN
  BY DEF DeviceTypeOK
<1>2. CASE todo = Plan(mode) /\ bus = before
  BY <1>2 DEF bus
<1>3. CASE /\ Len(Plan(mode)) = 2
           /\ ren = Plan(mode)[1].on
           /\ lockout = (before[2] /\ ren)
  <2>1. \/ /\ e.RemoteEnable = "False" /\ e.LocalLockout = "False"
           /\ Plan(mode) = << RenOff, LockoutOff >>
        \/ /\ e.RemoteEnable = "True" /\ e.LocalLockout = "True"
           /\ Plan(mode) = << RenOn, LockoutOn >>
    <3>1. Len(<< RenOn >>) # 2 /\ Len(<< AddressedLocal >>) # 2
      OBVIOUS
    <3> QED BY <1>3, <3>1, PlanCases DEF Midway
  <2>2. RenOff.on = FALSE /\ RenOn.on = TRUE
    BY DEF RenOn, RenOff
  <2>3. /\ Plan(mode) = << RenOff, LockoutOff >> => ~ren
        /\ Plan(mode) = << RenOn, LockoutOn >> => ren
    BY <1>3, <2>2
  <2>4. lockout <=> before[2] /\ ren
    BY <1>1, <1>3, Zenon
  <2> QED BY <1>1, <2>1, <2>3, <2>4 DEF Follows
<1> QED BY <1>2, <1>3 DEF Midway

(* RemoteLocal goes on to the next call, or returns what Table 25 says.    *)
LEMMA SucceedsStep ==
  ASSUME RemoteLocalInv, Succeeds
  PROVE  RemoteLocalInv'
<1> DEFINE e == Effects(mode)
<1>1. /\ DeviceTypeOK /\ Midway /\ Do(Head(todo))
      /\ todo' = Tail(todo)
      /\ result' = IF Tail(todo) = <<>> THEN "ok" ELSE "none"
      /\ caps' = caps /\ target' = target /\ mode' = mode /\ before' = before
      /\ addressed' = addressed
  BY DEF Succeeds, RemoteLocalInv
<1>2. /\ ren' \in BOOLEAN /\ lockout' \in BOOLEAN /\ remote' \subseteq Instruments
      /\ Tail(todo) \in Seq(DriverCalls)
  BY CallType DEF Succeeds
<1>3. DeviceTypeOK'
  BY <1>1, <1>2 DEF DeviceTypeOK, DriverCalls
<1>4. result' = "none" => Midway'
  <2> SUFFICES ASSUME Tail(todo) # <<>> PROVE Midway'
    BY <1>1
  <2>1. /\ Len(Plan(mode)) = 2
        /\ Tail(todo) = Tail(Plan(mode))
        /\ ren' <=> Plan(mode)[1].on
        /\ lockout' <=> before[2] /\ ren'
        /\ remote' = IF ren' THEN before[3] ELSE {}
    BY <1>1, CallOfMode
  <2>2. Plan(mode)[1].on \in BOOLEAN /\ before[2] \in BOOLEAN
    <3>1. Plan(mode) \in Seq(DriverCalls)
      BY <1>1, PlanType DEF Midway
    <3>2. Plan(mode)[1] \in DriverCalls
      BY <2>1, <3>1, ElementOfSeq
    <3> QED BY <1>1, <3>2 DEF DriverCalls, DeviceTypeOK
  <2>3. ren' = Plan(mode)[1].on /\ lockout' = (before[2] /\ ren')
    BY <1>2, <2>1, <2>2
  <2> QED BY <1>1, <2>1, <2>3 DEF Midway
<1>5. ModeTakesEffect'
  <2> SUFFICES ASSUME Tail(todo) = <<>>
               PROVE  /\ Follows(e.RemoteEnable, ren', before[1])
                      /\ Follows(e.LocalLockout, lockout', before[2])
                      /\ e.Remote = "True" => (target \in remote' <=> target \in before[3])
                      /\ e.Remote # "True" =>
                           Follows(e.Remote, target \in remote', target \in before[3])
    <3>1. ~addressed'
      BY <1>1 DEF Midway
    <3> QED BY <1>1, <3>1 DEF ModeTakesEffect, Returned
  <2>1. /\ Follows(e.RemoteEnable, ren', before[1])
        /\ Follows(e.LocalLockout, lockout', before[2])
        /\ e.Remote = "False" => target \notin remote'
        /\ e.Remote # "False" => remote' = before[3]
    BY <1>1, CallOfMode
  <2> QED BY <2>1 DEF Follows
<1>6. result' # "error"
  BY <1>1
<1> QED BY <1>3, <1>4, <1>5, <1>6 DEF RemoteLocalInv, FailureStaysWithinMode

(* RemoteLocal returns the error of the call that failed.                  *)
LEMMA FailsStep ==
  ASSUME RemoteLocalInv, Fails
  PROVE  RemoteLocalInv'
<1> DEFINE e == Effects(mode)
<1>1. /\ DeviceTypeOK /\ Midway
      /\ Do(Head(todo)) \/ UNCHANGED bus
      /\ todo' = <<>> /\ result' = "error"
      /\ caps' = caps /\ target' = target /\ mode' = mode /\ before' = before
      /\ addressed' = addressed
  BY DEF Fails, RemoteLocalInv
<1>2. ren' \in BOOLEAN /\ lockout' \in BOOLEAN /\ remote' \subseteq Instruments
  BY <1>1, CallType DEF Fails
<1>3. DeviceTypeOK'
  BY <1>1, <1>2, EmptySeq DEF DeviceTypeOK
<1>4. /\ ~(ren' <=> before[1]) => Follows(e.RemoteEnable, ren', before[1])
      /\ ~(lockout' <=> before[2]) => Follows(e.LocalLockout, lockout', before[2])
  <2>1. CASE Do(Head(todo))
    BY <1>1, <2>1, CallOfMode
  <2>2. CASE UNCHANGED bus
    <3>1. ren' = ren /\ lockout' = lockout
      BY <2>2 DEF bus
    <3> QED BY <1>1, <3>1, BetweenCalls
  <2> QED BY <1>1, <2>1, <2>2
<1>5. FailureStaysWithinMode'
  <2>1. before[1] \in BOOLEAN /\ before[2] \in BOOLEAN
    BY <1>1 DEF DeviceTypeOK
  <2> QED BY <1>1, <1>2, <1>4, <2>1 DEF FailureStaysWithinMode
<1>6. ~Returned' /\ mode' \in Modes
  BY <1>1 DEF Returned, Midway
<1> QED BY <1>1, <1>3, <1>5, <1>6 DEF RemoteLocalInv, ModeTakesEffect

(* Where nothing changes, the invariant stays.                             *)
LEMMA StutterStep ==
  ASSUME RemoteLocalInv, UNCHANGED deviceVars
  PROVE  RemoteLocalInv'
BY DEF deviceVars, bus, callVars, RemoteLocalInv, DeviceTypeOK, Midway, ModeTakesEffect, Returned,
       FailureStaysWithinMode

(* RemoteLocal leaves REN and lockout as Table 25 says of the mode, and an *)
(* instrument that goes local; one that goes remote does so with the next  *)
(* command it listens to, and not before.  Where a driver call fails it    *)
(* has changed only lines that the mode speaks of, to the values it gives  *)
(* them.  This is so for any number of instruments, and whatever calls     *)
(* failed before.  The types are part of it.                               *)
THEOREM RemoteLocalEffects ==
  DeviceSpec => [](DeviceTypeOK /\ ModeTakesEffect /\ FailureStaysWithinMode)
<1>1. RemoteLocalInv /\ [DeviceNext]_deviceVars => RemoteLocalInv'
  <2> SUFFICES ASSUME RemoteLocalInv, [DeviceNext]_deviceVars PROVE RemoteLocalInv'
    OBVIOUS
  <2> QED BY ListensStep, RemoteLocalStep, SucceedsStep, FailsStep, StutterStep DEF DeviceNext
<1>2. RemoteLocalInv => DeviceTypeOK /\ ModeTakesEffect /\ FailureStaysWithinMode
  BY DEF RemoteLocalInv
<1> QED BY InitInv, <1>1, <1>2, PTL DEF DeviceSpec

================================================================================
