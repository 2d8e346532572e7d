----------------------------- MODULE RxRingProofs -----------------------------
(***************************************************************************)
(* Proofs about RxRing and its history, for every ring size, counter       *)
(* width, copy length and set of packets: with a paced host the ring is a  *)
(* queue, and with any host it is one again from the next time it is empty *)
(* until the handler next runs into the loop.                              *)
(***************************************************************************)
EXTENDS RxRingHistory, CounterArithmetic, SequenceTheorems, TLAPS

USE RingAssumption DEF Slots

-----------------------------------------------------------------------------
(* The counters.                                                           *)

(* The slot of a counter is a slot.                                        *)
LEMMA SlotType ==
  ASSUME NEW c \in Int
  PROVE  Slot(c) \in Slots
BY DivMod DEF Slot

(* Slots survive the wrap of a counter.                                    *)
LEMMA SlotWraps ==
  ASSUME NEW c \in Int
  PROVE  Slot(c + CounterMod) = Slot(c)
<1>1. CounterMod \in Int /\ CounterMod % RingSize = 0
  OBVIOUS
<1> QED BY <1>1, ModShift DEF Slot

(* Over one lap they are distinct.                                         *)
LEMMA SlotApart ==
  ASSUME NEW c \in Int, NEW j \in 1 .. RingSize - 1
  PROVE  Slot(c + j) # Slot(c)
BY ModApart DEF Slot

(* The next value of a counter, case by case.                              *)
LEMMA SuccCases ==
  ASSUME NEW c \in 0 .. CounterMod - 1
  PROVE  /\ Succ(c) = IF c + 1 = CounterMod THEN 0 ELSE c + 1
         /\ Succ(c) \in 0 .. CounterMod - 1
<1>1. CounterMod \in Nat /\ CounterMod > 1
  OBVIOUS
<1> QED BY <1>1, NextCount DEF Succ

(* Whether the successor wrapped does not show in the slots after it.      *)
LEMMA SlotSucc ==
  ASSUME NEW c \in 0 .. CounterMod - 1, NEW j \in Int
  PROVE  Slot(Succ(c) + j) = Slot(c + 1 + j)
<1>1. CounterMod \in Nat /\ CounterMod > 1 /\ CounterMod % RingSize = 0
  OBVIOUS
<1> QED BY <1>1, CountSlot DEF Slot, Succ

(* The distance of two counters, and what moving either does to it.        *)
LEMMA Distance ==
  ASSUME NEW h \in 0 .. CounterMod - 1, NEW t \in 0 .. CounterMod - 1
  PROVE  /\ (h - t) % CounterMod = IF h >= t THEN h - t ELSE h - t + CounterMod
         /\ (h - t) % CounterMod \in 0 .. CounterMod - 1
<1>1. CounterMod \in Nat /\ CounterMod > 1
  OBVIOUS
<1> QED BY <1>1, CountDistance

(* The head advances: the distance grows by one, short of a full turn.     *)
LEMMA DistanceHead ==
  ASSUME NEW h \in 0 .. CounterMod - 1, NEW t \in 0 .. CounterMod - 1,
         (h - t) % CounterMod < CounterMod - 1
  PROVE  (Succ(h) - t) % CounterMod = ((h - t) % CounterMod) + 1
<1>1. CounterMod \in Nat /\ CounterMod > 1
  OBVIOUS
<1> QED BY <1>1, CountHead DEF Succ

(* The tail advances: the distance shrinks by one.                         *)
LEMMA DistanceTail ==
  ASSUME NEW h \in 0 .. CounterMod - 1, NEW t \in 0 .. CounterMod - 1, t # h
  PROVE  (h - Succ(t)) % CounterMod = ((h - t) % CounterMod) - 1
<1>1. CounterMod \in Nat /\ CounterMod > 1
  OBVIOUS
<1> QED BY <1>1, CountTail DEF Succ

(* Slots that are equal stay equal as many steps on.                       *)
LEMMA SlotCongruent ==
  ASSUME NEW c \in Int, NEW e \in Int, NEW j \in Int, Slot(c) = Slot(e)
  PROVE  Slot(c + j) = Slot(e + j)
BY ModCongruent DEF Slot

(* A slot is the slot of its own number.                                   *)
LEMMA SlotOfSlot ==
  ASSUME NEW s \in Slots
  PROVE  Slot(s) = s
<1>1. (RingSize * 0 + s) % RingSize = s
  BY ModUnique
<1> QED BY <1>1 DEF Slot

(* The occupancy is a number below the counters' width.                    *)
LEMMA OccupancyType ==
  ASSUME TypeOK
  PROVE  /\ Occupancy \in 0 .. CounterMod - 1
         /\ Occupancy = 0 <=> rxTail = rxHead
         /\ Slot(rxTail + Occupancy) = Slot(rxHead)
<1>1. rxHead \in 0 .. CounterMod - 1 /\ rxTail \in 0 .. CounterMod - 1
  BY DEF TypeOK
<1>2. /\ Occupancy = IF rxHead >= rxTail THEN rxHead - rxTail
                     ELSE rxHead - rxTail + CounterMod
      /\ Occupancy \in 0 .. CounterMod - 1
  BY <1>1, Distance DEF Occupancy
<1>3. Slot(rxHead + CounterMod) = Slot(rxHead)
  BY <1>1, SlotWraps
<1> QED BY <1>1, <1>2, <1>3

-----------------------------------------------------------------------------
(* Type correctness: the counters stay in their width and the slots hold   *)
(* packets only, however fast the host sends.                              *)
LEMMA TypeStep ==
  ASSUME TypeOK, [Next \/ PacedNext]_vars
  PROVE  TypeOK'
<1> USE DEF TypeOK
<1>1. ASSUME NEW p \in Packets, RxHandler(p)
      PROVE  TypeOK'
  <2>1. rxHead' \in 0 .. CounterMod - 1
    BY <1>1, SuccCases DEF RxHandler
  <2>2. rxRing' \in [Slots -> [1..Words -> Packets \cup {NoPacket}]]
    BY <1>1 DEF RxHandler, Whole
  <2>3. rxOverflows' \in Nat
    BY <1>1 DEF RxHandler
  <2> QED BY <1>1, <2>1, <2>2, <2>3 DEF RxHandler
<1>2. CASE TakeSlot
  BY <1>2, SuccCases, SlotType DEF TakeSlot
<1>3. CASE CopyWord
  <2>1. rxRing[idx][Len(copied) + 1] \in Packets \cup {NoPacket}
    BY <1>3 DEF CopyWord
  <2>2. /\ copied' \in Seq(Packets \cup {NoPacket})
        /\ Len(copied') = Len(copied) + 1
    BY <1>3, <2>1, AppendProperties DEF CopyWord
  <2> QED BY <1>3, <2>2 DEF CopyWord
<1>4. CASE Processed
  BY <1>4 DEF Processed
<1>5. CASE EndDrain
  BY <1>5 DEF EndDrain
<1>6. CASE NextTick
  BY <1>6 DEF NextTick
<1>7. CASE ClearStats
  BY <1>7 DEF ClearStats
<1>8. CASE UNCHANGED vars
  BY <1>8 DEF vars
<1> QED
  BY <1>1, <1>2, <1>3, <1>4, <1>5, <1>6, <1>7, <1>8
  DEF Next, PacedNext, Burst, Paced, Main

(* The ring's types are kept whatever the host sends (usbtmcRxHandler and  *)
(* the drain loop of main).                                                *)
THEOREM TypeCorrect == Spec => []TypeOK
<1>1. Boot => TypeOK
  BY SMT DEF Boot, TypeOK, Whole
<1>2. TypeOK /\ [Next]_vars => TypeOK'
  BY TypeStep
<1> QED BY <1>1, <1>2, PTL DEF Spec

(* ... and also when the run starts from any ring that main has emptied.   *)
THEOREM PacedTypeCorrect == PacedSpec => []TypeOK
<1>1. CaughtUp => TypeOK
  BY SMT DEF CaughtUp, TypeOK, Whole
<1>2. TypeOK /\ [PacedNext]_vars => TypeOK'
  BY TypeStep
<1> QED BY <1>1, <1>2, PTL DEF PacedSpec

-----------------------------------------------------------------------------
(* The queue.  Under a paced host the invariant behind RingIsAQueue.       *)
(* While main copies, the handler writes elsewhere: the slots in use are   *)
(* at most a lap.                                                          *)
LEMMA HandlerAvoidsCopy ==
  ASSUME TypeOK, PacedInv, Room, pc = "copy"
  PROVE  Slot(rxHead) # idx
<1>1. /\ Occupancy \in 0 .. RingSize - 2
      /\ Slot(rxTail + Occupancy) = Slot(rxHead)
  BY OccupancyType DEF Room, InCopy
<1>2. Slot(idx + 1) = Slot(rxTail) /\ rxTail \in Int /\ idx \in Slots
  BY DEF PacedInv, TypeOK
<1>3. Slot((idx + 1) + Occupancy) = Slot(rxTail + Occupancy)
  <2>1. idx + 1 \in Int /\ rxTail \in Int /\ Occupancy \in Int
    BY <1>1, <1>2
  <2> QED BY <2>1, <1>2, SlotCongruent
<1>4. Slot(idx + (1 + Occupancy)) # Slot(idx)
  <2> DEFINE j == 1 + Occupancy
  <2>1. idx \in Int /\ j \in 1 .. RingSize - 1
    BY <1>1, <1>2
  <2> HIDE DEF j
  <2>2. Slot(idx + j) # Slot(idx)
    BY <2>1, SlotApart
  <2> QED BY <2>2 DEF j
<1>5. Slot(idx) = idx
  BY <1>2, SlotOfSlot
<1> QED BY <1>1, <1>2, <1>3, <1>4, <1>5

(* Every word main copies is of the packet it began with, so the finished  *)
(* copy is that packet.                                                    *)
LEMMA CopyKeepsWord ==
  ASSUME TypeOK, PacedInv, CopyWord
  PROVE  /\ copied' \in Seq(Packets \cup {NoPacket})
         /\ Len(copied') = Len(copied) + 1
         /\ \A w \in 1 .. Len(copied') : copied'[w] = rxRing[idx][1]
<1> USE DEF CopyWord
<1>1. /\ copied \in Seq(Packets \cup {NoPacket})
      /\ Len(copied) \in 0 .. Words - 1
      /\ rxRing[idx] = Whole(rxRing[idx][1])
      /\ rxRing[idx] \in [1..Words -> Packets \cup {NoPacket}]
  BY DEF TypeOK, PacedInv
<1>2. rxRing[idx][Len(copied) + 1] = rxRing[idx][1]
  BY <1>1 DEF Whole
<1>3. copied' = Append(copied, rxRing[idx][1]) /\ rxRing[idx][1] \in Packets \cup {NoPacket}
  BY <1>1, <1>2
<1>4. \A w \in 1 .. Len(copied) : copied[w] = rxRing[idx][1]
  BY DEF PacedInv
<1> HIDE DEF CopyWord
<1> QED BY <1>1, <1>3, <1>4, AppendProperties

(* Main's copy of a slot nobody wrote to meanwhile is a packet.            *)
LEMMA CopyIsWhole ==
  ASSUME TypeOK, PacedInv, CopyWord, pc' = "process"
  PROVE  copied' = Whole(rxRing[idx][1]) /\ copied' = Whole(copied'[1])
<1>1. Len(copied') = Words
  BY CopyKeepsWord DEF CopyWord
<1>2. copied' = [w \in 1 .. Words |-> copied'[w]]
  BY <1>1, CopyKeepsWord
<1> QED BY <1>1, <1>2, CopyKeepsWord DEF Whole

(* One case for each action of the paced host and of main's loop.          *)
LEMMA PacedStep ==
  ASSUME TypeOK, TypeOK', PacedInv, [PacedNext]_vars
  PROVE  PacedInv'
<1>0. /\ rxHead \in 0 .. CounterMod - 1 /\ rxTail \in 0 .. CounterMod - 1
      /\ idx \in Slots
      /\ Occupancy \in 0 .. CounterMod - 1
  BY OccupancyType DEF TypeOK
<1>1. ASSUME NEW p \in Packets, Paced(p)
      PROVE  PacedInv'
  <2> USE <1>1 DEF Paced, RxHandler
  <2>1. Occupancy' = Occupancy + 1
    BY <1>0, DistanceHead DEF Room, InCopy, Occupancy
  <2>2. Occupancy' + InCopy' <= RingSize
    BY <2>1, <1>0 DEF Room, InCopy
  <2>3. ASSUME NEW s \in Slots
        PROVE  rxRing'[s] = Whole(rxRing'[s][1])
    <3>1. CASE s = Slot(rxHead)
      BY <3>1 DEF TypeOK, Whole
    <3>2. CASE s # Slot(rxHead)
      BY <3>2 DEF PacedInv, TypeOK
    <3> QED BY <3>1, <3>2
  <2>4. ASSUME pc = "copy"
        PROVE  rxRing'[idx] = rxRing[idx]
    BY <2>4, HandlerAvoidsCopy, <1>0 DEF TypeOK
  <2> QED BY <2>2, <2>3, <2>4 DEF PacedInv
<1>2. CASE TakeSlot
  <2> USE <1>2 DEF TakeSlot
  <2>1. Occupancy' = Occupancy - 1
    BY <1>0, DistanceTail DEF Occupancy
  <2>2. Occupancy' + InCopy' <= RingSize
    BY <2>1, <1>0 DEF PacedInv, InCopy
  <2>3. Slot(idx' + 1) = Slot(rxTail')
    <3>1. Slot(Slot(rxTail) + 1) = Slot(rxTail + 1)
      <4>1. Slot(rxTail) \in Slots
        BY <1>0, SlotType
      <4>2. Slot(Slot(rxTail)) = Slot(rxTail)
        BY <4>1, SlotOfSlot
      <4> QED BY <4>1, <4>2, <1>0, SlotCongruent
    <3>2. Slot(Succ(rxTail) + 0) = Slot(rxTail + 1 + 0)
      BY <1>0, SlotSucc
    <3> QED BY <3>1, <3>2, <1>0, SuccCases
  <2>4. Len(copied') = 0
    BY DEF TypeOK
  <2> QED BY <2>2, <2>3, <2>4 DEF PacedInv
<1>3. CASE CopyWord
  <2> USE <1>3 DEF CopyWord
  <2>1. Occupancy' + InCopy' <= RingSize
    BY <1>0 DEF PacedInv, InCopy, Occupancy
  <2>2. \A w \in 1 .. Len(copied') : copied'[w] = rxRing[idx][1]
    BY CopyKeepsWord
  <2>3. pc' = "process" => copied' = Whole(copied'[1])
    BY CopyIsWhole
  <2> QED BY <2>1, <2>2, <2>3 DEF PacedInv
<1>4. CASE Processed \/ EndDrain \/ NextTick \/ ClearStats \/ UNCHANGED vars
  BY <1>4, <1>0 DEF Processed, EndDrain, NextTick, ClearStats, vars, PacedInv, InCopy, Occupancy
<1> QED BY <1>1, <1>2, <1>3, <1>4 DEF PacedNext, Main

(* The slot that main copies is not written to before the copy is          *)
(* complete, as long as the host leaves the slots in use alone.            *)
THEOREM PacedInvariant == PacedSpec => []PacedInv
<1>1. CaughtUp => TypeOK /\ PacedInv
  <2> SUFFICES ASSUME CaughtUp
               PROVE  TypeOK /\ PacedInv
    OBVIOUS
  <2>1. TypeOK
    BY SMT DEF CaughtUp, TypeOK, Whole
  <2>2. Occupancy = 0
    BY <2>1, OccupancyType DEF CaughtUp
  <2> QED BY <2>1, <2>2 DEF CaughtUp, PacedInv, InCopy, Whole
<1>2. TypeOK /\ PacedInv /\ [PacedNext]_vars => TypeOK' /\ PacedInv'
  BY TypeStep, PacedStep
<1> QED BY <1>1, <1>2, PTL DEF PacedSpec

-----------------------------------------------------------------------------
(* Each step of the ring under a paced host is a step of the queue, or     *)
(* leaves the queue as it is.                                              *)
LEMMA PutStep ==
  ASSUME TypeOK, TypeOK', PacedInv, NEW p \in Packets, Paced(p)
  PROVE  Queue!Put(p)
<1>0. /\ rxHead \in 0 .. CounterMod - 1 /\ rxTail \in 0 .. CounterMod - 1
      /\ Occupancy \in 0 .. RingSize - 1
      /\ Slot(rxTail + Occupancy) = Slot(rxHead)
  <2>1. /\ rxHead \in 0 .. CounterMod - 1 /\ rxTail \in 0 .. CounterMod - 1
        /\ Occupancy < RingSize
    <3>1. Occupancy \in Nat /\ InCopy \in 0 .. 1 /\ Occupancy + InCopy < RingSize
      BY OccupancyType DEF Paced, Room, InCopy
    <3> QED BY <3>1 DEF TypeOK
  <2> QED BY <2>1, OccupancyType
<1> USE DEF Paced, RxHandler
<1>1. Occupancy' = Occupancy + 1
  BY <1>0, DistanceHead DEF Occupancy
<1>2. ASSUME NEW k \in 1 .. Occupancy
      PROVE  rxRing'[Slot(rxTail + k - 1)][1] = rxRing[Slot(rxTail + k - 1)][1]
  <2> DEFINE c == rxTail + k - 1
             j == Occupancy - (k - 1)
  <2>1. c \in Int /\ j \in 1 .. RingSize - 1 /\ c + j = rxTail + Occupancy
    BY <1>0
  <2> HIDE DEF c, j
  <2>2. Slot(c + j) # Slot(c) /\ Slot(c) \in Slots
    BY <2>1, SlotApart, SlotType
  <2>3. rxRing'[Slot(c)] = rxRing[Slot(c)]
    BY <2>1, <2>2, <1>0 DEF TypeOK
  <2> QED BY <2>3 DEF c
<1>3. rxRing'[Slot(rxTail + Occupancy)][1] = p
  BY <1>0, SlotType DEF TypeOK, Whole
<1>4. Waiting' = Append(Waiting, p)
  <2>1. Waiting' = [k \in 1 .. Occupancy + 1 |-> rxRing'[Slot(rxTail + k - 1)][1]]
    BY <1>1 DEF Waiting
  <2>2. Append(Waiting, p) = [k \in 1 .. Occupancy + 1 |-> IF k = Occupancy + 1 THEN p ELSE Waiting[k]]
    BY <1>0 DEF Waiting
  <2>3. ASSUME NEW k \in 1 .. Occupancy + 1
        PROVE  rxRing'[Slot(rxTail + k - 1)][1]
                 = IF k = Occupancy + 1 THEN p ELSE Waiting[k]
    <3>1. CASE k = Occupancy + 1
      <4>1. rxTail + k - 1 = rxTail + Occupancy
        BY <3>1, <1>0
      <4> QED BY <3>1, <4>1, <1>3
    <3>2. CASE k # Occupancy + 1
      <4>1. k \in 1 .. Occupancy
        BY <3>2, <1>0
      <4> QED BY <3>2, <4>1, <1>2 DEF Waiting
    <3> QED BY <3>1, <3>2
  <2> QED BY <2>1, <2>2, <2>3
<1>5. Taken' = Taken
  <2>1. CASE pc = "copy"
    BY <2>1, HandlerAvoidsCopy, <1>0 DEF TypeOK, Taken
  <2>2. CASE pc # "copy"
    BY <2>2 DEF Taken
  <2> QED BY <2>1, <2>2
<1>6. Handed' = Handed
  BY DEF Handed
<1> QED BY <1>4, <1>5, <1>6 DEF Queue!Put

(* Main takes a slot: the queue hands out its oldest packet.               *)
LEMMA GetStep ==
  ASSUME TypeOK, TypeOK', PacedInv, TakeSlot
  PROVE  Queue!Get
<1>0. /\ rxHead \in 0 .. CounterMod - 1 /\ rxTail \in 0 .. CounterMod - 1
      /\ Occupancy \in 1 .. CounterMod - 1
  BY OccupancyType DEF TypeOK, TakeSlot
<1> USE DEF TakeSlot
<1>1. Occupancy' = Occupancy - 1
  BY <1>0, DistanceTail DEF Occupancy
<1>2. Taken' = <<Head(Waiting)>> /\ Waiting # <<>>
  <2>1. rxTail + 1 - 1 = rxTail /\ 1 \in 1 .. Occupancy
    BY <1>0
  <2>2. Waiting[1] = rxRing[Slot(rxTail)][1] /\ DOMAIN Waiting = 1 .. Occupancy
    BY <2>1 DEF Waiting
  <2>3. Waiting # <<>>
    <3>1. Len(Waiting) = Occupancy
      BY <1>0 DEF Waiting
    <3> QED BY <3>1, <1>0
  <2>4. Head(Waiting) = Waiting[1]
    OBVIOUS
  <2> QED BY <2>2, <2>3, <2>4 DEF Taken
<1>3. Waiting' = Tail(Waiting)
  <2>1. Waiting' = [k \in 1 .. Occupancy - 1 |-> rxRing[Slot(Succ(rxTail) + k - 1)][1]]
    BY <1>1 DEF Waiting
  <2>2. Tail(Waiting) = [k \in 1 .. Occupancy - 1 |-> Waiting[k + 1]]
    BY <1>0 DEF Waiting
  <2>3. ASSUME NEW k \in 1 .. Occupancy - 1
        PROVE  rxRing[Slot(Succ(rxTail) + k - 1)][1] = Waiting[k + 1]
    <3>1. Slot(Succ(rxTail) + (k - 1)) = Slot(rxTail + 1 + (k - 1))
      BY <1>0, SlotSucc
    <3> QED BY <3>1, <1>0, SuccCases DEF Waiting
  <2> QED BY <2>1, <2>2, <2>3
<1> QED BY <1>2, <1>3 DEF Queue!Get, Taken, Handed

(* The copy is complete: the packet taken is handed on.                    *)
LEMMA HandStep ==
  ASSUME TypeOK, PacedInv, CopyWord, pc' = "process"
  PROVE  Queue!Hand
<1>1. Waiting' = Waiting
  BY DEF CopyWord, Waiting, Occupancy
<1>2. copied' = Whole(rxRing[idx][1]) /\ copied' = Whole(copied'[1])
  BY CopyIsWhole
<1>3. copied'[1] = rxRing[idx][1]
  BY <1>2 DEF Whole
<1>4. PacketOf(copied') = rxRing[idx][1]
  BY <1>2, <1>3 DEF PacketOf
<1>5. Handed' = Taken
  BY <1>4 DEF CopyWord, Handed, Taken
<1> QED BY <1>1, <1>5 DEF CopyWord, Taken, Queue!Hand

(* Every step of the paced ring is a step of the queue, or leaves it be.   *)
LEMMA QueueStep ==
  ASSUME TypeOK, TypeOK', PacedInv, [PacedNext]_vars
  PROVE  [Queue!Next]_(Queue!vars)
<1>1. ASSUME NEW p \in Packets, Paced(p)
      PROVE  Queue!Next
  BY <1>1, PutStep DEF Queue!Next
<1>2. CASE TakeSlot
  BY <1>2, GetStep DEF Queue!Next
<1>3. CASE CopyWord
  <2>1. Waiting' = Waiting
    BY <1>3 DEF CopyWord, Waiting, Occupancy
  <2>2. CASE pc' = "process"
    BY <1>3, <2>2, HandStep DEF Queue!Next
  <2>3. CASE pc' # "process"
    BY <1>3, <2>1, <2>3 DEF CopyWord, Taken, Handed, Queue!vars
  <2> QED BY <2>2, <2>3
<1>4. CASE Processed
  BY <1>4 DEF Processed, Waiting, Occupancy, Taken, Handed, Queue!Finish, Queue!Next
<1>5. CASE EndDrain \/ NextTick \/ ClearStats \/ UNCHANGED vars
  BY <1>5 DEF EndDrain, NextTick, ClearStats, vars, Waiting, Occupancy, Taken, Handed, Queue!vars
<1> QED BY <1>1, <1>2, <1>3, <1>4, <1>5 DEF PacedNext, Main

(* The ring implements the queue: every packet that usbtmcRxHandler stores *)
(* is fed to the reassembler once, whole and in order.                     *)
THEOREM RingImplementsQueue == PacedSpec => RingIsAQueue
<1>1. CaughtUp => Queue!Init
  <2> SUFFICES ASSUME CaughtUp
               PROVE  Queue!Init
    OBVIOUS
  <2>1. TypeOK
    BY SMT DEF CaughtUp, TypeOK, Whole
  <2>2. Occupancy = 0
    BY <2>1, OccupancyType DEF CaughtUp
  <2>3. Waiting = <<>>
    BY <2>2 DEF Waiting
  <2> QED BY <2>3 DEF CaughtUp, Taken, Handed, Queue!Init
<1>2. TypeOK /\ TypeOK' /\ PacedInv /\ [PacedNext]_vars => [Queue!Next]_(Queue!vars)
  BY QueueStep
<1> QED
  BY <1>1, <1>2, PacedTypeCorrect, PacedInvariant, PTL DEF PacedSpec, RingIsAQueue, Queue!Spec

-----------------------------------------------------------------------------
(* Any host.  What was promised is what the ring holds until the handler   *)
(* runs into the loop, and again once main has found the ring empty.       *)
RingHonours ==
  /\ PacedInv
  /\ waiting = Waiting
  /\ Taken # <<>> => Taken = <<due>>
  /\ Handed # <<>> => Handed = <<due>>

HistoryInv ==
  /\ HistoryTypeOK
  /\ \A s \in Slots : rxRing[s] = Whole(rxRing[s][1])
  /\ ~lapped => RingHonours

(* The history keeps its types: no more is promised than the ring holds.   *)
LEMMA HistoryTypeStep ==
  ASSUME HistoryTypeOK, [HistoryNext]_<<vars, historyVars>>
  PROVE  HistoryTypeOK'
<1>1. TypeOK'
  <2>1. [Next]_vars
    BY DEF HistoryNext, Arrives, Takes, FindsEmpty, Next, Main
  <2> QED BY <2>1, TypeStep DEF HistoryTypeOK
<1>2. waiting \in Seq(Packets) /\ Len(waiting) <= RingSize
      /\ due \in Packets \cup {NoPacket} /\ lapped \in BOOLEAN
  BY DEF HistoryTypeOK
<1>3. ASSUME NEW p \in Packets, Arrives(p)
      PROVE  HistoryTypeOK'
  <2>1. lapped' \in BOOLEAN
    BY <1>3, Zenon DEF Arrives
  <2>2. waiting' \in Seq(Packets) /\ Len(waiting') <= RingSize
    <3>1. CASE Len(waiting) < RingSize
      <4>1. waiting' = Append(waiting, p)
        BY <1>3, <3>1 DEF Arrives
      <4> QED BY <1>2, <3>1, <4>1
    <3>2. CASE ~(Len(waiting) < RingSize)
      <4>1. waiting' = Append(Tail(waiting), p) /\ waiting # <<>>
        BY <1>2, <1>3, <3>2 DEF Arrives
      <4> QED BY <1>2, <4>1
    <3> QED BY <3>1, <3>2
  <2> QED BY <1>1, <1>2, <1>3, <2>1, <2>2 DEF Arrives, HistoryTypeOK
<1>4. CASE Takes
  <2>1. /\ waiting' \in Seq(Packets) /\ Len(waiting') <= RingSize
        /\ due' \in Packets \cup {NoPacket}
    <3>1. CASE waiting = <<>>
      BY <1>2, <1>4, <3>1 DEF Takes
    <3>2. CASE waiting # <<>>
      BY <1>2, <1>4, <3>2 DEF Takes
    <3> QED BY <3>1, <3>2
  <2> QED BY <1>1, <1>2, <1>4, <2>1 DEF Takes, HistoryTypeOK
<1>5. CASE FindsEmpty
  <2>1. waiting' = <<>> /\ waiting' \in Seq(Packets) /\ Len(waiting') <= RingSize
    BY <1>5 DEF FindsEmpty
  <2>2. lapped' \in BOOLEAN /\ due' = due
    BY <1>5 DEF FindsEmpty
  <2> QED BY <1>1, <1>2, <2>1, <2>2 DEF HistoryTypeOK
<1>6. CASE UNCHANGED historyVars
  BY <1>1, <1>2, <1>6 DEF historyVars, HistoryTypeOK
<1> QED BY <1>3, <1>4, <1>5, <1>6 DEF HistoryNext

(* Every packet is stored in one go.                                       *)
LEMMA SlotsStayWhole ==
  ASSUME TypeOK, \A s \in Slots : rxRing[s] = Whole(rxRing[s][1]),
         [HistoryNext]_<<vars, historyVars>>
  PROVE  \A s \in Slots : rxRing'[s] = Whole(rxRing'[s][1])
<1>1. ASSUME NEW p \in Packets, RxHandler(p), NEW s \in Slots
      PROVE  rxRing'[s] = Whole(rxRing'[s][1])
  <2>1. CASE s = Slot(rxHead)
    BY <1>1, <2>1 DEF RxHandler, TypeOK, Whole
  <2>2. CASE s # Slot(rxHead)
    BY <1>1, <2>2 DEF RxHandler, TypeOK
  <2> QED BY <2>1, <2>2
<1>2. CASE UNCHANGED rxRing
  BY <1>2
<1> QED
  BY <1>1, <1>2
  DEF HistoryNext, Arrives, Burst, Takes, FindsEmpty, TakeSlot, EndDrain, CopyWord,
      Processed, NextTick, ClearStats, vars

(* As long as the handler does not run into the loop, the host may be      *)
(* taken for a paced one, and the queue for the promise.                   *)
LEMMA HonoursStep ==
  ASSUME HistoryTypeOK, TypeOK', RingHonours, ~lapped', ~lapped,
         [HistoryNext]_<<vars, historyVars>>
  PROVE  RingHonours'
<1> USE DEF HistoryTypeOK
<1>1. [PacedNext]_vars
  BY DEF HistoryNext, Arrives, Burst, Paced, Takes, FindsEmpty, PacedNext, Main
<1>2. PacedInv'
  BY <1>1, PacedStep DEF RingHonours
<1>3. ASSUME NEW p \in Packets, Arrives(p)
      PROVE  RingHonours'
  <2>1. Paced(p)
    BY <1>3 DEF Arrives, Burst, Paced
  <2>2. Queue!Put(p)
    BY <2>1, PutStep DEF RingHonours
  <2>3. Len(waiting) < RingSize
    <3>1. Len(waiting) = Occupancy
      BY OccupancyType DEF RingHonours, Waiting
    <3>2. Occupancy < RingSize
      BY <2>1, OccupancyType DEF Paced, Room, InCopy
    <3> QED BY <3>1, <3>2
  <2> QED BY <1>2, <1>3, <2>2, <2>3 DEF Arrives, Queue!Put, RingHonours
<1>4. CASE Takes
  <2>1. Queue!Get
    BY <1>4, GetStep DEF Takes, RingHonours
  <2> QED BY <1>2, <1>4, <2>1 DEF Takes, Queue!Get, RingHonours
<1>5. CASE FindsEmpty
  <2>1. Waiting' = Waiting /\ Waiting = <<>>
    <3>1. Occupancy = 0
      BY <1>5, OccupancyType DEF FindsEmpty, EndDrain
    <3> QED BY <1>5, <3>1 DEF FindsEmpty, EndDrain, Waiting, Occupancy
  <2> QED BY <1>2, <1>5, <2>1 DEF FindsEmpty, EndDrain, Taken, Handed, RingHonours
<1>6. CASE CopyWord /\ UNCHANGED historyVars
  <2>1. CASE pc' = "process"
    BY <1>2, <1>6, <2>1, HandStep DEF Queue!Hand, historyVars, RingHonours
  <2>2. CASE pc' # "process"
    BY <1>2, <1>6, <2>2
    DEF CopyWord, Waiting, Occupancy, Taken, Handed, historyVars, RingHonours
  <2> QED BY <2>1, <2>2
<1>7. CASE (Processed \/ NextTick \/ ClearStats \/ UNCHANGED vars) /\ UNCHANGED historyVars
  BY <1>2, <1>7
  DEF Processed, NextTick, ClearStats, vars, Waiting, Occupancy, Taken, Handed, historyVars,
      RingHonours
<1> QED BY <1>3, <1>4, <1>5, <1>6, <1>7 DEF HistoryNext

(* An empty ring is all it takes to be exact again.                        *)
LEMMA HonoursAgain ==
  ASSUME HistoryInv, lapped, ~lapped', [HistoryNext]_<<vars, historyVars>>
  PROVE  RingHonours'
<1>1. FindsEmpty
  BY DEF HistoryNext, Arrives, Takes, historyVars
<1>2. Occupancy = 0 /\ Occupancy' = Occupancy
  BY <1>1, OccupancyType DEF HistoryInv, HistoryTypeOK, FindsEmpty, EndDrain, Occupancy
<1>3. Waiting' = <<>>
  BY <1>2 DEF Waiting
<1>4. PacedInv'
  BY <1>1, <1>2 DEF FindsEmpty, EndDrain, HistoryInv, PacedInv, InCopy
<1> QED BY <1>1, <1>3, <1>4 DEF FindsEmpty, EndDrain, Taken, Handed, RingHonours

(* Whatever the host sends, and however often it has overrun the ring:     *)
(* while the handler has not run into the loop since the ring was last     *)
(* empty, main gets the packet it is due, whole.                           *)
THEOREM ExactAgainAfterEmpty == HistorySpec => [](HistoryTypeOK /\ ExactUnlessLapped)
<1>1. HistoryInit => HistoryInv
  <2> SUFFICES ASSUME HistoryInit
               PROVE  HistoryInv
    OBVIOUS
  <2>1. TypeOK
    BY SMT DEF HistoryInit, Boot, TypeOK, Whole
  <2>2. HistoryTypeOK
    <3>1. waiting = <<>> /\ waiting \in Seq(Packets) /\ Len(waiting) <= RingSize
      BY DEF HistoryInit
    <3>2. due \in Packets \cup {NoPacket} /\ lapped \in BOOLEAN
      BY DEF HistoryInit
    <3> QED BY <2>1, <3>1, <3>2 DEF HistoryTypeOK
  <2>3. Occupancy = 0
    BY <2>1, OccupancyType DEF HistoryInit, Boot
  <2>4. Waiting = <<>>
    BY <2>3 DEF Waiting
  <2>5. \A s \in Slots : rxRing[s] = Whole(rxRing[s][1])
    BY DEF HistoryInit, Boot, Whole
  <2>6. RingHonours
    BY <2>3, <2>4, <2>5 DEF HistoryInit, Boot, PacedInv, InCopy, Taken, Handed, RingHonours
  <2> QED BY <2>2, <2>5, <2>6 DEF HistoryInv
<1>2. HistoryInv /\ [HistoryNext]_<<vars, historyVars>> => HistoryInv'
  <2> SUFFICES ASSUME HistoryInv, [HistoryNext]_<<vars, historyVars>>
               PROVE  HistoryInv'
    OBVIOUS
  <2>1. HistoryTypeOK' /\ TypeOK'
    BY HistoryTypeStep DEF HistoryInv, HistoryTypeOK
  <2>2. \A s \in Slots : rxRing'[s] = Whole(rxRing'[s][1])
    BY SlotsStayWhole DEF HistoryInv, HistoryTypeOK
  <2>3. ~lapped' => RingHonours'
    BY <2>1, HonoursStep, HonoursAgain DEF HistoryInv
  <2> QED BY <2>1, <2>2, <2>3 DEF HistoryInv
<1>3. HistoryInv => HistoryTypeOK /\ ExactUnlessLapped
  BY DEF HistoryInv, RingHonours, ExactUnlessLapped, Handed
<1> QED BY <1>1, <1>2, <1>3, PTL DEF HistorySpec

(* Of all the slots in use, only the one main is copying can be            *)
(* overwritten without an overflow being counted: the others are the       *)
(* Occupancy slots from rxTail on, and with less than a lap of them the    *)
(* slot at rxHead is none of these.                                        *)
LEMMA UncountedOverwrite ==
  ASSUME TypeOK, InUse(Slot(rxHead)), ~(Occupancy >= RingSize)
  PROVE  pc = "copy" /\ Slot(rxHead) = idx
<1>1. /\ Occupancy \in 0 .. RingSize - 1 /\ rxTail \in Int
      /\ Slot(rxTail + Occupancy) = Slot(rxHead)
  BY OccupancyType DEF TypeOK
<1>2. ASSUME NEW k \in 0 .. Occupancy - 1
      PROVE  Slot(rxHead) # Slot(rxTail + k)
  <2> DEFINE c == rxTail + k
             j == Occupancy - k
  <2>1. c \in Int /\ j \in 1 .. RingSize - 1 /\ c + j = rxTail + Occupancy
    BY <1>1
  <2> HIDE DEF c, j
  <2>2. Slot(c + j) # Slot(c)
    BY <2>1, SlotApart
  <2> QED BY <1>1, <2>1, <2>2 DEF c
<1> QED BY <1>2 DEF InUse

(* rxOverflows misses no loss but that one, under any host.                *)
THEOREM LossesAreCounted == HistorySpec => OverwritesAreCounted
<1> DEFINE Counted ==
      rxHead' # rxHead /\ InUse(Slot(rxHead)) /\ rxOverflows' = rxOverflows =>
        pc = "copy" /\ Slot(rxHead) = idx
<1>1. HistoryTypeOK /\ [HistoryNext]_<<vars, historyVars>> => [Counted]_vars
  <2> SUFFICES ASSUME HistoryTypeOK, [HistoryNext]_<<vars, historyVars>>
               PROVE  Counted
    OBVIOUS
  <2>1. ASSUME NEW p \in Packets, RxHandler(p), rxOverflows' = rxOverflows
        PROVE  ~(Occupancy >= RingSize)
    BY <2>1 DEF RxHandler, HistoryTypeOK, TypeOK
  <2>2. \/ \E p \in Packets : RxHandler(p)
        \/ UNCHANGED rxHead
    BY DEF HistoryNext, Arrives, Burst, Takes, FindsEmpty, TakeSlot, EndDrain, CopyWord,
           Processed, NextTick, ClearStats, vars
  <2> QED BY <2>1, <2>2, UncountedOverwrite DEF HistoryTypeOK
<1> QED BY <1>1, ExactAgainAfterEmpty, PTL DEF HistorySpec, OverwritesAreCounted

=============================================================================
