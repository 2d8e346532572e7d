---------------------------- MODULE EventLogProofs -----------------------------
(***************************************************************************)
(* Proofs about EventLog, for every ring size, counter width, sets of      *)
(* events and bounds.                                                      *)
(***************************************************************************)
EXTENDS EventLog, CounterArithmetic, FiniteSetTheorems

USE EventAssumption

-----------------------------------------------------------------------------
(* The ring's contents: the n slots from t on, and how many of them hold   *)
(* the event e.                                                            *)
Live(t, n) == {Slot(t + k) : k \in 0 .. n - 1}

Held(ev, t, n, e) == {s \in Live(t, n) : ev[s] = e}

Count(ev, t, n, e) == Cardinality(Held(ev, t, n, e))

(* How far ahead of evTail a counter is.                                   *)
Distance(c) == (c - evTail) % CounterMod

(* Why evHead is never set back behind evTail: the value main will advance *)
(* is one that evHead had since evTail last moved, and main checks for an  *)
(* event before it moves evTail.                                           *)
LogBounds ==
  /\ Ahead <= logged
  /\ logged <= MaxLogged + 1
  /\ pc \in LogLabels => logged <= MaxLogged
  /\ pc = "advance" => reg \in 0 .. CounterMod - 1 /\ Distance(reg) <= Ahead
  /\ pc = "read" => evTail # evHead

(* Why no packet is counted that was not sent: what main will store is one *)
(* more than a count it loaded when its own packet was counted already.    *)
CountBounds ==
  /\ txPacketsSent <= sends
  /\ pc = "count" => reg + 1 <= sends

(* Why the account is exact unless the ring was hit: main's own event goes *)
(* to the slot that evHead is at, and what was logged and not taken out is *)
(* what the slots from evTail to evHead hold.                              *)
Account ==
  /\ Ahead <= RingSize
  /\ pc \in LogLabels \ {"check"} => Ahead < RingSize
  /\ pc = "store" => reg = Slot(evHead)
  /\ pc \in {"load", "advance"} => events[Slot(evHead)] = event
  /\ pc = "advance" => reg = evHead
  /\ pc = "read" => event = events[Slot(evTail)]
  /\ \A e \in Events : balance[e] = Count(events, evTail, Ahead, e)
                                     + (IF pc = "print" /\ event = e THEN 1 ELSE 0)

EventInv ==
  /\ TypeOK
  /\ LogBounds
  /\ CountBounds
  /\ overrun /\ ~cleared => evOverflows = 1
  /\ ~overrun /\ ~raced => Account

-----------------------------------------------------------------------------
(* The slots of a ring.                                                    *)

(* The slot of a counter is a slot.                                        *)
LEMMA SlotType ==
  ASSUME NEW c \in Int
  PROVE  Slot(c) \in Slots
BY DivMod DEF Slot, Slots

(* Over one lap they are distinct.                                         *)
LEMMA SlotsApart ==
  ASSUME NEW t \in Int, NEW i \in 0 .. RingSize - 1, NEW j \in 0 .. RingSize - 1, i < j
  PROVE  Slot(t + i) # Slot(t + j)
<1> DEFINE x == t + i
           y == j - i
<1>1. x \in Int /\ y \in 1 .. RingSize - 1 /\ x + y = t + j
  OBVIOUS
<1> HIDE DEF x, y
<1>2. (x + y) % RingSize # x % RingSize
  BY <1>1, ModApart
<1> QED BY <1>1, <1>2 DEF Slot, x

(* The counters' arithmetic, for this ring.                                *)
LEMMA Counters ==
  ASSUME NEW h \in 0 .. CounterMod - 1, NEW t \in 0 .. CounterMod - 1
  PROVE  /\ Succ(h) \in 0 .. CounterMod - 1
         /\ (h - t) % CounterMod \in 0 .. CounterMod - 1
         /\ (h - t) % CounterMod = 0 <=> t = h
         /\ (h - t) % CounterMod < CounterMod - 1 =>
              (Succ(h) - t) % CounterMod = ((h - t) % CounterMod) + 1
         /\ t # h => (h - Succ(t)) % CounterMod = ((h - t) % CounterMod) - 1
         /\ Slot(t + ((h - t) % CounterMod)) = Slot(h)
         /\ \A j \in Int : Slot(Succ(t) + j) = Slot(t + 1 + j)
<1>1. CounterMod \in Nat /\ CounterMod > 1 /\ CounterMod % RingSize = 0
  OBVIOUS
<1>2. Succ(h) \in 0 .. CounterMod - 1
  BY <1>1, NextCount DEF Succ
<1>3. /\ (h - t) % CounterMod = IF h >= t THEN h - t ELSE h - t + CounterMod
      /\ (h - t) % CounterMod \in 0 .. CounterMod - 1
  BY <1>1, CountDistance
<1>4. (h - t) % CounterMod = 0 <=> t = h
  BY <1>3
<1>5. (h - t) % CounterMod < CounterMod - 1 =>
        (Succ(h) - t) % CounterMod = ((h - t) % CounterMod) + 1
  BY <1>1, CountHead DEF Succ
<1>6. t # h => (h - Succ(t)) % CounterMod = ((h - t) % CounterMod) - 1
  BY <1>1, CountTail DEF Succ
<1>7. Slot(t + ((h - t) % CounterMod)) = Slot(h)
  BY <1>1, HeadSlot DEF Slot
<1>8. \A j \in Int : Slot(Succ(t) + j) = Slot(t + 1 + j)
  BY <1>1, CountSlot DEF Slot, Succ
<1> QED BY <1>2, <1>3, <1>4, <1>5, <1>6, <1>7, <1>8

(* The slot after the live ones is not one of them, unless the ring is     *)
(* full; the live slots grow at the head and shrink at the tail.           *)
LEMMA LiveFacts ==
  ASSUME NEW t \in 0 .. CounterMod - 1, NEW n \in 0 .. RingSize
  PROVE  /\ Live(t, n) \subseteq Slots
         /\ n = 0 => Live(t, n) = {}
         /\ n < RingSize => /\ Slot(t + n) \notin Live(t, n)
                            /\ Live(t, n + 1) = Live(t, n) \cup {Slot(t + n)}
         /\ n > 0 => /\ Slot(t) \in Live(t, n)
                     /\ Live(Succ(t), n - 1) = Live(t, n) \ {Slot(t)}
<1>1. t \in Int /\ n \in Nat /\ RingSize \in Nat /\ n <= RingSize
  OBVIOUS
<1>2. Live(t, n) \subseteq Slots
  BY <1>1, SlotType DEF Live
<1>3. n = 0 => Live(t, n) = {}
  BY DEF Live
<1>4. ASSUME n < RingSize
      PROVE  /\ Slot(t + n) \notin Live(t, n)
             /\ Live(t, n + 1) = Live(t, n) \cup {Slot(t + n)}
  <2>1. ASSUME NEW k \in 0 .. n - 1
        PROVE  Slot(t + k) # Slot(t + n)
    <3>1. /\ k \in 0 .. RingSize - 1 /\ n \in 0 .. RingSize - 1 /\ k < n
      BY <1>1, <1>4
    <3> QED BY ONLY <1>1, <3>1, SlotsApart
  <2>2. 0 .. (n + 1) - 1 = (0 .. n - 1) \cup {n}
    BY <1>1
  <2> QED BY <2>1, <2>2 DEF Live
<1>5. ASSUME n > 0
      PROVE  /\ Slot(t) \in Live(t, n)
             /\ Live(Succ(t), n - 1) = Live(t, n) \ {Slot(t)}
  <2>1. 0 \in 0 .. n - 1 /\ t + 0 = t
    BY <1>1, <1>5
  <2>2. Slot(t) \in Live(t, n)
    BY <2>1 DEF Live
  <2>3. \A j \in Int : Slot(Succ(t) + j) = Slot(t + 1 + j)
    BY Counters
  <2>4. ASSUME NEW k \in 0 .. n - 2
        PROVE  Slot(Succ(t) + k) \in Live(t, n) \ {Slot(t)}
    <3>1. k + 1 \in 0 .. n - 1 /\ k + 1 \in 0 .. RingSize - 1 /\ 0 < k + 1 /\ t + 1 + k = t + (k + 1)
      BY <1>1
    <3>2. Slot(Succ(t) + k) = Slot(t + (k + 1))
      BY <2>3, <3>1
    <3>3. Slot(t + 0) # Slot(t + (k + 1))
      <4>1. 0 \in 0 .. RingSize - 1
        OBVIOUS
      <4> QED BY ONLY <1>1, <3>1, <4>1, SlotsApart
    <3> QED BY <2>1, <3>1, <3>2, <3>3 DEF Live
  <2>5. ASSUME NEW s \in Live(t, n) \ {Slot(t)}
        PROVE  \E k \in 0 .. n - 2 : s = Slot(Succ(t) + k)
    <3>1. PICK k \in 0 .. n - 1 : s = Slot(t + k)
      BY DEF Live
    <3>2. k # 0
      BY <2>1, <3>1
    <3>3. k - 1 \in 0 .. n - 2 /\ t + 1 + (k - 1) = t + k
      BY <1>1, <3>2
    <3>4. Slot(Succ(t) + (k - 1)) = s
      BY <2>3, <3>1, <3>3
    <3> QED BY <3>3, <3>4
  <2>6. Live(Succ(t), n - 1) = {Slot(Succ(t) + k) : k \in 0 .. n - 2}
    <3>1. (n - 1) - 1 = n - 2
      BY <1>1
    <3> QED BY <3>1 DEF Live
  <2> QED BY <2>2, <2>4, <2>5, <2>6
<1> QED BY <1>2, <1>3, <1>4, <1>5

(* How the count of an event changes as the head moves over a slot, as the *)
(* tail does, and as the slot at the head is written.                      *)
LEMMA CountFacts ==
  ASSUME NEW ev, NEW t \in 0 .. CounterMod - 1, NEW n \in 0 .. RingSize, NEW e
  PROVE  /\ Count(ev, t, n, e) \in Nat
         /\ n = 0 => Count(ev, t, n, e) = 0
         /\ n < RingSize => Count(ev, t, n + 1, e)
                              = Count(ev, t, n, e) + (IF ev[Slot(t + n)] = e THEN 1 ELSE 0)
         /\ n > 0 => Count(ev, Succ(t), n - 1, e)
                       = Count(ev, t, n, e) - (IF ev[Slot(t)] = e THEN 1 ELSE 0)
<1> DEFINE H == Held(ev, t, n, e)
<1>1. IsFiniteSet(H)
  <2>1. IsFiniteSet(Slots)
    <3>1. 0 \in Int /\ RingSize - 1 \in Int
      OBVIOUS
    <3> QED BY <3>1, FS_Interval DEF Slots
  <2>2. H \subseteq Slots
    BY LiveFacts DEF Held
  <2> QED BY <2>1, <2>2, FS_Subset
<1>2. Count(ev, t, n, e) = Cardinality(H) /\ Cardinality(H) \in Nat
  BY <1>1, FS_CardinalityType DEF Count
<1>3. n = 0 => Count(ev, t, n, e) = 0
  <2> SUFFICES ASSUME n = 0 PROVE H = {}
    BY <1>2, FS_EmptySet
  <2> QED BY LiveFacts DEF Held
<1>4. ASSUME n < RingSize
      PROVE  Count(ev, t, n + 1, e)
               = Count(ev, t, n, e) + (IF ev[Slot(t + n)] = e THEN 1 ELSE 0)
  <2> DEFINE s == Slot(t + n)
  <2>1. s \notin Live(t, n) /\ Live(t, n + 1) = Live(t, n) \cup {s}
    BY <1>4, LiveFacts
  <2>2. s \notin H
    BY <2>1 DEF Held
  <2>3. CASE ev[s] = e
    <3>1. Held(ev, t, n + 1, e) = H \cup {s}
      BY <2>1, <2>3 DEF Held
    <3>2. Cardinality(H \cup {s}) = Cardinality(H) + 1
      BY <1>1, <2>2, FS_AddElement
    <3> QED BY <1>2, <2>3, <3>1, <3>2 DEF Count
  <2>4. CASE ev[s] # e
    <3>1. Held(ev, t, n + 1, e) = H
      BY <2>1, <2>4 DEF Held
    <3> QED BY <1>2, <2>4, <3>1 DEF Count
  <2> QED BY <2>3, <2>4
<1>5. ASSUME n > 0
      PROVE  Count(ev, Succ(t), n - 1, e)
               = Count(ev, t, n, e) - (IF ev[Slot(t)] = e THEN 1 ELSE 0)
  <2> DEFINE s == Slot(t)
  <2>1. s \in Live(t, n) /\ Live(Succ(t), n - 1) = Live(t, n) \ {s}
    BY <1>5, LiveFacts
  <2>2. CASE ev[s] = e
    <3>1. Held(ev, Succ(t), n - 1, e) = H \ {s} /\ s \in H
      BY <2>1, <2>2 DEF Held
    <3>2. Cardinality(H \ {s}) = Cardinality(H) - 1
      BY <1>1, <3>1, FS_RemoveElement
    <3> QED BY <1>2, <2>2, <3>1, <3>2 DEF Count
  <2>3. CASE ev[s] # e
    <3>1. Held(ev, Succ(t), n - 1, e) = H
      BY <2>1, <2>3 DEF Held
    <3> QED BY <1>2, <2>3, <3>1 DEF Count
  <2> QED BY <2>2, <2>3
<1> QED BY <1>2, <1>3, <1>4, <1>5

(* A write to the slot at the head changes no count while a slot is free.  *)
LEMMA CountOfWrite ==
  ASSUME NEW ev, NEW w, NEW t \in 0 .. CounterMod - 1, NEW n \in 0 .. RingSize - 1,
         \A s \in Slots : s # Slot(t + n) => w[s] = ev[s]
  PROVE  \A e : Count(w, t, n, e) = Count(ev, t, n, e)
<1>1. Slot(t + n) \notin Live(t, n) /\ Live(t, n) \subseteq Slots
  <2>1. n \in 0 .. RingSize /\ n < RingSize
    OBVIOUS
  <2> QED BY <2>1, LiveFacts
<1>2. \A r \in Live(t, n) : w[r] = ev[r]
  BY <1>1
<1> QED BY <1>2 DEF Held, Count

-----------------------------------------------------------------------------
(* Next, without its bound on what is sent, or a stutter.                  *)
LEMMA Steps ==
  ASSUME [Next]_vars
  PROVE  \/ \E e \in IsrEvents : logged < MaxLogged /\ IsrLog(e)
         \/ IsrSend
         \/ \E e \in MainEvents : logged < MaxLogged /\ BeginLog(e)
         \/ LogCheck \/ LogIndex \/ LogStore \/ LogLoad \/ LogAdvance
         \/ BeginSend \/ EndSend
         \/ ReadEvent \/ AdvanceTail \/ PrintEvent \/ FindsEmpty
         \/ ClearStats
         \/ UNCHANGED vars
BY DEF Next, Logging, Drain

(* A balance that one event is added to or taken from.                     *)
LEMMA LoggedFacts ==
  ASSUME balance \in [Events -> Int], NEW x, NEW by \in {1, -1}
  PROVE  /\ Logged(x, by) \in [Events -> Int]
         /\ \A e \in Events : Logged(x, by)[e] = balance[e] + (IF x = e THEN by ELSE 0)
<1>1. by \in Int
  OBVIOUS
<1>2. CASE x \in Events
  BY <1>1, <1>2 DEF Logged
<1>3. CASE x \notin Events
  <2>1. Logged(x, by) = balance
    BY <1>3 DEF Logged
  <2> QED BY <1>3, <2>1
<1> QED BY <1>2, <1>3

(* The types are kept by every step.                                       *)
LEMMA TypeStep ==
  ASSUME TypeOK, [Next]_vars
  PROVE  TypeOK'
<1> USE DEF TypeOK
<1>0. \A c \in Nat : Succ(c) \in 0 .. CounterMod - 1
  BY DivMod DEF Succ
<1>1. ASSUME NEW e \in IsrEvents, IsrLog(e)
      PROVE  TypeOK'
  <2>1. events' \in [Slots -> Events \cup {NoEvent}]
    BY <1>1 DEF IsrLog, Events
  <2>2. balance' \in [Events -> Int]
    BY <1>1, LoggedFacts DEF IsrLog
  <2>3. raced' \in BOOLEAN /\ overrun' \in BOOLEAN
    BY <1>1, Zenon DEF IsrLog
  <2>4. evHead' \in 0 .. CounterMod - 1 /\ evOverflows' \in 0 .. 1 /\ logged' \in Nat
    BY <1>0, <1>1 DEF IsrLog
  <2>5. UNCHANGED <<evTail, txPacketsSent, pc, event, reg, sends, cleared>>
    BY <1>1 DEF IsrLog
  <2> QED BY <2>1, <2>2, <2>3, <2>4, <2>5
<1>2. CASE IsrSend
  BY <1>2 DEF IsrSend, logVars
<1>3. ASSUME NEW e \in MainEvents, BeginLog(e)
      PROVE  TypeOK'
  BY <1>3 DEF BeginLog, logVars, historyVars, Events
<1>4. CASE LogCheck
  <2>1. overrun' \in BOOLEAN
    BY <1>4, Zenon DEF LogCheck
  <2> QED BY <1>4, <2>1 DEF LogCheck
<1>5. CASE LogIndex
  <2>1. Slot(evHead) \in Nat
    BY SlotType DEF Slots
  <2> QED BY <1>5, <2>1 DEF LogIndex, logVars, historyVars
<1>6. CASE LogStore
  BY <1>6 DEF LogStore, historyVars
<1>7. CASE LogLoad
  BY <1>7 DEF LogLoad, logVars, historyVars
<1>8. CASE LogAdvance
  <2>1. balance' \in [Events -> Int]
    BY <1>8, LoggedFacts DEF LogAdvance
  <2> QED BY <1>0, <1>8, <2>1 DEF LogAdvance
<1>9. CASE BeginSend
  BY <1>9 DEF BeginSend, logVars
<1>10. CASE EndSend
  BY <1>10 DEF EndSend, logVars, historyVars
<1>11. CASE ReadEvent
  <2>1. events[Slot(evTail)] \in Events \cup {NoEvent}
    BY SlotType
  <2> QED BY <1>11, <2>1 DEF ReadEvent, logVars, historyVars
<1>12. CASE AdvanceTail
  BY <1>0, <1>12 DEF AdvanceTail, logVars, historyVars
<1>13. CASE PrintEvent
  <2>1. balance' \in [Events -> Int]
    BY <1>13, LoggedFacts DEF PrintEvent
  <2> QED BY <1>13, <2>1 DEF PrintEvent, logVars
<1>14. CASE FindsEmpty
  <2>1. balance' = [e \in Events |-> 0]
    BY <1>14 DEF FindsEmpty
  <2>2. balance' \in [Events -> Int]
    <3>1. [e \in Events |-> 0] \in [Events -> Int]
      BY SMT
    <3> QED BY <2>1, <3>1, Zenon
  <2>3. logged' = 0 /\ raced' = FALSE /\ overrun' = FALSE /\ cleared' = FALSE
    BY <1>14 DEF FindsEmpty
  <2>4. UNCHANGED <<logVars, evTail, txPacketsSent, pc, event, reg, sends>>
    BY <1>14 DEF FindsEmpty
  <2> QED BY <2>2, <2>3, <2>4 DEF logVars
<1>15. CASE ClearStats
  <2>1. /\ evOverflows' \in 0 .. 1 /\ txPacketsSent' \in Nat /\ sends' \in Nat
        /\ cleared' \in BOOLEAN
    BY <1>15 DEF ClearStats
  <2>2. UNCHANGED <<evHead, events, evTail, pc, event, reg, balance, logged, raced, overrun>>
    BY <1>15 DEF ClearStats
  <2> QED BY <2>1, <2>2
<1>16. CASE UNCHANGED vars
  BY <1>16 DEF vars, logVars, historyVars
<1> QED BY <1>1, <1>2, <1>3, <1>4, <1>5, <1>6, <1>7, <1>8, <1>9, <1>10, <1>11, <1>12, <1>13,
           <1>14, <1>15, <1>16, Steps

(* A value that evHead had since evTail last moved, and what a handler's   *)
(* event, main's and a printed one do to the distance.                     *)
LEMMA BoundsStep ==
  ASSUME TypeOK, LogBounds, [Next]_vars
  PROVE  LogBounds'
<1>0. /\ evHead \in 0 .. CounterMod - 1 /\ evTail \in 0 .. CounterMod - 1
      /\ logged \in Nat /\ Ahead \in 0 .. CounterMod - 1
      /\ MaxLogged \in Nat /\ MaxLogged < CounterMod - 1
  BY Counters DEF TypeOK, Ahead
<1>1. ASSUME NEW e \in IsrEvents, logged < MaxLogged, IsrLog(e)
      PROVE  LogBounds'
  <2>1. /\ evHead' = Succ(evHead) /\ logged' = logged + 1
        /\ UNCHANGED <<evTail, pc, reg>>
    BY <1>1 DEF IsrLog
  <2>2. Ahead < CounterMod - 1
    BY <1>0, <1>1 DEF LogBounds
  <2>3. Ahead' = Ahead + 1
    BY <1>0, <2>1, <2>2, Counters DEF Ahead
  <2>4. evTail # evHead => Ahead' # 0
    BY <1>0, <2>3
  <2>5. evTail' # evHead'
    <3>1. evHead' \in 0 .. CounterMod - 1 /\ Ahead' # 0
      BY <1>0, <2>1, <2>3, Counters
    <3> QED BY <1>0, <2>1, <3>1, Counters DEF Ahead
  <2>6. Distance(reg)' = Distance(reg)
    BY <2>1 DEF Distance
  <2>7. pc = "advance" => Distance(reg)' <= Ahead'
    <3>1. ASSUME pc = "advance"
          PROVE  Distance(reg) \in Int /\ Distance(reg) <= Ahead
      BY <1>0, <3>1, Counters DEF LogBounds, Distance
    <3> QED BY <1>0, <2>3, <2>6, <3>1
  <2> QED BY <1>0, <1>1, <2>1, <2>3, <2>5, <2>7 DEF LogBounds
<1>2. ASSUME NEW e \in MainEvents, logged < MaxLogged, BeginLog(e)
      PROVE  LogBounds'
  <2>1. pc' = "check" /\ UNCHANGED <<evHead, evTail, logged>>
    BY <1>2 DEF BeginLog, logVars, historyVars
  <2> QED BY <1>0, <1>2, <2>1 DEF LogBounds, Ahead
<1>3. CASE LogCheck \/ LogIndex \/ LogStore
  <2>1. pc \in LogLabels /\ pc' \in {"index", "store", "load"} /\ UNCHANGED <<evHead, evTail, logged>>
    BY <1>3 DEF LogCheck, LogIndex, LogStore, At, LogLabels, logVars, historyVars
  <2> QED BY <2>1 DEF LogBounds, Ahead
<1>4. CASE LogLoad
  <2>1. pc \in LogLabels /\ pc' = "advance" /\ reg' = evHead /\ UNCHANGED <<evHead, evTail, logged>>
    BY <1>4 DEF LogLoad, At, LogLabels, logVars, historyVars
  <2>2. Ahead' = Ahead /\ Distance(reg)' = Ahead
    BY <2>1 DEF Ahead, Distance
  <2> QED BY <1>0, <2>1, <2>2 DEF LogBounds
<1>5. CASE LogAdvance
  <2>1. /\ pc = "advance" /\ pc' = "idle" /\ evHead' = Succ(reg) /\ logged' = logged + 1
        /\ UNCHANGED evTail
    BY <1>5 DEF LogAdvance, At
  <2>2. /\ reg \in 0 .. CounterMod - 1
        /\ Distance(reg) <= Ahead /\ Ahead <= logged /\ logged <= MaxLogged
    BY <2>1 DEF LogBounds, LogLabels
  <2>3. Distance(reg) \in 0 .. CounterMod - 1
    BY <1>0, <2>2, Counters DEF Distance
  <2>4. Distance(reg) < CounterMod - 1
    BY <1>0, <2>2, <2>3
  <2>5. Ahead' = Distance(reg) + 1
    BY <1>0, <2>1, <2>2, <2>4, Counters DEF Ahead, Distance
  <2> QED BY <1>0, <2>1, <2>2, <2>3, <2>5 DEF LogBounds, LogLabels
<1>6. CASE ReadEvent
  <2>1. evTail # evHead /\ pc' = "read" /\ UNCHANGED <<evHead, evTail, logged>>
    BY <1>6 DEF ReadEvent, logVars, historyVars
  <2> QED BY <2>1 DEF LogBounds, Ahead, LogLabels
<1>7. CASE AdvanceTail
  <2>1. /\ pc = "read" /\ pc' = "print" /\ evTail' = Succ(evTail)
        /\ UNCHANGED <<evHead, logged>>
    BY <1>7 DEF AdvanceTail, At, logVars, historyVars
  <2>2. Ahead' = Ahead - 1
    BY <1>0, <2>1, Counters DEF Ahead, LogBounds
  <2> QED BY <1>0, <2>1, <2>2 DEF LogBounds, LogLabels
<1>8. CASE FindsEmpty
  <2>1. pc = "idle" /\ evTail = evHead /\ logged' = 0 /\ UNCHANGED <<evHead, evTail, pc>>
    BY <1>8 DEF FindsEmpty, At, logVars
  <2>2. Ahead' = 0
    BY <1>0, <2>1, Counters DEF Ahead
  <2> QED BY <1>0, <2>1, <2>2 DEF LogBounds, LogLabels
<1>9. CASE BeginSend \/ EndSend \/ PrintEvent
  <2>1. pc' \in {"idle", "count"} /\ UNCHANGED <<evHead, evTail, logged>>
    BY <1>9 DEF BeginSend, EndSend, PrintEvent, logVars, historyVars
  <2> QED BY <2>1 DEF LogBounds, Ahead, LogLabels
<1>10. CASE IsrSend \/ ClearStats \/ UNCHANGED vars
  <2>1. UNCHANGED <<evHead, evTail, logged, pc, reg>>
    BY <1>10 DEF IsrSend, ClearStats, vars, logVars, historyVars
  <2> QED BY <2>1 DEF LogBounds, Ahead, Distance
<1> QED BY <1>1, <1>2, <1>3, <1>4, <1>5, <1>6, <1>7, <1>8, <1>9, <1>10, Steps

(* The count of sent packets, which handlers and main share.               *)
LEMMA CountStep ==
  ASSUME TypeOK, CountBounds, [Next]_vars
  PROVE  CountBounds'
<1> USE DEF CountBounds
<1>0. txPacketsSent \in Nat /\ sends \in Nat /\ reg \in Nat
  BY DEF TypeOK
<1>1. CASE IsrSend
  BY <1>0, <1>1 DEF IsrSend
<1>2. CASE BeginSend
  BY <1>0, <1>2 DEF BeginSend
<1>3. CASE EndSend
  BY <1>0, <1>3 DEF EndSend, At, historyVars
<1>4. CASE ClearStats
  BY <1>4 DEF ClearStats, At
<1>5. CASE \/ \E e \in IsrEvents : IsrLog(e)
           \/ UNCHANGED vars
  BY <1>5 DEF IsrLog, vars, historyVars
<1>6. CASE \/ \E e \in MainEvents : BeginLog(e)
           \/ LogCheck \/ LogIndex \/ LogStore \/ LogLoad \/ LogAdvance
           \/ ReadEvent \/ AdvanceTail \/ PrintEvent \/ FindsEmpty
  <2>1. UNCHANGED <<txPacketsSent, sends>> /\ pc' # "count"
    BY <1>6 DEF BeginLog, LogCheck, LogIndex, LogStore, LogLoad, LogAdvance, ReadEvent,
                AdvanceTail, PrintEvent, FindsEmpty, At, logVars, historyVars
  <2> QED BY <2>1
<1> QED BY <1>1, <1>2, <1>3, <1>4, <1>5, <1>6, Steps

(* An overrun since the ring was empty is counted, until it is cleared.    *)
LEMMA OverrunStep ==
  ASSUME TypeOK, overrun /\ ~cleared => evOverflows = 1, [Next]_vars
  PROVE  overrun' /\ ~cleared' => evOverflows' = 1
<1>1. CASE \/ \E e \in IsrEvents : IsrLog(e)
           \/ LogCheck
  BY <1>1 DEF IsrLog, LogCheck, Full
<1>2. CASE FindsEmpty \/ ClearStats
  BY <1>2 DEF FindsEmpty, ClearStats
<1>3. CASE \/ IsrSend \/ LogAdvance \/ BeginSend \/ PrintEvent
           \/ \E e \in MainEvents : BeginLog(e)
  BY <1>3 DEF IsrSend, BeginLog, LogAdvance, BeginSend, PrintEvent, logVars, historyVars
<1>4. CASE \/ LogIndex \/ LogStore \/ LogLoad \/ EndSend \/ ReadEvent \/ AdvanceTail
           \/ UNCHANGED vars
  BY <1>4 DEF LogIndex, LogStore, LogLoad, EndSend, ReadEvent, AdvanceTail, vars, logVars,
              historyVars
<1> QED BY <1>1, <1>2, <1>3, <1>4, Steps

(* The head's slot is the one after the events.                            *)
LEMMA HeadIsAhead ==
  ASSUME TypeOK
  PROVE  Slot(evTail + Ahead) = Slot(evHead)
<1>1. evHead \in 0 .. CounterMod - 1 /\ evTail \in 0 .. CounterMod - 1
  BY DEF TypeOK
<1>2. Slot(evTail + ((evHead - evTail) % CounterMod)) = Slot(evHead)
  BY ONLY <1>1, Counters
<1> QED BY <1>2 DEF Ahead

(* One event more is in the ring once the head has passed its slot.        *)
LEMMA HeadPasses ==
  ASSUME TypeOK, Ahead < RingSize, evHead' = Succ(evHead), evTail' = evTail
  PROVE  /\ Ahead' = Ahead + 1
         /\ Slot(evTail + Ahead) = Slot(evHead)
         /\ \A ev, e : Count(ev, evTail, Ahead + 1, e)
                         = Count(ev, evTail, Ahead, e) + (IF ev[Slot(evHead)] = e THEN 1 ELSE 0)
<1>1. /\ evHead \in 0 .. CounterMod - 1 /\ evTail \in 0 .. CounterMod - 1
      /\ Ahead \in 0 .. CounterMod - 1
  BY Counters DEF TypeOK, Ahead
<1>2. Ahead' = Ahead + 1
  <2>1. Ahead < CounterMod - 1
    BY <1>1
  <2> QED BY <1>1, <2>1, Counters DEF Ahead
<1>3. Slot(evTail + Ahead) = Slot(evHead)
  BY HeadIsAhead
<1>4. Ahead \in 0 .. RingSize
  BY <1>1
<1>5. \A ev, e : Count(ev, evTail, Ahead + 1, e)
                   = Count(ev, evTail, Ahead, e)
                       + (IF ev[Slot(evTail + Ahead)] = e THEN 1 ELSE 0)
  BY <1>1, <1>4, CountFacts
<1> QED BY <1>2, <1>3, <1>5

(* The account while the ring is not hit, step by step.                    *)
LEMMA AccountStep ==
  ASSUME TypeOK, LogBounds, ~overrun /\ ~raced => Account, [Next]_vars,
         ~overrun', ~raced'
  PROVE  Account'
<1>0. /\ evHead \in 0 .. CounterMod - 1 /\ evTail \in 0 .. CounterMod - 1
      /\ Ahead \in 0 .. CounterMod - 1
      /\ events \in [Slots -> Events \cup {NoEvent}]
      /\ balance \in [Events -> Int]
  BY Counters DEF TypeOK, Ahead
<1>1. ASSUME NEW x \in IsrEvents, IsrLog(x)
      PROVE  Account'
  <2>1. /\ ~overrun /\ ~raced /\ Account /\ Ahead < RingSize /\ pc \notin LogLabels
    <3>1. ~overrun /\ ~(Ahead >= RingSize) /\ ~raced /\ pc \notin LogLabels
      BY <1>1, Zenon DEF IsrLog
    <3> QED BY <1>0, <3>1
  <2>2. /\ events' = [events EXCEPT ![Slot(evHead)] = x]
        /\ evHead' = Succ(evHead) /\ balance' = Logged(x, 1)
        /\ UNCHANGED <<evTail, pc, event>>
    BY <1>1 DEF IsrLog
  <2>3. /\ Ahead' = Ahead + 1
        /\ Slot(evTail + Ahead) = Slot(evHead)
        /\ \A e : Count(events', evTail, Ahead + 1, e)
                    = Count(events', evTail, Ahead, e)
                      + (IF events'[Slot(evHead)] = e THEN 1 ELSE 0)
    BY <2>1, <2>2, HeadPasses
  <2>4. /\ \A e : Count(events', evTail, Ahead, e) = Count(events, evTail, Ahead, e)
        /\ events'[Slot(evHead)] = x
    <3>1. Ahead \in 0 .. RingSize - 1
      BY <1>0, <2>1
    <3>2. events' = [events EXCEPT ![Slot(evTail + Ahead)] = x]
      BY <2>2, <2>3
    <3>3. /\ \A r \in Slots : r # Slot(evTail + Ahead) => events'[r] = events[r]
          /\ Slot(evTail + Ahead) \in Slots
      BY <1>0, <2>3, <3>2, SlotType
    <3>4. \A e : Count(events', evTail, Ahead, e) = Count(events, evTail, Ahead, e)
      BY ONLY <1>0, <3>1, <3>3, CountOfWrite
    <3>5. events'[Slot(evHead)] = x
      BY <1>0, <2>2, <2>3, <3>3
    <3> QED BY <3>4, <3>5
  <2>5. ASSUME NEW e \in Events
        PROVE  balance'[e] = Count(events', evTail, Ahead + 1, e)
                               + (IF pc = "print" /\ event = e THEN 1 ELSE 0)
    <3>1. balance[e] = Count(events, evTail, Ahead, e)
                         + (IF pc = "print" /\ event = e THEN 1 ELSE 0)
      BY <2>1 DEF Account
    <3>2. balance'[e] = balance[e] + (IF x = e THEN 1 ELSE 0)
      BY <1>0, <2>2, LoggedFacts
    <3>3. Count(events', evTail, Ahead + 1, e)
            = Count(events, evTail, Ahead, e) + (IF x = e THEN 1 ELSE 0)
      BY <2>3, <2>4
    <3>4. Count(events, evTail, Ahead, e) \in Nat
      <4>1. Ahead \in 0 .. RingSize
        BY <1>0, <2>1
      <4> QED BY <1>0, <4>1, CountFacts
    <3> QED BY <3>1, <3>2, <3>3, <3>4
  <2>6. pc = "read" => event = events'[Slot(evTail)]
    <3> SUFFICES ASSUME pc = "read" PROVE event = events'[Slot(evTail)]
      OBVIOUS
    <3>1. Ahead # 0
      BY <1>0, Counters DEF LogBounds, Ahead
    <3>2. 0 \in 0 .. RingSize - 1 /\ Ahead \in 0 .. RingSize - 1 /\ 0 < Ahead
          /\ evTail \in Int /\ evTail + 0 = evTail
      BY <1>0, <2>1, <3>1
    <3>3. Slot(evTail + 0) # Slot(evTail + Ahead)
      BY ONLY <3>2, SlotsApart
    <3>4. Slot(evTail) # Slot(evHead) /\ Slot(evTail) \in Slots
      BY <2>3, <3>2, <3>3, SlotType
    <3> QED BY <1>0, <2>1, <2>2, <3>4 DEF Account
  <2>7. Ahead' \in Int /\ Ahead' <= RingSize
    BY <1>0, <2>1, <2>3
  <2>8. /\ evTail' = evTail /\ pc' = pc /\ event' = event
        /\ pc \notin LogLabels
    BY <2>1, <2>2
  <2>9. /\ pc' \notin {"store", "load", "advance"}
        /\ \A e \in Events : balance'[e] = Count(events', evTail', Ahead', e)
                                          + (IF pc' = "print" /\ event' = e THEN 1 ELSE 0)
    BY <2>3, <2>5, <2>8 DEF LogLabels
  <2> QED BY <2>6, <2>7, <2>8, <2>9 DEF Account
<1>2. CASE FindsEmpty
  <2>1. /\ pc' = "idle" /\ balance' = [e \in Events |-> 0]
        /\ evTail = evHead /\ UNCHANGED <<evHead, evTail, events>>
    BY <1>2 DEF FindsEmpty, At, logVars
  <2>2. Ahead' = 0
    BY <1>0, <2>1, Counters DEF Ahead
  <2>3. \A e : Count(events', evTail', 0, e) = 0
    BY <1>0, <2>1, CountFacts
  <2> QED BY <2>1, <2>2, <2>3 DEF Account, LogLabels
<1> SUFFICES ASSUME ~(\E x \in IsrEvents : IsrLog(x)), ~FindsEmpty
             PROVE  Account'
  BY <1>1, <1>2
<1>3. Account
  <2>1. CASE LogCheck
    BY <2>1, Zenon DEF LogCheck
  <2>2. CASE IsrSend \/ ClearStats \/ LogAdvance \/ BeginSend \/ PrintEvent
    BY <2>2 DEF IsrSend, ClearStats, LogAdvance, BeginSend, PrintEvent
  <2>3. CASE \/ \E x \in MainEvents : BeginLog(x)
             \/ LogIndex \/ LogStore \/ LogLoad \/ EndSend \/ ReadEvent \/ AdvanceTail
             \/ UNCHANGED vars
    BY <2>3 DEF BeginLog, LogIndex, LogStore, LogLoad, EndSend, ReadEvent, AdvanceTail, vars,
                historyVars
  <2> QED BY <2>1, <2>2, <2>3, Steps
<1>4. \A e : Count(events, evTail, Ahead, e) \in Nat
  <2>1. Ahead \in 0 .. RingSize
    BY <1>0, <1>3 DEF Account
  <2> QED BY <1>0, <2>1, CountFacts
<1>5. CASE LogCheck
  <2>1. /\ Ahead < RingSize /\ pc = "check" /\ pc' = "index"
        /\ UNCHANGED <<evHead, evTail, events, event, balance>>
    <3>1. ~(Ahead >= RingSize)
      BY <1>5, Zenon DEF LogCheck
    <3>2. pc = "check" /\ pc' = "index" /\ UNCHANGED <<evHead, evTail, events, event, balance>>
      BY <1>5 DEF LogCheck, At
    <3> QED BY <1>0, <3>1, <3>2
  <2> QED BY <1>3, <2>1 DEF Account, Ahead, LogLabels
<1>6. CASE LogIndex \/ LogLoad
  <2>1. /\ pc \in {"index", "load"}
        /\ pc = "index" => pc' = "store" /\ reg' = Slot(evHead)
        /\ pc = "load" => pc' = "advance" /\ reg' = evHead
        /\ UNCHANGED <<evHead, evTail, events, event, balance>>
    BY <1>6 DEF LogIndex, LogLoad, At, logVars, historyVars
  <2> QED BY <1>3, <2>1 DEF Account, Ahead, LogLabels
<1>7. CASE LogStore
  <2>1. /\ pc = "store" /\ pc' = "load" /\ events' = [events EXCEPT ![reg] = event]
        /\ UNCHANGED <<evHead, evTail, event, balance>>
    BY <1>7 DEF LogStore, At, historyVars
  <2>2. reg = Slot(evHead) /\ Ahead \in 0 .. RingSize - 1
    BY <1>0, <1>3, <2>1 DEF Account, LogLabels
  <2>3. Slot(evTail + Ahead) = Slot(evHead)
    BY <1>0, HeadIsAhead
  <2>4. /\ \A e : Count(events', evTail, Ahead, e) = Count(events, evTail, Ahead, e)
        /\ events'[Slot(evHead)] = event
    <3>1. events' = [events EXCEPT ![Slot(evTail + Ahead)] = event]
      BY <2>1, <2>2, <2>3
    <3>2. /\ \A r \in Slots : r # Slot(evTail + Ahead) => events'[r] = events[r]
          /\ Slot(evTail + Ahead) \in Slots
      BY <1>0, <2>3, <3>1, SlotType
    <3>3. \A e : Count(events', evTail, Ahead, e) = Count(events, evTail, Ahead, e)
      BY ONLY <1>0, <2>2, <3>2, CountOfWrite
    <3>4. events'[Slot(evHead)] = event
      BY <1>0, <2>3, <3>1, <3>2
    <3> QED BY <3>3, <3>4
  <2>5. Ahead' = Ahead
    BY <2>1 DEF Ahead
  <2>6. \A e \in Events : balance[e] = Count(events, evTail, Ahead, e)
    BY <1>3, <1>4, <2>1 DEF Account
  <2>7. \A e \in Events : balance'[e] = Count(events', evTail', Ahead', e) + 0
    <3> SUFFICES ASSUME NEW e \in Events
                 PROVE  balance'[e] = Count(events', evTail', Ahead', e) + 0
      OBVIOUS
    <3>1. /\ balance' = balance /\ evTail' = evTail /\ Ahead' = Ahead
          /\ Count(events', evTail, Ahead, e) = Count(events, evTail, Ahead, e)
          /\ balance[e] = Count(events, evTail, Ahead, e)
      BY <2>1, <2>4, <2>5, <2>6
    <3>2. Count(events, evTail, Ahead, e) + 0 = Count(events, evTail, Ahead, e)
      BY <1>4
    <3> QED BY <3>1, <3>2
  <2>8. Ahead' < RingSize /\ Ahead' <= RingSize /\ Slot(evHead)' = Slot(evHead)
    BY <1>0, <2>1, <2>2, <2>5 DEF Slot
  <2> QED BY <2>1, <2>4, <2>7, <2>8 DEF Account
<1>8. CASE LogAdvance
  <2>1. /\ pc = "advance" /\ pc' = "idle" /\ evHead' = Succ(reg) /\ balance' = Logged(event, 1)
        /\ UNCHANGED <<events, evTail>>
    BY <1>8 DEF LogAdvance, At
  <2>2. Ahead < RingSize /\ reg = evHead /\ events[Slot(evHead)] = event
    BY <1>3, <2>1 DEF Account, LogLabels
  <2>3. /\ Ahead' = Ahead + 1
        /\ \A e : Count(events, evTail, Ahead + 1, e)
                    = Count(events, evTail, Ahead, e) + (IF event = e THEN 1 ELSE 0)
    BY <2>1, <2>2, HeadPasses
  <2>4. \A e \in Events : balance'[e] = balance[e] + (IF event = e THEN 1 ELSE 0)
    BY <1>0, <2>1, LoggedFacts
  <2>5. \A e \in Events : balance[e] = Count(events, evTail, Ahead, e) + 0
    BY <1>3, <2>1 DEF Account
  <2>6. \A e \in Events : balance'[e] = Count(events', evTail', Ahead', e) + 0
    BY <1>4, <2>1, <2>3, <2>4, <2>5
  <2> QED BY <1>0, <2>1, <2>2, <2>3, <2>6 DEF Account, LogLabels
<1>9. CASE ReadEvent
  <2>1. /\ pc = "idle" /\ pc' = "read" /\ event' = events[Slot(evTail)]
        /\ UNCHANGED <<evHead, evTail, events, balance>>
    BY <1>9 DEF ReadEvent, At, logVars, historyVars
  <2> QED BY <1>3, <2>1 DEF Account, Ahead, LogLabels
<1>10. CASE AdvanceTail
  <2>1. /\ pc = "read" /\ pc' = "print" /\ evTail' = Succ(evTail)
        /\ UNCHANGED <<evHead, events, balance, event>>
    BY <1>10 DEF AdvanceTail, At, logVars, historyVars
  <2>2. evTail # evHead /\ event = events[Slot(evTail)] /\ Ahead <= RingSize
    BY <1>3, <2>1 DEF Account, LogBounds
  <2>3. Ahead' = Ahead - 1 /\ Ahead \in 0 .. RingSize /\ Ahead > 0
    <3>1. Ahead' = Ahead - 1
      BY <1>0, <2>1, <2>2, Counters DEF Ahead
    <3>2. Ahead # 0
      BY <1>0, <2>2, Counters DEF Ahead
    <3> QED BY <1>0, <2>2, <3>1, <3>2
  <2>4. \A e : Count(events, Succ(evTail), Ahead - 1, e)
                 = Count(events, evTail, Ahead, e) - (IF event = e THEN 1 ELSE 0)
    BY <1>0, <2>2, <2>3, CountFacts
  <2>5. \A e \in Events : balance[e] = Count(events, evTail, Ahead, e) + 0
    BY <1>3, <2>1 DEF Account
  <2>6. \A e \in Events : balance'[e] = Count(events', evTail', Ahead', e)
                                          + (IF event' = e THEN 1 ELSE 0)
    BY <1>4, <2>1, <2>3, <2>4, <2>5
  <2> QED BY <2>1, <2>3, <2>6 DEF Account, LogLabels
<1>11. CASE PrintEvent
  <2>1. /\ pc = "print" /\ pc' = "idle"
        /\ balance' = IF event = NoEvent THEN balance ELSE Logged(event, -1)
        /\ UNCHANGED <<evHead, evTail, events>>
    BY <1>11 DEF PrintEvent, At, logVars
  <2>2. \A e \in Events : balance'[e] = balance[e] - (IF event = e THEN 1 ELSE 0)
    <3>1. CASE event = NoEvent
      BY <1>0, <2>1, <3>1 DEF Events
    <3>2. CASE event # NoEvent
      <4>1. \A e \in Events : Logged(event, -1)[e] = balance[e] + (IF event = e THEN -1 ELSE 0)
        BY <1>0, LoggedFacts
      <4> QED BY <1>0, <2>1, <3>2, <4>1
    <3> QED BY <3>1, <3>2
  <2>3. \A e \in Events : balance[e] = Count(events, evTail, Ahead, e)
                                         + (IF event = e THEN 1 ELSE 0)
    BY <1>3, <2>1 DEF Account
  <2>4. Ahead' = Ahead
    BY <2>1 DEF Ahead
  <2>5. \A e \in Events : balance'[e] = Count(events', evTail', Ahead', e) + 0
    BY <1>0, <1>4, <2>1, <2>2, <2>3, <2>4
  <2> QED BY <1>3, <2>1, <2>4, <2>5 DEF Account, LogLabels
<1>12. CASE BeginSend \/ EndSend \/ \E x \in MainEvents : BeginLog(x)
  <2>1. /\ pc \in {"idle", "count"} /\ pc' \in {"idle", "count", "check"}
        /\ UNCHANGED <<evHead, evTail, events, balance>>
    BY <1>12 DEF BeginSend, EndSend, BeginLog, At, logVars, historyVars
  <2> QED BY <1>3, <2>1 DEF Account, Ahead, LogLabels
<1>13. CASE IsrSend \/ ClearStats \/ UNCHANGED vars
  <2>1. UNCHANGED <<evHead, evTail, events, balance, pc, reg, event>>
    BY <1>13 DEF IsrSend, ClearStats, vars, logVars, historyVars
  <2> QED BY <1>3, <2>1 DEF Account, Ahead
<1> QED BY <1>5, <1>6, <1>7, <1>8, <1>9, <1>10, <1>11, <1>12, <1>13, Steps

-----------------------------------------------------------------------------
(* The invariant, from boot on.                                            *)
LEMMA InitInv == Init => EventInv
<1> SUFFICES ASSUME Init PROVE EventInv
  OBVIOUS
<1>1. TypeOK
  <2>1. events \in [Slots -> Events \cup {NoEvent}] /\ balance \in [Events -> Int]
    BY SMT DEF Init
  <2>2. 0 \in 0 .. CounterMod - 1
    OBVIOUS
  <2>3. /\ evHead = 0 /\ evTail = 0 /\ evOverflows = 0 /\ txPacketsSent = 0
        /\ pc = "idle" /\ event = NoEvent /\ reg = 0 /\ logged = 0 /\ sends = 0
        /\ raced = FALSE /\ overrun = FALSE /\ cleared = FALSE
    BY DEF Init
  <2>4. /\ evHead \in 0 .. CounterMod - 1 /\ evTail \in 0 .. CounterMod - 1
        /\ evOverflows \in 0 .. 1 /\ txPacketsSent \in Nat /\ reg \in Nat
        /\ logged \in Nat /\ sends \in Nat
    BY <2>2, <2>3
  <2>5. event \in Events \cup {NoEvent}
    BY <2>3
  <2>6. raced \in BOOLEAN /\ overrun \in BOOLEAN /\ cleared \in BOOLEAN
    BY <2>3
  <2> QED BY <2>1, <2>3, <2>4, <2>5, <2>6 DEF TypeOK
<1>2. Ahead = 0
  BY Counters DEF Init, Ahead
<1>3. LogBounds
  BY <1>2 DEF Init, LogBounds, LogLabels
<1>4. CountBounds
  BY DEF Init, CountBounds
<1>5. Account
  <2>1. \A e : Count(events, evTail, 0, e) = 0
    BY CountFacts DEF Init
  <2> QED BY <1>2, <2>1 DEF Init, Account, LogLabels
<1> QED BY <1>1, <1>3, <1>4, <1>5 DEF Init, EventInv

(* It is kept by every step of the handlers and of main.                   *)
LEMMA EventInvariant == Spec => []EventInv
<1>1. EventInv /\ [Next]_vars => EventInv'
  BY TypeStep, BoundsStep, CountStep, OverrunStep, AccountStep DEF EventInv
<1> QED BY InitInv, <1>1, PTL DEF Spec

(* However handlers and main interleave, evHead is never set back behind   *)
(* evTail and no counter counts what did not happen.                       *)
THEOREM LogNeverFallsBehind == Spec => [](TypeOK /\ NeverBehind /\ CountsNothingElse)
<1>1. EventInv => TypeOK /\ NeverBehind /\ CountsNothingElse
  BY DEF EventInv, LogBounds, CountBounds, NeverBehind, CountsNothingElse
<1> QED BY <1>1, EventInvariant, PTL

(* While no handler logs in the middle of main's own logging, every event  *)
(* is printed as often as it was logged unless the ring was overrun, and   *)
(* an overrun that lost events shows in evOverflows.                       *)
THEOREM LossesAreKnown == Spec => [](ExactUnlessHit /\ DropsAreCounted)
<1>1. ASSUME EventInv, ~overrun, ~raced, pc \in {"idle", "count"}
      PROVE  /\ \A e \in Events : balance[e] >= 0
             /\ evTail = evHead => \A e \in Events : balance[e] = 0
  <2>1. Account /\ TypeOK
    BY <1>1 DEF EventInv
  <2>2. evHead \in 0 .. CounterMod - 1 /\ evTail \in 0 .. CounterMod - 1
    BY <2>1 DEF TypeOK
  <2>3. Ahead \in 0 .. RingSize /\ (evTail = evHead => Ahead = 0)
    BY <2>1, <2>2, Counters DEF Account, Ahead
  <2>4. \A e : /\ Count(events, evTail, Ahead, e) \in Nat
               /\ Ahead = 0 => Count(events, evTail, Ahead, e) = 0
    <3>1. Ahead \in 0 .. RingSize
      BY <2>3
    <3>2. \A e : Count(events, evTail, Ahead, e) \in Nat
      BY <2>2, <3>1, CountFacts
    <3>3. Ahead = 0 => \A e : Count(events, evTail, Ahead, e) = 0
      BY <2>2, <3>1, CountFacts
    <3> QED BY <3>2, <3>3
  <2>5. \A e \in Events : balance[e] = Count(events, evTail, Ahead, e) + 0
    BY <1>1, <2>1 DEF Account
  <2> QED BY <2>3, <2>4, <2>5
<1>2. EventInv => ExactUnlessHit
  BY <1>1 DEF ExactUnlessHit
<1>3. EventInv => DropsAreCounted
  <2> SUFFICES ASSUME EventInv, evOverflows = 0, ~raced, ~cleared, pc = "idle", evTail = evHead
               PROVE  \A e \in Events : balance[e] = 0
    BY DEF DropsAreCounted
  <2>1. ~overrun
    BY DEF EventInv
  <2> QED BY <1>1, <2>1
<1> QED BY <1>2, <1>3, EventInvariant, PTL

===============================================================================
