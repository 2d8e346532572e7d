-------------------------------- MODULE RxRing --------------------------------
(***************************************************************************)
(* The receive ring of cmd/firmware/main.go.  usbtmcRxHandler, in USB      *)
(* interrupt context, copies every packet of the bulk-OUT endpoint into    *)
(* rxRing and advances rxHead; main's loop takes slots at rxTail and feeds *)
(* them to the reassembler.  The core is single: the interrupt handler     *)
(* runs to completion, and may run between any two steps of the loop.      *)
(*                                                                         *)
(* The loop advances rxTail before it reads the slot, and reads the slot   *)
(* a word at a time (the length first, for the slice expression, then the  *)
(* bytes that append copies), so a slot is in use for longer than the      *)
(* difference of the two counters says.                                    *)
(*                                                                         *)
(* Of the handler's diagnostics only rxOverflows, the account it gives of  *)
(* this ring, is here; the other counters and the events have their own    *)
(* module.                                                                 *)
(***************************************************************************)
EXTENDS Integers, Sequences

CONSTANTS
  RingSize,       (* rxRingSize: 8                                         *)
  CounterMod,     (* rxHead and rxTail are uint32: 2^32                    *)
  Words,          (* the memory accesses it takes to copy a slot           *)
  Packets,        (* the packets a host may send                           *)
  NoPacket,       (* what a slot holds before its first packet             *)
  MaxBacklog,     (* bound: how far ahead of the loop a host runs          *)
  MaxOverflows    (* bound: how many overflows a run counts                *)

ASSUME RingAssumption ==
  /\ RingSize \in Nat \ {0}
  /\ CounterMod \in Nat
  /\ CounterMod > RingSize
  /\ CounterMod % RingSize = 0
  /\ Words \in Nat \ {0}
  /\ NoPacket \notin Packets

ASSUME BoundAssumption ==
  /\ MaxBacklog \in 1 .. CounterMod - 1
  /\ MaxOverflows \in Nat

VARIABLES
  rxHead,         (* rxHead: slots filled so far                           *)
  rxTail,         (* rxTail: slots taken so far                            *)
  rxRing,         (* rxRing: slot |-> its words                            *)
  pc,             (* where main's loop is                                  *)
  idx,            (* main's idx: the slot it took                          *)
  copied,         (* the words of the slot read so far                     *)
  rxOverflows     (* stats.rxOverflows                                     *)

vars == <<rxHead, rxTail, rxRing, pc, idx, copied, rxOverflows>>

Slots == 0 .. RingSize - 1

(* A slot that was written in one go: every word is of the same packet.    *)
Whole(p) == [w \in 1..Words |-> p]

(* What the words of a copy amount to: a packet, or a mixture of two.      *)
PacketOf(words) == IF words = Whole(words[1]) THEN words[1] ELSE NoPacket

(* uint32 arithmetic on the counters, and the bug of widening them.        *)
UnwrappedNext(c) == c + 1
Succ(c) == (c + 1) % CounterMod

Slot(c) == c % RingSize

(* rxHead-rxTail: the slots filled and not yet taken.                      *)
Occupancy == (rxHead - rxTail) % CounterMod

-----------------------------------------------------------------------------
(* The firmware boots with its counters and slots zero.                    *)
Boot ==
  /\ rxHead = 0
  /\ rxTail = 0
  /\ rxRing = [s \in Slots |-> Whole(NoPacket)]
  /\ pc = "poll"
  /\ idx = 0
  /\ copied = <<>>
  /\ rxOverflows = 0

(* Main has caught up with the handler: the state after boot, and again    *)
(* each time the loop has emptied the ring, with whatever counters and     *)
(* contents the packets before left behind.                                *)
CaughtUp ==
  /\ rxHead \in 0 .. CounterMod - 1
  /\ rxTail = rxHead
  /\ \E content \in [Slots -> Packets \cup {NoPacket}] :
       rxRing = [s \in Slots |-> Whole(content[s])]
  /\ pc = "poll"
  /\ idx = 0
  /\ copied = <<>>
  /\ rxOverflows = 0

-----------------------------------------------------------------------------
(* Mutant: rxHead++ moved before the packet is stored.                     *)
RxHandlerAdvancesFirst(p) ==
  /\ rxHead' = Succ(rxHead)
  /\ rxRing' = [rxRing EXCEPT ![Slot(rxHead')] = Whole(p)]
  /\ rxOverflows' = IF Occupancy >= RingSize THEN rxOverflows + 1 ELSE rxOverflows
  /\ UNCHANGED <<rxTail, pc, idx, copied>>

(* Mutant: an overflow is taken for one when the slots are exceeded.       *)
RxHandlerCountsLate(p) ==
  /\ rxOverflows' = IF Occupancy > RingSize THEN rxOverflows + 1 ELSE rxOverflows
  /\ rxRing' = [rxRing EXCEPT ![Slot(rxHead)] = Whole(p)]
  /\ rxHead' = Succ(rxHead)
  /\ UNCHANGED <<rxTail, pc, idx, copied>>

(* usbtmcRxHandler: an overflow is counted and nothing else follows from   *)
(* it: the packet is stored and rxHead advances all the same, and rxTail   *)
(* stays.                                                                  *)
RxHandler(p) ==
  /\ rxOverflows' = IF Occupancy >= RingSize THEN rxOverflows + 1 ELSE rxOverflows
  /\ rxRing' = [rxRing EXCEPT ![Slot(rxHead)] = Whole(p)]
  /\ rxHead' = Succ(rxHead)
  /\ UNCHANGED <<rxTail, pc, idx, copied>>

(* Mutants: rxTail++ moved before idx, and forgotten.                      *)
TakeSlotAdvancesFirst ==
  /\ pc = "poll"
  /\ rxTail # rxHead
  /\ rxTail' = Succ(rxTail)
  /\ idx' = Slot(rxTail')
  /\ pc' = "copy"
  /\ UNCHANGED <<rxHead, rxRing, copied, rxOverflows>>

TakeSlotKeepsTail ==
  /\ pc = "poll"
  /\ rxTail # rxHead
  /\ idx' = Slot(rxTail)
  /\ pc' = "copy"
  /\ UNCHANGED <<rxHead, rxTail, rxRing, copied, rxOverflows>>

(* main: for rxTail != rxHead { idx := rxTail % rxRingSize; rxTail++       *)
TakeSlot ==
  /\ pc = "poll"
  /\ rxTail # rxHead
  /\ idx' = Slot(rxTail)
  /\ rxTail' = Succ(rxTail)
  /\ pc' = "copy"
  /\ UNCHANGED <<rxHead, rxRing, copied, rxOverflows>>

(* The next word of rxRing[idx] is read: its len for the slice expression, *)
(* then its bytes, by the append of Feed.                                  *)
CopyWord ==
  /\ pc = "copy"
  /\ copied' = Append(copied, rxRing[idx][Len(copied) + 1])
  /\ pc' = IF Len(copied) + 1 = Words THEN "process" ELSE "copy"
  /\ UNCHANGED <<rxHead, rxTail, rxRing, idx, rxOverflows>>

(* The rest of processPacket works on Feed's copy; the loop goes round.    *)
Processed ==
  /\ pc = "process"
  /\ pc' = "poll"
  /\ copied' = <<>>
  /\ UNCHANGED <<rxHead, rxTail, rxRing, idx, rxOverflows>>

(* The ring was seen empty: events, console, heartbeat and Sleep, during   *)
(* which packets may come in, and then the next tick.                      *)
EndDrain ==
  /\ pc = "poll"
  /\ rxTail = rxHead
  /\ pc' = "tick"
  /\ UNCHANGED <<rxHead, rxTail, rxRing, idx, copied, rxOverflows>>

NextTick ==
  /\ pc = "tick"
  /\ pc' = "poll"
  /\ UNCHANGED <<rxHead, rxTail, rxRing, idx, copied, rxOverflows>>

(* runCommand's "clear": stats = firmwareStats{}.                          *)
ClearStats ==
  /\ pc = "tick"
  /\ rxOverflows' = 0
  /\ UNCHANGED <<rxHead, rxTail, rxRing, pc, idx, copied>>

Main == TakeSlot \/ CopyWord \/ Processed \/ EndDrain \/ NextTick

-----------------------------------------------------------------------------
(* A host that sends whatever it likes, whenever it likes: nothing in the  *)
(* firmware holds it back.  The two bounds keep the model finite.          *)
Burst(p) ==
  /\ Occupancy < MaxBacklog
  /\ rxOverflows < MaxOverflows
  /\ RxHandler(p)

Next ==
  \/ \E p \in Packets : Burst(p)
  \/ Main
  \/ ClearStats

Spec == Boot /\ [][Next]_vars /\ WF_vars(Main)

(* A host that leaves the loop time to keep up: it never has more packets  *)
(* under way than there are slots the loop is not using.  The slot being   *)
(* copied is in use although rxTail has passed it.                         *)
InCopy == IF pc = "copy" THEN 1 ELSE 0

Room == Occupancy + InCopy < RingSize

Paced(p) == Room /\ RxHandler(p)

PacedNext ==
  \/ \E p \in Packets : Paced(p)
  \/ Main
  \/ ClearStats

PacedSpec == CaughtUp /\ [][PacedNext]_vars /\ WF_vars(Main)

-----------------------------------------------------------------------------
TypeOK ==
  /\ rxHead \in 0 .. CounterMod - 1
  /\ rxTail \in 0 .. CounterMod - 1
  /\ rxRing \in [Slots -> [1..Words -> Packets \cup {NoPacket}]]
  /\ pc \in {"poll", "copy", "process", "tick"}
  /\ idx \in Slots
  /\ copied \in Seq(Packets \cup {NoPacket})
  /\ Len(copied) \in CASE pc = "copy" -> 0 .. Words - 1
                       [] pc = "process" -> {Words}
                       [] OTHER -> {0}
  /\ rxOverflows \in Nat

(* Why the ring is a queue while the host is paced: the slots not yet done *)
(* with fit in the ring, every slot was written in one go, and the slot    *)
(* main copies is the one just behind rxTail, which the handler cannot     *)
(* reach before the copy is complete.                                      *)
PacedInv ==
  /\ Occupancy + InCopy <= RingSize
  /\ \A s \in Slots : rxRing[s] = Whole(rxRing[s][1])
  /\ pc = "copy" =>
       /\ Slot(idx + 1) = Slot(rxTail)
       /\ \A w \in 1 .. Len(copied) : copied[w] = rxRing[idx][1]
  /\ pc = "process" => copied = Whole(copied[1])

(* The queue the ring stands for: what it holds from rxTail up to rxHead,  *)
(* the packet in the slot main took, and the packet main's copy is.        *)
Waiting == [k \in 1..Occupancy |-> rxRing[Slot(rxTail + k - 1)][1]]

Taken == IF pc = "copy" THEN <<rxRing[idx][1]>> ELSE <<>>

Handed == IF pc = "process" THEN <<PacketOf(copied)>> ELSE <<>>

Queue == INSTANCE PacketQueue WITH
  queue <- Waiting, taken <- Taken, handed <- Handed

(* While the host is paced, the ring is a queue: every packet reaches the  *)
(* reassembler once, whole, in the order of arrival, however the handler   *)
(* interleaves with the loop and wherever the uint32 counters wrap.        *)
RingIsAQueue == Queue!Spec

(* Whenever the host stops sending, the loop empties the ring and gets to  *)
(* the rest of its body (events, console, heartbeat).  While the host does *)
(* not stop, it need not.                                                  *)
DrainsWhenHostPauses ==
  <>[][rxHead' = rxHead]_vars => []<>(pc = "tick")

(* debug.go says of rxOverflows that it counts the packets dropped because *)
(* rxRing was full.  An arrival that overwrites a slot main has not        *)
(* finished with is counted, but for one case: the slot main is copying,   *)
(* which rxTail has passed already.                                        *)
InUse(s) ==
  \/ \E k \in 0 .. Occupancy - 1 : s = Slot(rxTail + k)
  \/ pc = "copy" /\ s = idx

OverwritesAreCounted ==
  [][rxHead' # rxHead /\ InUse(Slot(rxHead)) /\ rxOverflows' = rxOverflows =>
       pc = "copy" /\ Slot(rxHead) = idx]_vars

=============================================================================
