------------------------------- MODULE EventLog -------------------------------
(***************************************************************************)
(* The firmware's diagnostics: the events ring and the counters in stats.  *)
(*                                                                         *)
(* Both are written from two contexts.  The USB interrupt handlers log     *)
(* (evRx, evTxFired, evTxDone) and count, and run to completion; main logs *)
(* (evNotReady ... evSendStart) and counts too, one load or store at a     *)
(* time, and the handlers may run between any two of them.  Main alone     *)
(* takes events out and prints them, after it has emptied the receive      *)
(* ring.  Of the counters written from both contexts, evOverflows is here  *)
(* and txPacketsSent, which sendPacket increments.                         *)
(*                                                                         *)
(* balance, logged, sends, raced, overrun and cleared are history.         *)
(***************************************************************************)
EXTENDS Integers

CONSTANTS
  RingSize,       (* len(events): 32                                       *)
  CounterMod,     (* evHead and evTail are uint32: 2^32                    *)
  IsrEvents,      (* the events handlers log                               *)
  MainEvents,     (* the events main logs                                  *)
  NoEvent,        (* what a slot holds before its first event              *)
  MaxSends,       (* bound: the packets sent between two clears            *)
  MaxLogged       (* bound: the events logged before main finds none left  *)

ASSUME EventAssumption ==
  /\ RingSize \in Nat \ {0}
  /\ CounterMod \in Nat
  /\ CounterMod > RingSize
  /\ CounterMod % RingSize = 0
  /\ NoEvent \notin IsrEvents \cup MainEvents
  /\ MaxSends \in Nat
  /\ MaxLogged \in 1 .. CounterMod - 2

VARIABLES
  evHead,         (* evHead                                                *)
  evTail,         (* evTail                                                *)
  events,         (* events: slot |-> event                                *)
  evOverflows,    (* stats.evOverflows, up to 1                            *)
  txPacketsSent,  (* stats.txPacketsSent                                   *)
  pc,             (* where main is                                         *)
  event,          (* the event main logs, or has taken out to print        *)
  reg,            (* the value main has loaded and will store back         *)
  balance,        (* event |-> how often it was logged less how often it   *)
                  (* was taken out                                         *)
  sends,          (* the packets sent since the counters were cleared      *)
  logged,         (* the events logged since main last found none left     *)
  raced,          (* since then a handler has logged while main was        *)
  overrun,        (* since then an event was logged to a full ring         *)
  cleared         (* since then the counters were cleared                  *)

logVars == <<evHead, events, evOverflows>>
historyVars == <<balance, logged, sends, raced, overrun, cleared>>
vars == <<logVars, evTail, txPacketsSent, pc, event, reg, historyVars>>

Events == IsrEvents \cup MainEvents

Slots == 0 .. RingSize - 1

Slot(c) == c % RingSize

(* Mutant of Succ: the counter does not wrap.                              *)
UnwrappedSucc(c) == c + 1

Succ(c) == (c + 1) % CounterMod

Ahead == (evHead - evTail) % CounterMod

LogLabels == {"check", "index", "store", "load", "advance"}

Logged(e, by) == [balance EXCEPT ![e] = @ + by]

-----------------------------------------------------------------------------
Init ==
  /\ evHead = 0
  /\ evTail = 0
  /\ events = [s \in Slots |-> NoEvent]
  /\ evOverflows = 0
  /\ txPacketsSent = 0
  /\ pc = "idle"
  /\ event = NoEvent
  /\ reg = 0
  /\ balance = [e \in Events |-> 0]
  /\ logged = 0
  /\ sends = 0
  /\ raced = FALSE
  /\ overrun = FALSE
  /\ cleared = FALSE

-----------------------------------------------------------------------------
(* Mutant of Full: one event too late.                                     *)
OverFull == Ahead > RingSize

(* logEvent's test for an overflow.                                        *)
Full == Ahead >= RingSize

(* logEvent in a handler.                                                  *)
IsrLog(e) ==
  /\ evOverflows' = IF Full THEN 1 ELSE evOverflows
  /\ events' = [events EXCEPT ![Slot(evHead)] = e]
  /\ evHead' = Succ(evHead)
  /\ balance' = Logged(e, 1)
  /\ logged' = logged + 1
  /\ raced' = (raced \/ pc \in LogLabels)
  /\ overrun' = (overrun \/ Ahead >= RingSize)
  /\ UNCHANGED <<evTail, txPacketsSent, pc, event, reg, sends, cleared>>

(* sendPacket in usbtmcTxHandler: stats.txPacketsSent++.                   *)
IsrSend ==
  /\ txPacketsSent' = txPacketsSent + 1
  /\ sends' = sends + 1
  /\ UNCHANGED <<logVars, evTail, pc, event, reg, balance, logged, raced, overrun, cleared>>

-----------------------------------------------------------------------------
(* logEvent in processPacket or startSend, access by access.               *)
At(label) == pc = label

BeginLog(e) ==
  /\ At("idle")
  /\ pc' = "check"
  /\ event' = e
  /\ UNCHANGED <<logVars, evTail, txPacketsSent, reg, historyVars>>

LogCheck ==
  /\ At("check")
  /\ evOverflows' = IF Full THEN 1 ELSE evOverflows
  /\ overrun' = (overrun \/ Ahead >= RingSize)
  /\ pc' = "index"
  /\ UNCHANGED <<evHead, events, evTail, txPacketsSent, event, reg, balance, logged, sends,
                  raced, cleared>>

LogIndex ==
  /\ At("index")
  /\ reg' = Slot(evHead)
  /\ pc' = "store"
  /\ UNCHANGED <<logVars, evTail, txPacketsSent, event, historyVars>>

LogStore ==
  /\ At("store")
  /\ events' = [events EXCEPT ![reg] = event]
  /\ pc' = "load"
  /\ UNCHANGED <<evHead, evOverflows, evTail, txPacketsSent, event, reg, historyVars>>

LogLoad ==
  /\ At("load")
  /\ reg' = evHead
  /\ pc' = "advance"
  /\ UNCHANGED <<logVars, evTail, txPacketsSent, event, historyVars>>

(* Mutant of LogAdvance: it skips a slot.                                  *)
LogAdvanceSkips ==
  /\ At("advance")
  /\ evHead' = Succ(Succ(reg))
  /\ balance' = Logged(event, 1)
  /\ logged' = logged + 1
  /\ event' = NoEvent
  /\ reg' = 0
  /\ pc' = "idle"
  /\ UNCHANGED <<events, evOverflows, evTail, txPacketsSent, sends, raced, overrun, cleared>>

LogAdvance ==
  /\ At("advance")
  /\ evHead' = Succ(reg)
  /\ balance' = Logged(event, 1)
  /\ logged' = logged + 1
  /\ event' = NoEvent
  /\ reg' = 0
  /\ pc' = "idle"
  /\ UNCHANGED <<events, evOverflows, evTail, txPacketsSent, sends, raced, overrun, cleared>>

(* sendPacket in startSend: the packet is sent, the counter is loaded ...  *)
BeginSend ==
  /\ At("idle")
  /\ sends' = sends + 1
  /\ reg' = txPacketsSent
  /\ pc' = "count"
  /\ UNCHANGED <<logVars, evTail, txPacketsSent, event, balance, logged, raced, overrun, cleared>>

(* ... and stored.                                                         *)
EndSend ==
  /\ At("count")
  /\ txPacketsSent' = reg + 1
  /\ reg' = 0
  /\ pc' = "idle"
  /\ UNCHANGED <<logVars, evTail, event, historyVars>>

(* The drain loop of main: e := events[evTail%len] ...                     *)
ReadEvent ==
  /\ At("idle")
  /\ evTail # evHead
  /\ event' = events[Slot(evTail)]
  /\ pc' = "read"
  /\ UNCHANGED <<logVars, evTail, txPacketsSent, reg, historyVars>>

(* ... evTail++ ...                                                        *)
AdvanceTail ==
  /\ At("read")
  /\ evTail' = Succ(evTail)
  /\ pc' = "print"
  /\ UNCHANGED <<logVars, txPacketsSent, event, reg, historyVars>>

(* ... printEvent(e).  A slot skipped by a lost store prints what it held  *)
(* before, which is then counted as printed once too often.                *)
PrintEvent ==
  /\ At("print")
  /\ balance' = IF event = NoEvent THEN balance ELSE Logged(event, -1)
  /\ event' = NoEvent
  /\ pc' = "idle"
  /\ UNCHANGED <<logVars, evTail, txPacketsSent, reg, logged, sends, raced, overrun, cleared>>

(* The drain loop ends; what was lost is not made up for later.            *)
FindsEmpty ==
  /\ At("idle")
  /\ evTail = evHead
  /\ balance' = [e \in Events |-> 0]
  /\ logged' = 0
  /\ raced' = FALSE
  /\ overrun' = FALSE
  /\ cleared' = FALSE
  /\ UNCHANGED <<logVars, evTail, txPacketsSent, pc, event, reg, sends>>

(* Mutant of ClearStats: it forgets the counter of sent packets.           *)
ClearStatsForgets ==
  /\ At("idle")
  /\ evOverflows' = 0
  /\ sends' = 0
  /\ cleared' = TRUE
  /\ UNCHANGED <<evHead, events, evTail, txPacketsSent, pc, event, reg, balance, logged, raced,
                  overrun>>

(* runCommand's "clear", typed at the debug console.                       *)
ClearStats ==
  /\ At("idle")
  /\ evOverflows' = 0
  /\ txPacketsSent' = 0
  /\ sends' = 0
  /\ cleared' = TRUE
  /\ UNCHANGED <<evHead, events, evTail, pc, event, reg, balance, logged, raced, overrun>>

Logging == LogCheck \/ LogIndex \/ LogStore \/ LogLoad \/ LogAdvance

Drain == ReadEvent \/ AdvanceTail \/ PrintEvent \/ FindsEmpty

Next ==
  \/ \E e \in IsrEvents : logged < MaxLogged /\ IsrLog(e)
  \/ sends < MaxSends /\ IsrSend
  \/ \E e \in MainEvents : logged < MaxLogged /\ BeginLog(e)
  \/ Logging
  \/ sends < MaxSends /\ BeginSend
  \/ EndSend
  \/ Drain
  \/ ClearStats

Spec == Init /\ [][Next]_vars

-----------------------------------------------------------------------------
TypeOK ==
  /\ evHead \in 0 .. CounterMod - 1
  /\ evTail \in 0 .. CounterMod - 1
  /\ events \in [Slots -> Events \cup {NoEvent}]
  /\ evOverflows \in 0 .. 1
  /\ txPacketsSent \in Nat
  /\ pc \in {"idle", "check", "index", "store", "load", "advance", "count", "read", "print"}
  /\ event \in Events \cup {NoEvent}
  /\ reg \in Nat
  /\ balance \in [Events -> Int]
  /\ logged \in Nat
  /\ sends \in Nat
  /\ raced \in BOOLEAN
  /\ overrun \in BOOLEAN
  /\ cleared \in BOOLEAN

(* As long as no handler logs while main does, and the ring is not         *)
(* overrun, each event is printed as often as it was logged: nothing is    *)
(* printed that was not logged, and an empty ring has everything printed.  *)
ExactUnlessHit ==
  ~raced /\ ~overrun /\ pc \in {"idle", "count"} =>
    /\ \A e \in Events : balance[e] >= 0
    /\ evTail = evHead => \A e \in Events : balance[e] = 0

(* The log never falls behind its reader: however the handlers and main    *)
(* interleave, a lost evHead++ does not set evHead back past evTail, where *)
(* the drain loop would print its way round the whole width of the counter *)
(* before it ends, but leaves at most as many events to print as were      *)
(* logged.                                                                 *)
NeverBehind == Ahead <= logged

(* A counter never counts what did not happen.                             *)
CountsNothingElse == txPacketsSent <= sends

(* Unless a handler has logged while main did, what evOverflows (debug.go: *)
(* "events ring was full; oldest unread event was dropped") has not        *)
(* counted was not lost: with the counter at zero since main last found    *)
(* the ring empty, an empty ring has everything printed.                   *)
DropsAreCounted ==
  evOverflows = 0 /\ ~raced /\ ~cleared /\ pc = "idle" /\ evTail = evHead =>
    \A e \in Events : balance[e] = 0

=============================================================================
