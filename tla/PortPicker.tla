------------------------------ MODULE PortPicker ------------------------------
(***************************************************************************)
(* The port picker of cmd/debugconsole: a list of serial ports that        *)
(* follows the ports there are, and the choice of one of them.             *)
(*                                                                         *)
(* Update handles one message at a time.  The commands it returns run at   *)
(* once, each in a goroutine of its own, so that their messages arrive in  *)
(* any order: a timer of rescanTick scans when it fires, what it found is  *)
(* handled some time later, and starts the next timer.  Such a chain of    *)
(* rescans is known by where it is: its timer runs, or its result waits.   *)
(***************************************************************************)
EXTENDS Integers, SequencesExt

CONSTANTS
  Ports,          (* the serial ports there may be                         *)
  NoPort,         (* none is chosen                                        *)
  Timer,          (* a chain's timer runs                                  *)
  MaxChains       (* bound: the chains of rescans                          *)

(* What a user of this module has to grant.                                *)
PickerAssumption ==
  /\ NoPort \notin Ports
  /\ Timer \notin [ok : BOOLEAN, ports : SUBSET Ports]
  /\ MaxChains \in Nat \ {0, 1}

VARIABLES
  ports,          (* the ports there are                                   *)
  failing,        (* scans fail                                            *)
  chains,         (* chain |-> Timer, or its rescanMsg not yet handled     *)
  list,           (* m.list's items                                        *)
  scanErr,        (* m.err # nil                                           *)
  chosen,         (* m.chosen                                              *)
  canceled,       (* m.canceled                                            *)
  running         (* the program runs                                      *)

systemVars == <<ports, failing>>
modelVars == <<list, scanErr, chosen, canceled>>
vars == <<systemVars, chains, modelVars, running>>

(* What a scan finds.                                                      *)
ScanError == [ok |-> FALSE, ports |-> {}]

Found == {[ok |-> TRUE, ports |-> P] : P \in SUBSET Ports} \cup {ScanError}

(* scanPorts.                                                              *)
Scan == IF failing THEN ScanError ELSE [ok |-> TRUE, ports |-> ports]

(* newPickerModel, and the commands of pickerModel.Init: the first scan    *)
(* and a timer, each the first of a chain.                                 *)
Init ==
  /\ ports \in SUBSET Ports
  /\ failing \in BOOLEAN
  /\ chains = <<Scan, Timer>>
  /\ list = {}
  /\ scanErr = FALSE
  /\ chosen = NoPort
  /\ canceled = FALSE
  /\ running = TRUE

-----------------------------------------------------------------------------
(* Boards are plugged in and out; the system's list of ports may fail.     *)
Plug(p) ==
  /\ running
  /\ ports' = IF p \in ports THEN ports \ {p} ELSE ports \cup {p}
  /\ UNCHANGED <<failing, chains, modelVars, running>>

Trouble ==
  /\ running
  /\ failing' = ~failing
  /\ UNCHANGED <<ports, chains, modelVars, running>>

(* rescanTick: a second is over, and its function scans.                   *)
Tick(i) ==
  /\ running
  /\ i \in DOMAIN chains
  /\ chains[i] = Timer
  /\ chains' = [chains EXCEPT ![i] = Scan]
  /\ UNCHANGED <<systemVars, modelVars, running>>

(* A result is handled: a list that was found is shown, an error leaves    *)
(* the list as it was.                                                     *)
Handles(s) ==
  /\ scanErr' = ~s.ok
  /\ list' = IF s.ok THEN s.ports ELSE list

(* Mutant: after an error no timer is started.                             *)
RescanStopsOnError(i) ==
  /\ running
  /\ i \in DOMAIN chains
  /\ chains[i] # Timer
  /\ Handles(chains[i])
  /\ chains' = IF chains[i].ok THEN [chains EXCEPT ![i] = Timer] ELSE RemoveAt(chains, i)
  /\ UNCHANGED <<systemVars, chosen, canceled, running>>

(* Update on a rescanMsg.                                                  *)
Rescan(i) ==
  /\ running
  /\ i \in DOMAIN chains
  /\ chains[i] # Timer
  /\ Handles(chains[i])
  /\ chains' = [chains EXCEPT ![i] = Timer]
  /\ UNCHANGED <<systemVars, chosen, canceled, running>>

(* Update on the key r: the scan is done at once, and its result, too,     *)
(* starts a timer once it is handled.                                      *)
KeyR ==
  /\ running
  /\ Len(chains) < MaxChains
  /\ chains' = Append(chains, Scan)
  /\ UNCHANGED <<systemVars, modelVars, running>>

(* Update on enter: the item that is selected, if there is one.            *)
KeyEnter(p) ==
  /\ running
  /\ p \in list
  /\ chosen' = p
  /\ running' = FALSE
  /\ UNCHANGED <<systemVars, chains, list, scanErr, canceled>>

(* Update on q, esc or ctrl+c.                                             *)
KeyQuit ==
  /\ running
  /\ canceled' = TRUE
  /\ running' = FALSE
  /\ UNCHANGED <<systemVars, chains, list, scanErr, chosen>>

Next ==
  \/ \E p \in Ports : Plug(p)
  \/ Trouble
  \/ \E i \in DOMAIN chains : Tick(i) \/ Rescan(i)
  \/ KeyR
  \/ \E p \in Ports : KeyEnter(p)
  \/ KeyQuit

(* Timers fire, and each message is handled in the end.                    *)
Fairness ==
  \A i \in 1 .. MaxChains : WF_vars(Tick(i)) /\ WF_vars(Rescan(i))

Spec == Init /\ [][Next]_vars /\ Fairness

-----------------------------------------------------------------------------
TypeOK ==
  /\ ports \subseteq Ports
  /\ {failing, scanErr, canceled, running} \subseteq BOOLEAN
  /\ chains \in Seq(Found \cup {Timer}) /\ Len(chains) <= MaxChains
  /\ list \subseteq Ports
  /\ chosen \in Ports \cup {NoPort}

(* A board plugged in after the picker opened shows up, and one that is    *)
(* gone disappears, without a key pressed: once the ports stay as they are *)
(* and can be scanned, the list comes to agree with them for good, however *)
(* late the results of earlier scans arrive.                               *)
Settled(P) == ports = P /\ ~failing

ListFollowsPorts ==
  \A P \in SUBSET Ports : <>[]Settled(P) => <>[](~running \/ (list = P /\ ~scanErr))

=============================================================================
