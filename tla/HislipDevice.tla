---------------------------- MODULE HislipDevice ------------------------------
(***************************************************************************)
(* hislipfront: GPIB instruments as devices of a HiSLIP server.            *)
(*                                                                         *)
(* NewDevice wraps an instrument once for each optional capability it has. *)
(* RemoteLocal turns a remote/local mode of IVI-6.1 Table 25 into up to    *)
(* three calls of the GPIB driver, and returns at the first that fails.    *)
(* The bus is shared: REN and local lockout are lines and commands for all *)
(* instruments on it.                                                      *)
(***************************************************************************)
EXTENDS Sequences, SequencesExt

CONSTANTS
  Instruments,    (* the instruments on the bus                            *)
  NoInstrument    (* no call is under way                                  *)

ASSUME InstrumentAssumption == NoInstrument \notin Instruments

VARIABLES
  caps,           (* instrument |-> its optional capabilities              *)
  ren,            (* the REN line is asserted                              *)
  lockout,        (* local lockout is in force                             *)
  remote,         (* the instruments in remote mode                        *)
  target,         (* the instrument RemoteLocal is called for              *)
  mode,           (* its mode                                              *)
  todo,           (* the driver calls it has still to make                 *)
  result,         (* "none" while it runs, then "ok" or "error"            *)
  before,         (* the bus as the call found it                          *)
  addressed       (* target has been addressed to listen since it returned *)

bus == <<ren, lockout, remote>>
callVars == <<target, mode, todo, result, before, addressed>>
deviceVars == <<caps, bus, callVars>>

-----------------------------------------------------------------------------
(* NewDevice.                                                              *)
Capabilities == {"ServiceRequestSource", "DeviceResetter", "DeviceInfo"}

(* The wrappers, from the innermost to the outermost.                      *)
NewDevice(c) ==
  SelectSeq(<<"ServiceRequestSource", "DeviceResetter", "DeviceInfo">>,
            LAMBDA k : k \in c)

(* The capabilities a type assertion finds in a device.  A wrapper embeds  *)
(* server.Device, an interface of the required methods only, so it has     *)
(* those and its own, whatever the value it wraps has besides.             *)
Asserted(device) == IF device = <<>> THEN {} ELSE {Last(device)}

-----------------------------------------------------------------------------
(* RemoteLocalMode.Effects, of the HiSLIP library: Table 25.               *)
Modes == {"DisableRemote", "EnableRemote", "DisableRemoteGoToLocal",
          "EnableRemoteGoToRemote", "EnableRemoteLockoutLocal",
          "EnableRemoteGoToRemoteLockoutLocal", "GoToLocal"}

Invalid == "Invalid"

Effect(m, true, false) ==
  IF m \in true THEN "True" ELSE IF m \in false THEN "False" ELSE "NoChange"

Effects(m) ==
  LET off == {"DisableRemote", "DisableRemoteGoToLocal"}
  IN  [RemoteEnable |-> Effect(m, Modes \ (off \cup {"GoToLocal"}), off),
       LocalLockout |-> Effect(m, {"EnableRemoteLockoutLocal",
                                   "EnableRemoteGoToRemoteLockoutLocal"}, off),
       Remote       |-> Effect(m, {"EnableRemoteGoToRemote",
                                   "EnableRemoteGoToRemoteLockoutLocal"},
                                  off \cup {"GoToLocal"})]

(* RemoteLocal: the driver calls of a mode, in order.  Mutants: lockout    *)
(* before REN; GoToLocal by dropping REN.                                  *)
Call(op, value) == IF value = "NoChange" THEN <<>> ELSE <<[op |-> op, on |-> value = "True"]>>

GoToLocalCall(e) ==
  IF e.Remote = "False" /\ e.RemoteEnable = "NoChange"
    THEN <<[op |-> "GoToLocal", on |-> TRUE]>>
    ELSE <<>>

PlanLockoutFirst(m) ==
  IF m = Invalid THEN <<>>
  ELSE LET e == Effects(m) IN
         Call("LocalLockout", e.LocalLockout) \o Call("RemoteEnable", e.RemoteEnable) \o GoToLocalCall(e)

PlanDropsRen(m) ==
  IF m = Invalid THEN <<>>
  ELSE LET e == Effects(m) IN
         Call("RemoteEnable", IF m = "GoToLocal" THEN "False" ELSE e.RemoteEnable)
           \o Call("LocalLockout", e.LocalLockout)

Plan(m) ==
  IF m = Invalid THEN <<>>
  ELSE LET e == Effects(m) IN
         Call("RemoteEnable", e.RemoteEnable) \o Call("LocalLockout", e.LocalLockout) \o GoToLocalCall(e)

-----------------------------------------------------------------------------
(* The bus, as IEEE 488.1 has it: without REN every instrument is local    *)
(* and nothing is locked out.                                              *)
RemoteEnable(on) ==
  /\ ren' = on
  /\ lockout' = (lockout /\ on)
  /\ remote' = IF on THEN remote ELSE {}

LocalLockout(on) ==
  /\ lockout' = (on /\ ren)
  /\ UNCHANGED <<ren, remote>>

GoToLocal ==
  /\ remote' = remote \ {target}
  /\ UNCHANGED <<ren, lockout>>

Do(call) ==
  \/ call.op = "RemoteEnable" /\ RemoteEnable(call.on)
  \/ call.op = "LocalLockout" /\ LocalLockout(call.on)
  \/ call.op = "GoToLocal" /\ GoToLocal

-----------------------------------------------------------------------------
DeviceInit ==
  /\ caps \in [Instruments -> SUBSET Capabilities]
  /\ ren \in BOOLEAN
  /\ lockout = FALSE
  /\ remote = {}
  /\ target = NoInstrument
  /\ mode = Invalid
  /\ todo = <<>>
  /\ result = "ok"
  /\ before = bus
  /\ addressed = FALSE

(* Write, Clear and Trigger, whether the driver reports an error or not:   *)
(* each addresses the instrument to listen, and one that is addressed so   *)
(* while REN is asserted goes remote.  Read and ReadStatusByte address it  *)
(* to talk, and leave the bus as it is.                                    *)
Listens(i) ==
  /\ result # "none"
  /\ remote' = IF ren THEN remote \cup {i} ELSE remote
  /\ addressed' = (addressed \/ i = target)
  /\ UNCHANGED <<caps, ren, lockout, target, mode, todo, result, before>>

(* The server calls RemoteLocal.                                           *)
RemoteLocal(i, m) ==
  /\ result # "none"
  /\ target' = i
  /\ mode' = m
  /\ todo' = Plan(m)
  /\ result' = IF Plan(m) = <<>> THEN "ok" ELSE "none"
  /\ before' = bus
  /\ addressed' = FALSE
  /\ UNCHANGED <<caps, bus>>

(* The next driver call succeeds, and with the last one RemoteLocal.       *)
Succeeds ==
  /\ result = "none"
  /\ Do(Head(todo))
  /\ todo' = Tail(todo)
  /\ result' = IF Tail(todo) = <<>> THEN "ok" ELSE "none"
  /\ UNCHANGED <<caps, target, mode, before, addressed>>

(* Mutant: the error is kept, and the other calls are made all the same.   *)
FailsGoesOn ==
  /\ result = "none"
  /\ Do(Head(todo)) \/ UNCHANGED bus
  /\ todo' = Tail(todo)
  /\ result' = "error"
  /\ UNCHANGED <<caps, target, mode, before, addressed>>

(* It fails, with or without effect on the bus: RemoteLocal returns the    *)
(* error.                                                                  *)
Fails ==
  /\ result = "none"
  /\ Do(Head(todo)) \/ UNCHANGED bus
  /\ todo' = <<>>
  /\ result' = "error"
  /\ UNCHANGED <<caps, target, mode, before, addressed>>

DeviceNext ==
  \/ \E i \in Instruments : Listens(i)
  \/ \E i \in Instruments, m \in Modes \cup {Invalid} : RemoteLocal(i, m)
  \/ Succeeds
  \/ Fails

DeviceSpec == DeviceInit /\ [][DeviceNext]_deviceVars

-----------------------------------------------------------------------------
DeviceTypeOK ==
  /\ caps \in [Instruments -> SUBSET Capabilities]
  /\ ren \in BOOLEAN
  /\ lockout \in BOOLEAN
  /\ remote \subseteq Instruments
  /\ target \in Instruments \cup {NoInstrument}
  /\ mode \in Modes \cup {Invalid}
  /\ todo \in Seq([op : {"RemoteEnable", "LocalLockout", "GoToLocal"}, on : BOOLEAN])
  /\ result \in {"none", "ok", "error"}
  /\ result = "none" <=> todo # <<>>
  /\ before \in BOOLEAN \X BOOLEAN \X SUBSET Instruments
  /\ addressed \in BOOLEAN

(* What Table 25 has of REN, of lockout and of an instrument that goes     *)
(* local is so when RemoteLocal returns no error, whatever calls failed    *)
(* half-way before it, and stays so; a line the mode does not speak of has *)
(* the value it had.  What it has of an instrument that goes remote is not *)
(* so yet: the comment at device.go:57-62 calls it a side effect of        *)
(* RemoteEnable(true), but none of the driver calls addresses the          *)
(* instrument.  It is as remote as it was until the next command that it   *)
(* listens to, and that one makes it remote.                               *)
Returned == target # NoInstrument /\ result = "ok" /\ mode # Invalid

Follows(effect, now, was) ==
  /\ effect = "True" => now
  /\ effect = "False" => ~now
  /\ effect = "NoChange" => now = was

ModeTakesEffect ==
  Returned =>
    LET e == Effects(mode) IN
      /\ Follows(e.RemoteEnable, ren, before[1])
      /\ Follows(e.LocalLockout, lockout, before[2])
      /\ e.Remote = "True" => (target \in remote <=> addressed \/ target \in before[3])
      /\ e.Remote # "True" /\ ~addressed =>
           Follows(e.Remote, target \in remote, target \in before[3])

(* A call that failed half-way leaves alone what its mode does not speak   *)
(* of, and brings no line to a value that the mode does not give it.       *)
FailureStaysWithinMode ==
  result = "error" =>
    LET e == Effects(mode) IN
      /\ ren # before[1] => Follows(e.RemoteEnable, ren, before[1])
      /\ lockout # before[2] => Follows(e.LocalLockout, lockout, before[2])

(* NewDevice's comment says the whole set composes: no capability that an  *)
(* instrument has is lost by wrapping it for another one.                  *)
CapabilitiesCompose == \A i \in Instruments : caps[i] \subseteq Asserted(NewDevice(caps[i]))

=============================================================================
