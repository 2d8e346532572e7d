# tmc-gateway in TLA+

This directory is a verification project for the gateway in `src/`: the
firmware that turns a Raspberry Pi Pico into a USBTMC device in front of a GPIB
bus (`cmd/firmware`, `usbep`, `usbtmcfront`, `gpib`), the HiSLIP front end
(`hislipfront`) and the debug console that runs on a PC (`cmd/debugconsole`).

Contents: [the system](#the-system) — [the plan](#the-plan) —
[modules and code](#modules-and-code) — [runs and bounds](#runs-and-bounds) —
[fairness](#fairness) — [proofs](#proofs) —
[where code and comments disagree](#where-code-and-comments-disagree) —
[what is not modelled](#what-is-not-modelled) — [how to run it](#how-to-run-it).

## The system

```
 host ──bulk OUT──> usbtmcRxHandler ──rxRing──> main loop ──Reassembler──> Handler ──> gpib.Instrument
   ^                 (interrupt)                   │                         │
   │                                               │ startSend <──response───┘
   └──bulk IN── usbtmcTxHandler <──ChunkSender─────┘
                 (interrupt)
      both handlers and main ──logEvent──> events ring ──> main loop ──> CDC console ──> debugconsole
```

The firmware has one core and two contexts. The USB interrupt handlers run to
completion and may run between any two memory accesses of main; main runs one
loop with a 100 ms sleep in it and shares its variables with the handlers
without locks or atomics.

| component | state | operations | with whom | what is hard | what makes it correct |
|---|---|---|---|---|---|
| receive ring and main loop, `cmd/firmware/main.go` | `rxRing`, `rxHead`, `rxTail`, `stats.rxOverflows` | `usbtmcRxHandler`; the loop's take, `processPacket`, tick | the handler produces, main consumes | the slot is read after `rxTail` has passed it; overflow does not drop anything; uint32 counters wrap; the drain loop has no bound | packets once, whole, in order while the host is paced; exact again after an empty ring; overwrites counted; the loop gets to its other work |
| bulk-IN transmission, `main.go`, `usbep/chunk.go` | `txPending`, `sender.{data,offset,sentFinal}`, the endpoint's buffer | `startSend`, `Start`, `Next`, `chunk`, `sendPacket`, `usbtmcTxHandler` | main starts, the completion interrupt continues | `Start` and `Next` on the same fields from two contexts; empty last packets; failed sends; a host that gives up and asks again | the host gets each response whole, in order, ended by one short packet |
| bulk-OUT reassembly, `usbep/reassemble.go` | `r.buf` | `Feed`, `messageLength` | fed by main, its messages go to `Handler` | messages cut anywhere into packets, padding, packets lost before; a declared length for which an `int` has no room | a message comes out once, as sent; bad bytes do not block later messages |
| event log and counters, `main.go`, `debug.go` | `events`, `evHead`, `evTail`, `stats` | `logEvent`, the drain loop, `printEvent`, `clear` | handlers and main write, main reads | two producers on one ring; counters incremented in two contexts | the reader never runs off; lost events are counted; counters do not count what was not |
| USBTMC front end, `usbtmcfront/handler.go` | no state of its own; the instrument's input and unread answer | `HandleBulkOut` and a handler per message type, `payloadBytes` | called by main, calls `gpib.Instrument` | a declared size in a 32-bit `int`; answers read in parts; failing instrument calls | the instrument hears what the host said, the host gets what was read |
| HiSLIP front end, `hislipfront/device.go` | the wrapped instrument; the bus's REN and lockout | `NewDevice`, `RemoteLocal`, pass-through methods | called by a HiSLIP server, calls `gpib.Instrument` | a mode is one or two driver calls and each may fail; capabilities told by type assertion | Table 25's effect on REN, lockout and going local after success, nothing beyond it after failure; the capabilities an instrument has |
| GPIB instrument, `gpib/instrument.go` | — | interfaces only | — | — | — |
| port picker, `cmd/debugconsole/picker.go` | list, error, choice; timers and scans under way | `scanPorts`, `rescanTick`, `Update`, `pickPort` | bubbletea's messages | results in any order; failing scans; rescans keep themselves alive | the list follows the ports for ever |
| console screen, `cmd/debugconsole/{main,model}.go` | `lines`, `rawMode`, `lastErr` | `pumpLines`, `sendCommand`, `Update` | the serial port, bubbletea | each command is its own goroutine; the scrollback is cut only by output | the board's lines in order and without a gap; echoes as written |
| firmware console, `cmd/firmware/debug.go` | `cmdBuf`, `cmdLen`, `stats` | `pollDebugConsole`, `runCommand` | main | a line longer than the buffer | each line written runs once, in order, and is answered |
| the firmware from end to end, `processPacket` in `main.go` | all of the above | a message from its packets to the instrument, a response from there to the host | the parts, by calls and through `rxRing` and the endpoint | errors are counted and the host is told nothing; the next message may come while main is busy with the last | what is issued is performed once and in order; a reply is to the request it answers, whole; nothing issued is left undone; silence is never uncounted |
| USB descriptor, `usbdescriptor.go` | constants | — | — | — | — |
| `tinygocheck`, `scripts/netlist-check.py`, `hardware/`, `docs/` | — | build check, a script over the netlist, schematics and their text | — | — | — |

The hazards of this code, each at its line and with the properties that would
notice it, are listed in `PROJECT.json`.

## The plan

The order is by what a test on a PC can reach least: what runs between two
instructions of an interrupted loop first, pure code last.

1. **Done.** The three paths of the firmware's data, each with an abstract
   specification it is shown to implement: `RxRing` (`PacketQueue`), `UsbTx`
   (`BulkIn`), `Reassembler` (`MessageStream`), with proofs.
2. **Done.** The parts around them, model-checked: `EventLog`, `UsbTmcFront`,
   `HislipDevice`.
3. **Done.** The program at the other end of the serial line, model-checked:
   `PortPicker` and `Console`, composed by `DebugConsole`.
4. **Done.** The composition: `Firmware` puts reassembler, handler and
   transmission together behind the queue that the ring implements, and is shown
   to implement `InstrumentService`, with driver calls and sends that fail.
   `Handler` is what it shares with `UsbTmcFront`.
5. **Done.** The 32-bit `int` of `Reassembler.messageLength`, messages that
   declare anything, and lost packets in `MessageStream`.
6. **Done.** Proofs of the rest of the firmware and of `HislipDevice`: the
   safety properties of all runs but `debugconsole`, the hosts that do not wait
   included, and `ServiceImplemented`.
7. **Done.** Proofs about `DebugConsole`, from the choice of the port to what is
   on the screen and what the firmware has run.
8. `RemoteLocal` of two sessions at once on one bus, once the repository has a
   GPIB driver whose locking can be modelled.

All modules keep to what this needs: parameters are CONSTANTS with named
assumptions as weak as the code allows, an operation of the code is an action,
invariants are conjunctions of named parts, and there is no RECURSIVE operator.

## Modules and code

**`RxRing`** — `usbtmcRxHandler` is the action `RxHandler`, in one step because
it runs to completion. Main's loop is taken apart where a handler can see the
difference: `TakeSlot` (the test, `idx`, `rxTail++`), then `CopyWord` once for
each of the `Words` accesses of the copy that `Feed`'s append makes, then
`Processed` (the rest of `processPacket`, which works on the copy), `EndDrain`
and `NextTick`. `ClearStats` is the console's `clear`. A slot is a function from
words to the packet each word came from, so that a torn copy is a value of its
own. Packets are model values: the ring does not look into them. Two hosts are
given: `Spec` starts at `Boot` and lets the host send whenever it wants to,
within two bounds; `PacedSpec` starts wherever main has caught up, with any
counter values and any old slot contents, and has a host that keeps the slots
waiting *and the slot main copies* to at most `RingSize`. `PacketQueue` is the
abstract specification, a FIFO queue whose consumer takes a packet and later
hands it on. **`RxRingHistory`** adds the queue the comments promise, with its
oldest packet dropped on overflow, as history variables.

**`UsbTx`** — main's `startSend` is a step for each access of what it shares with
the interrupt, in the order of the source: `Accept` (`txPending = true`);
`StartData`, once for each word of the slice `c.data` (pointer, length and
capacity, in any order); `StartOffset` and `StartSentFinal`; of `chunk`,
`ChunkEnd` and `ChunkSlice`, which load `c.offset` one after the other,
`ChunkAdvance` and `ChunkMark`; and `StartSend` (`sendPacket`). The capacities
of the responses' slices are a parameter, as a slice expression is in range up
to the capacity. A compiler that keeps `c.offset` in a register between its two
loads, or merges stores, leaves out some of these interleavings.
`usbtmcTxHandler` with `Next` and `chunk` is one action, `TxHandler`, with an alternative for each of its
outcomes. A packet is the slice of a response it carries; a response is known
by its length. The endpoint has room for one packet. A packet taken by the host
leaves `completion` pending, and main does not run while it is. `Ask`, `Receive`
and `GiveUp` are the host. A patient host (`HostGivesUp = FALSE`) gives up only
when nothing moves any more (`Resting`), which is where a failed send leaves it;
the transmission broken off stays pending on the board. `BulkIn` is the endpoint
as the host is promised it.

**`Reassembler`** — the buffer is abstracted to its length, the message whose
bytes it begins with, where in that message, and for how many bytes it goes on
without a gap: what `Feed` needs to find a header and a length, and what the
properties need to see a message with bytes of two transfers in it, or with less
than a header (`Mangled`). `MessageLength` is the sum of header and declared
size in an `int` of `IntMod` values; a negative one ends the firmware in
`r.buf[:want]` (`Panicked`). What messages declare is free; `WellFormed` says
that they are what they declare. Bytes from the middle of a message are taken
never to pass for a header (a message identifier, a tag and its complement):
where the buffer does not begin with the beginning of a message, `Feed` finds
its prefix corrupt. Payload that looks like a header is not modelled, and
`RecoversFromLoss` and all that is said of losses depend on this.
`Feed` is one action, with an operator for each outcome of the code. `Begin`,
`Packet` and `Lose` are the host's transfers: a message padded to a multiple of
four, cut into packets that are full but the last, of which any may be lost
before it gets to `Feed` (by an overflow of the ring). `MessageStream` is the
abstract specification: one message owed at a time, and it comes out as sent,
unless its transfer is spoilt by a loss.

**`EventLog`** — `logEvent` in a handler is one action, `IsrLog`; in main it is
five, one for each access that a handler may come between. The drain loop is
`ReadEvent`, `AdvanceTail`, `PrintEvent`, `FindsEmpty`. Of the counters,
`evOverflows` is kept up to 1 (is it zero?) and `txPacketsSent` stands for those
that both contexts increment.

**`Handler`** — what `usbtmcfront.Handler` makes of a message, and the instrument
behind it, with operators for the outcomes of `payloadBytes` (`Refused`,
`OutOfRange`, `Sliced`). The end of the payload is computed modulo `IntMod`, as
the target's `int` does it. Messages and answers are lengths. **`UsbTmcFront`**
adds the host, whose messages need not have come through a `Reassembler`.
`DevDepMsgOut` has an alternative for each outcome of `HandleBulkOut` and
`payloadBytes` (`Reject`, `Panic`, `Write`, `WriteFails`), `Read` and `ReadFails`
are the two outcomes of a request. A read may return nothing, with END when
nothing is left, which is all that the repository's stub instrument ever
returns (`main.go:54`). What the host said and got is kept beside what the
instrument heard and gave. The host has said what it has sent, also when the
handler returns an error, of which it is not told: `fault` records a write that
failed and a message that did not carry what it declares, the only reasons for
the two to differ, until both begin a program message again; `lost` is what
failing reads took.

**`Firmware`** — `Reassembler`, `Handler` and `UsbTx` as instances that share
their variables. `Process` is `processPacket` up to `startSend`: `Feed`, then
`HandleBulkOut` on the message it returned (`HandleWrite`, `HandleRequest`,
`HandleTrigger`, `HandleUnknown`, each with the outcomes of the driver call), and
then a response for `startSend` (`Sends`), an error counted (`CountsError`) or
neither (`Silent`). What `Feed` returns has the header that the buffer begins
with, and that is what the handler goes by: also when the bytes behind it are of
several transfers, or of fewer bytes than a header (`Returned`). `calls` counts the calls of the
instrument, modulo 2, so that a call too many or too few is seen. `Transmit` and
`TxHandler` are `UsbTx`'s. The ring is the queue that theorem
`RingImplementsQueue` shows it to be while the host keeps to its size, and the
host does. `issued` is a history variable, the messages
whose transfers have begun and which the handler was not yet called with; a call
with another message than the next of them puts it in a state that nothing
explains (`Takes`). `honest` is another: every message so far was `Sendable`,
that is, as long as `messageLength` makes it out to be; or that sum has wrapped
to less than a header, and then none of its packets is shorter than a header.
`counted` is whether `handleErrors` or `txSendFailures` went up since
the host's last message began. **`InstrumentService`** is the abstract
specification: the instrument is called once for each message issued, in order,
but for those that may be refused (`Refusable`: not as long as they declare, or
of an unknown type); and a reply is what was read for the request the host waits
for, whole, or there is none. It is refined with its list of messages as
`issued` and its reply under way as `asked`, by every step up to the one with
which the host sends something that is not `Sendable`. From there on the code
keeps no such promise: where it takes a message for longer than it is, it puts
the next ones into it; where a message ends in a packet shorter than a header
that belongs to nothing, this packet stays in the buffer and spoils the next
(`reassembler_wedged`). That what was issued does come to the handler is
`NothingLeftUndone`. `PartsAssumption` repeats what the parts assume of their constants,
since an instance does not bring its module's assumptions with it.

**`HislipDevice`** — its specification is `DeviceSpec`, with `DeviceInit` and
`DeviceNext`. `NewDevice` is the sequence of wrappers, `Asserted` what a
type assertion finds on the result. `RemoteLocal` plans the driver calls of its
mode, and each call is a step that succeeds, or fails with or without an effect
on the bus. `Listens` is what `Write`, `Clear` and `Trigger` do to it: they
address the instrument to listen. `Read` and `ReadStatusByte` do nothing to it.
`RemoteEnable(true)` asserts REN and makes no instrument remote, as in IEEE 488.1:
`addressed` records whether one was addressed since `RemoteLocal`, which does.

**`PortPicker`** — what keeps the rescans going is a chain: a timer of
`rescanTick`, then what its function found, waiting to be handled, then the timer
which that handling starts. `Tick(i)` and `Rescan(i)` are the two steps of chain
`i`, so that results are handled in any order. `Init` starts two chains, the
first scan and a timer, and each key `r` one more. Ports come and go and scans
fail at any time.

**`Console`** — the screen on the PC and the firmware's line buffer, with the
serial line between them. Each `sendCommand` is a goroutine: `Write` or
`WriteFails`, and `SentMsg` or `ErrMsg` when `Update` handles its message.
`pumpLines` is `Scan` and `ScanEnds`, its lines arrive with `LineMsg`. The keys
are actions of their own (`User`). On the board main gets to
`pollDebugConsole` (`Poll`), where `ReadByte` is one turn of the loop, and leaves it
when nothing is buffered (`PollEnds`), which may be before bytes under way
arrive; `Beat` is a line of main's that answers nothing. A byte
is a command and a place in it, so that a line put together from two commands,
or cut short, is a value of its own; the answer to a line carries the bytes it
answers. Commands under way may be written in any order, as goroutines are: what
is promised begins with the write. The properties count positions: `Shown` is
how many of the lines printed `Update` has had, `Below` how many lines of the
board are under one on the screen, `Ran` how many lines the firmware has run.

**`DebugConsole`** — main: the picker runs, then the port chosen is opened
(`OpenPort`) or the program gives up (`GivesUp`), and the screen runs on it. A
step of one part leaves the other's variables alone. `PickerAssumption` and
`ConsoleAssumption` are granted here.

**`CounterArithmetic`** states the facts about `%` that ring counters, padding
and signed ints need. The proofs about a module are in a module of their own,
**`RxRingProofs`** (also about `RxRingHistory`), **`UsbTxProofs`**,
**`ReassemblerProofs`**, **`EventLogProofs`**, **`FrontEndProofs`** (about
`UsbTmcFront` and `HislipDevice`), **`FirmwareProofs`** and
**`DebugConsoleProofs`**. An `MC` module gives a module's constants their values for TLC. Next to
an operation there may be a variant of it, commented as a mutant: a plausible
bug in that code, with which TLC finds a property violated (`PROJECT.json`,
"mutants"). No specification uses them.

## Runs and bounds

| run | what it shows | bounds, and why they are enough |
|---|---|---|
| `rxring_paced` | A ring with a paced host is a FIFO queue: every packet reaches the reassembler once, whole and in order. | A ring of 4, counters of two laps, a copy of three words, two packets: every combination of a copy under way, a full ring and a wrapped counter occurs, from every content. The theorems below are for all values. |
| `rxring_free` | Without pacing: exact until the handler runs into the loop, and again once main has found the ring empty; the only overwrite not counted is that of the slot being copied; when the host pauses main gets to its tick. | A ring of 2 overrun by 2, which is a full lap: the handler meets each slot, the one in use included. Three packets tell the oldest, the newest and one between apart. |
| `usbtx_patient` | A host that waits while anything moves is given each response whole, in order, and ended by one short packet; `Next` never runs before `Start`'s packet was sent. | Packet size 64; lengths 0, 12, 63, 64 (twice), 65, 128, 190: around every multiple that matters, with no, one and two full packets before the last. |
| `usbtx_impatient` | Whatever a host does that gives up and asks again, and whatever sends fail: the sender panics in two windows only, from the first word of `c.data` to the store of `c.offset`, and between `chunk`'s two loads of `c.offset`, where it is main's own slice expression. | Two requests waiting for main; the same lengths and capacities, so that a longer response follows and is followed by a shorter one. |
| `reassembler` | With any losses: a transfer that finds the buffer empty and loses nothing comes out once, whole, with its last packet; and when transfers end in at least a header's bytes messages come out again after the losses. | Sizes of a header, and around one, two and three packets with each padding, each with long last packets. Well-formed messages; others are in `firmware`. |
| `reassembler_wedged` | Violation: with last packets shorter than a header one loss can stop messages for good. | Adds transfers of 68 and 136 bytes. |
| `eventlog` | However handlers interrupt main's logging, evHead never falls behind evTail, and nothing is lost without a count unless such an interruption did it. | A ring of 2 overrun by 2, counters of three laps; four events between two empty rings, so that an interrupted log meets a full ring. |
| `usbtmcfront` | Whatever is declared, with or without padding: the instrument hears what the host told it, unless a write failed or a message fell short of what it declares; the host gets what was read but for failing reads, and is told of the end of the answer just when nothing is left; no slice expression fails but where an `int` has no room. | A 6-bit `int` with sizes at 0, in range, at the sum's limit, and for sums that are negative, zero and less than a header; messages of up to five bytes in parts. |
| `hislipdevice` | `RemoteLocal` brings about what Table 25 has of REN, lockout and going local, whatever failed before; an instrument that is to go remote is left to the next command; a failure changes nothing its mode does not speak of. | Two instruments are enough to see a call reach the wrong one. Every mode, every failure, every set of capabilities. |
| `hislipdevice_compose` | Violation: of several optional capabilities only the last one wrapped is found. | As before. |
| `debugconsole` | From the list of ports to a screen: the list comes to agree with the ports; the screen shows the board's lines in order and without a gap, echoes are of what was written, the board runs what was written, and answers arrive if main polls on. | Two ports; three chains of rescans, the two of `Init` and one of key `r`, with their scans and results in any order (`MaxChains`). Two commands under way at once, one that fits in `cmdBuf` and one that is longer by a byte; heartbeats between; a scrollback of two lines, which two answers and their echoes exceed. |
| `firmware` | From packets to the instrument and back: the instrument is called once and in order for what an honest host issues, none of which is left undone; the reply it is given is what was read for its request and whole; a host is left in silence only by an error that was counted, and not while anything moves for ever; where a declared size panics, it is in `Feed`, and never in the handler behind it, whatever the host sends. | Packets of 2 bytes and headers of 1, a ring of 2. A write of two packets, a trigger, a message of no known type, two requests of different tags; a write of which part is never sent, after which messages are spliced; a size to which a 4-bit `int` cannot add the header, and one with which the sum is less than a header. Answers of 0 and 2 bytes with at most 2 in a response, so that an answer is read at once, in parts or not at all, and a response is one packet, empty but for its header, or one and an empty one, or two. |

Four runs do not check for deadlock: the debug console's program ends, and a
panic ends the firmware in `usbtmcfront`, `usbtx_impatient` and `firmware`. In all others a state
without a successor would be an error.

The type invariants bound what they can: a copy is as long as `pc` says, a
packet is there exactly from `chunk` to `send`, the calls to do are empty exactly
when `RemoteLocal` has returned.

## Fairness

- `RxRing`: weak fairness of `Main`, none of the handler. The loop never blocks
  on anything but `Sleep`, so a step of it that stays possible is taken. Nothing
  is assumed about the host, so a host that never pauses may keep the loop in
  its first half for ever; `DrainsWhenHostPauses` says only what is left.
- `UsbTx`: weak fairness of `Main`, of `TxHandler` (a pending interrupt is
  served) and of `Receive`: a host that waits for a response keeps sending IN
  tokens. `Answered` is checked with sends that succeed (`SendMayFail = FALSE`); without this it is not
  true, since nothing tries a failed packet again.
- `Reassembler`: weak fairness of `Host`, the sending of the next packet or
  message; `RecoversFromLoss` assumes that losses end.
- `Firmware`: weak fairness of `Main` and `TxHandler` as in `UsbTx`, and of a host
  that goes on with what it has begun: it sends the packets of its transfer and
  takes those of a reply. Not that it begins a message, nor that it gives up.
- `PortPicker`: weak fairness, for each chain, of `Tick` (its timer fires) and of
  `Rescan` (its message is handled). None of the user or of the system's ports.
- `Console`: weak fairness of each goroutine (`Write` or `WriteFails`), of the
  handling of its message, of `Scan` and `LineMsg`; and strong fairness of
  `ReadByte`: if main polls again and again while bytes are under way, one of the
  polls finds some. That main does is not assumed, since nothing ends its drain
  loop (`DrainsWhenHostPauses`): `Poll` has no fairness, and `AnswersAreShown`
  has it as its premise (`PollsOn`). None of the user, of heartbeats or of
  unplugging; that an answer gets to the screen does not depend on any of them.
- The other modules have safety properties only, and no fairness.

## Proofs

Checked by `tlapm`, for every value of the constants that the modules'
assumptions admit:

- **The ring is a queue** (`RxRingProofs`). `TypeCorrect` and `PacedTypeCorrect`
  for the two specifications; `PacedInvariant`; and `RingImplementsQueue`, the
  refinement of `PacketQueue`. Assumed is `RingAssumption`: the counter's range
  is a multiple of the ring's size (2^32 and 8) and larger than it. If it were not a multiple,
  slot and difference would disagree after a wrap. Type correctness is not
  inductive for the queue: that the copy is whole needs that the handler does
  not write the slot main reads, which `rxHead` and `rxTail` alone do not say,
  since `rxTail` is already past it. `PacedInv` relates `idx` to `rxTail` while
  a copy is under way, counts the slot in use with the waiting ones, and keeps
  every slot whole. The argument then is about slots: two counters less than a
  ring apart have different slots (`SlotApart`), on whatever side of the wrap.
- **Under any host the ring recovers and counts** (`RxRingProofs`).
  `ExactAgainAfterEmpty`: main gets the packet it is due until the handler has
  run into the loop, and again once it has found the ring empty. An empty ring
  is one from which `PacedInv` holds again, whatever overruns came before:
  `HistoryInv` says that slots are always whole, and that until the ring is
  lapped `PacedInv` holds and the packets due are those in the slots.
  `LossesAreCounted` is about single steps: what `usbtmcRxHandler` writes over
  without counting it can only be the slot being copied.
- **A patient host's responses arrive whole** (`UsbTxProofs`), whether packets
  fail to be loaded or not: `PatientInvariant`, `ContractKept` (no `Next`
  before the packet of `Start` is sent, no panic) and `ResponsesWhole`, the
  refinement of `BulkIn`. Assumed is `~HostGivesUp`: the host gives up only at
  rest. `PatientInv` has a part for
  each phase: nothing of a response is in the endpoint until main sends it
  (`RequestInv`), `Start` is never interrupted by a completion (`StartInv`), and
  while the response streams, the sender is at the end of the packet in the
  endpoint or of the one the host has just taken (`StreamInv`).
- **Any host's responses panic in two windows** (`UsbTxProofs`), one that gives up
  and asks again at the worst moment included: `OnlyPanicIsInStart`, with no
  assumption but the module's, for slices of any capacity. `AnyHostInv` follows the accesses of
  `Start`: outside of the two windows the offset is within the data, and the end
  that main slices to is not behind it.
- **Messages come out whole** (`ReassemblerProofs`), under any losses:
  `CleanTransfers`, and `MessagesWhole`, the refinement of `MessageStream`.
  Assumed is `WellFormed`: a message is as long as it declares and an `int` has
  room for that, and a message type without a length is a header. The
  strengthening, `CleanInv`, says that up to the last packet of a clean transfer
  the buffer is just what was sent of it, which is not yet the whole message.
  `NothingElseKept` needs neither: whatever messages declare, what stays in the
  buffer is the beginning of a message that may still come out.
- **The event log** (`EventLogProofs`). `LogNeverFallsBehind` holds however the
  handlers interrupt main. `NeverBehind` alone is not inductive: between main's
  load of `evHead` and its store a handler may advance it, and the store sets it
  back. `LogBounds` says how far: the value loaded is one `evHead` had since
  `evTail` last moved, so it is not behind `evTail`. Assumed is
  `MaxLogged <= CounterMod - 2`: between two times main finds the log empty,
  fewer events are logged than the counter has values (2^32 in the code); with
  more, `evHead` could go once around. `CountBounds` is the same argument for
  `txPacketsSent`. `LossesAreKnown` holds while no handler logs inside main's
  logging: `Account` says that what was logged and not taken out is, event for
  event, what the slots between the two counters hold (`Count`, a cardinality),
  and the lemmas say what a step at each end does to that number.
- **The USBTMC front end** (`FrontEndProofs`): `HostAndInstrumentAgree`, for
  any sizes declared, any division of messages and answers, and any int with an
  even number of values. The properties are inductive with the types; the work is in
  `PayloadEndFacts`, that a slice expression in range takes what the header
  declares, although the sum of header and size may have wrapped
  (`SignedSum` of `CounterArithmetic`), and in `RejectStep`: a message with all
  the bytes it declares is never refused, with padding or without.
- **What RemoteLocal has of Table 25** (`FrontEndProofs`): `RemoteLocalEffects`, for
  any number of instruments and from any state of the bus. `Midway` is what the
  two properties need of the time between: either no call of the mode was made,
  or there are two and REN is as the mode has it; no mode has three calls
  (`PlanCases`).
- **The firmware as a whole** (`FirmwareProofs`), in three steps, each an
  inductive invariant on top of the one before. The lemmas of `UsbTxProofs` and
  `ReassemblerProofs` are used through instances of these modules with the
  substitutions that `Firmware` makes; `SameTx` and `SameReasm` say that an
  instance of the proofs is about the definitions `Firmware` uses.
  - `HandlerNeverPanics`: no slice expression of the handler or the sender goes
    out of range, only `Feed`'s. No assumption is made of what messages declare
    or of how much of them is sent: messages spliced by `Feed` go to the handler
    as in the code.
    `SafeInv` has the phases of `UsbTxProofs`, that a request comes out of
    `Feed` with its first packet if at all (`OnlyWritesWait`), and that there is
    one request at a time on the way to main or answered (`OneRequest`), which
    is what lets the transmission be taken for that to a patient host.
  - `ServicePerformed`: the refinement of `InstrumentService`. `TrackInv`, for
    an honest host,
    says what the queue, the buffer and `issued` have to do with each other: the
    packets in the queue, and what the host has still to send, are cut from
    the messages in `issued` in order and without a gap (`Cut`, `InOrder`,
    `AreIssued`), and the buffer holds what came before the next one (`Fed`).
  - `SilenceMeansAnError`: an honest host that waits, and for which no error was
    counted, has its request in the queue, or a response under way that an
    interrupt or main will go on with (`WaitInv`). When nothing moves any more,
    `TrackInv` leaves no message in `issued` (`NothingLeftUndone`).

  None of the three assumes anything of the messages: what the last two promise
  to an honest host is conditional on the variable `honest`, and so on what was sent, not
  on the constants.

- **The debug console** (`DebugConsoleProofs`): `ConsoleIsFaithful`, all safety
  properties of run `debugconsole`, for any set of ports, any commands of any
  lengths, any size of `cmdBuf` and any length of the scrollback. What is assumed
  are `PickerAssumption` and `ConsoleAssumption`, which say that the constants
  are of their types and that a command is not empty. The inductive invariant,
  `ConsoleInv`, has a part for each property:
  - `PortInv`: as long as the picker runs there is no screen, and the screen is
    as it was made until the port is opened.
  - `LinesAreLatest` is inductive with the types, when it is put as `Flow`, what
    it says of the lines between the board and the screen, and `OnScreen`, what
    it says of the screen. The number of lines printed that the PC will ever see
    is `k`; it grows with each line printed, and stays once the board is
    unplugged. A line on the screen is told by the number of the board's lines
    below it, which is what the cut of `lines` does not change
    (`OnScreenTrimmed`).
  - `EchoesMatchWrites` is inductive with the types: `EchoesOf` is what it
    says of one command, and the lemmas say what an append and a cut do to the
    number of its echoes.
  - `RunsAsWritten` is not: it needs to know what is under way. `RunsInv` says
    that the bytes on the line and in `cmdBuf` are the rest of the lines that were
    written and not run yet, in order and without a gap. `OnTheWay` gives each
    byte its place, the number of its line and where in that line it is;
    `cmdBuf` holds what fits of the line the next byte belongs to (`First`).
    `ByteTaken`, `NewlineTaken` and `LineWritten` say what a byte read and a
    line written do to these places.

Only model-checked is liveness (`DrainsWhenHostPauses`, `Answered`,
`RecoversFromLoss`, `RequestsEnd`, `ListFollowsPorts`, `AnswersAreShown`), which
is out of the prover's reach.

What `Firmware` does with the messages of a host that is not honest is proved
and checked only as far as `HandlerNeverPanics` and `RequestsEnd` go.

## Where code and comments disagree

Two disagreements are runs that TLC refutes:

- `reassembler_wedged`: `reassemble.go:48` says that a corrupt prefix is dropped
  "so one bad packet doesn't wedge every future one behind it". Only the buffer
  is dropped, not the rest of the transfer. After one loss the tail of a
  transfer, if it is shorter than a header, stays in the buffer, makes the
  header of the next transfer corrupt, and the next tail stays in turn.
- `hislipdevice_compose`: `device.go:109` says that the wrappers compose. Each
  embeds `server.Device`, which lacks the optional methods, so that a type
  assertion finds those of the outermost wrapper only.

The others are stated as what is true instead, and the properties draw the line:

- `device.go:57-62` and `device_test.go:76` say that Table 25's Remote=True is a
  side effect of `RemoteEnable(true)`. REN by itself makes no instrument remote:
  it has to be addressed to listen while REN is asserted, and all that
  `gpib/instrument.go:57` says of `RemoteEnable` is that it asserts or deasserts
  the line. After `EnableRemoteGoToRemote` the instrument is as remote as it was,
  and goes remote with the next command it listens to; of Remote=True,
  `ModeTakesEffect` says just this. A driver whose `RemoteEnable` addresses the
  instrument as well would make the comment true; the repository has no driver
  yet.
- `debug.go:28` says of `rxOverflows` that the oldest unread packet was dropped.
  The handler stores the packet and advances `rxHead` all the same, so that main
  gets the newest packet in the oldest one's place and then goes through the
  ring again. `ExactUnlessLapped` holds up to that point, and again after the
  ring was empty.
- Nor is each lost packet counted: `rxTail` has passed the slot main is copying,
  so the handler may overwrite it at an occupancy of 7. `OverwritesAreCounted`
  says that this is the only case.
- `main.go:118` calls the events ring single-producer, with the handlers as the
  producer; `processPacket` and `startSend` log from main. An event logged by a
  handler in between is overwritten or skipped. `DropsAreCounted` and
  `ExactUnlessHit` hold but for that, so that they say nothing of the race itself;
  `NeverBehind` holds regardless, and is all that does.
- `debug.go:21` says that plain increments are safe. `txPacketsSent`,
  `txSendFailures` and `evOverflows` are incremented in both contexts, and an
  increment in an interrupt between main's load and store is lost.
  `CountsNothingElse` is the direction that holds; that no increment is lost is not true, and
  not stated.
- `chunk.go:27` says that the caller must send `Start`'s packet before it calls
  `Next`. With a host that gives up and asks again, the completion of a packet
  of the old response may come in between. With a host that waits it cannot
  (`NextFollowsSend`, and theorem `ContractKept`).
- `handler.go:117` says that the payload is checked against the message's real
  length. The sum of header and size wraps in a 32-bit `int` for sizes of
  2^31 - 12 and more; `PanicsOnlyOnWrap` says that these are all. In the firmware
  it does not get that far: `Feed` computes the same sum, and either panics first
  or cuts the message short of a header, which the handler refuses
  (`HandlerIsSafe`).
- `picker.go:58` says once a second. `Init` starts a timer beside the first scan,
  and the handling of that scan's result starts another: two timers from the
  first second on, and one more for each key `r`.

## What is not modelled

- The values of bytes: command text, headers other than type, size and END, the
  wording and layout of console output.
- TinyGo's USB stack and the SIE hardware beyond a one-packet buffer and its
  completion interrupt; control transfers, which the firmware does not have.
- Compiler reordering and merging of the plain loads and stores. The models take
  each access by itself, in program order.
- Payload that looks like a header where `Feed` expects one (see `Reassembler`).
- Whether commands are written in the order they were sent, which goroutines do
  not guarantee: what is promised begins with the write. Nor how far echoes make
  `lines` grow between two lines of the board, for which no limit is stated.
- In `Firmware`: program messages in several USBTMC messages, which are in
  `UsbTmcFront`; a host that outruns the ring, which is in `RxRing`; and one that
  gives up while its request is under way, which is in `UsbTx`.
- The other counters of `stats`, which follow one of the two patterns of
  `EventLog`; `lastMsg` and `lastResp`, written and read by main only.
- The HiSLIP library's server and its locking, and a GPIB driver, which the
  repository does not have yet.
- Of the debug console: the `-port` flag, with which there is no picker; the
  list widget's own keys, the window's size and what `View` draws; a write that
  fails after part of a line, and a last line cut short by unplugging; the CDC
  buffer of TinyGo, which holds what is typed until main polls and drops what
  does not fit. The answer to a command is one line, whatever `runCommand`
  prints for it.
- The USB descriptor, `tinygocheck`, `netlist-check.py` and the hardware: no
  state, or no program.

## How to run it

`tlc -workers 2 -config MCRxRingPaced.cfg MCRxRing` checks a run; `PROJECT.json`
names the module and configuration of each. `tlapm RxRingProofs.tla` checks
the proofs of a module, and so for the other modules with proofs;
`FirmwareProofs` and `DebugConsoleProofs` take longest, two to three minutes
each. Every run takes less than two and a half minutes.
