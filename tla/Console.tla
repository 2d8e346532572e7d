-------------------------------- MODULE Console --------------------------------
(***************************************************************************)
(* The console screen of cmd/debugconsole and, at the other end of the     *)
(* serial line, the line buffer of the firmware's pollDebugConsole.        *)
(*                                                                         *)
(* On the PC, Update handles one message at a time.  Each command that is  *)
(* sent is a goroutine of its own, which writes the line and then waits to *)
(* hand Update its sentMsg; pumpLines is one more, which reads a line and  *)
(* waits to hand it over.  The firmware takes the bytes of a line one at a *)
(* time, and main's loop prints lines of its own between its answers.      *)
(*                                                                         *)
(* A byte is known by its command and its place there; what is printed, by *)
(* the bytes it answers, or none when it answers nothing.                  *)
(***************************************************************************)
EXTENDS Integers, FiniteSets, SequencesExt

CONSTANTS
  Commands,       (* the command lines a user may send                     *)
  Known,          (* those of them in the menu                             *)
  Size,           (* command |-> its bytes                                 *)
  NoCommand,      (* nothing is typed                                      *)
  CmdBufSize,     (* cmdBufSize: 64                                        *)
  MaxLines,       (* maxLines: 2000                                        *)
  MaxSent,        (* bound: the commands sent                              *)
  MaxPrinted      (* bound: the lines printed before the last heartbeat    *)

(* What a user of this module has to grant.                                *)
ConsoleAssumption ==
  /\ Known \subseteq Commands
  /\ Size \in [Commands -> Nat \ {0}]
  /\ NoCommand \notin Commands
  /\ CmdBufSize \in Nat \ {0}
  /\ MaxLines \in Nat \ {0}
  /\ MaxSent \in Nat
  /\ MaxPrinted \in Nat

VARIABLES
  rawMode,        (* m.rawMode                                             *)
  input,          (* what m.input holds                                    *)
  lines,          (* m.lines                                               *)
  lastErr,        (* m.lastErr # nil                                       *)
  sending,        (* command |-> the goroutines that have still to write   *)
  echoes,         (* command |-> those that wait to hand over a sentMsg    *)
  errors,         (* the errMsgs that wait to be handed over               *)
  pump,           (* where pumpLines is: "scan", "send" or "done"          *)
  pumped,         (* the line it hands over                                *)
  open,           (* the program runs                                      *)
  attached,       (* the board is plugged in                               *)
  polling,        (* its main loop is in pollDebugConsole                  *)
  toBoard,        (* the bytes under way to it                             *)
  fromBoard,      (* the lines under way from it                           *)
  cmdBuf,         (* cmdBuf[:cmdLen]                                       *)
  written,        (* history: the commands written, in order               *)
  printed         (* history: the lines the firmware printed, in order     *)

viewVars == <<rawMode, input, lines, lastErr>>
senderVars == <<sending, echoes, errors>>
pumpVars == <<pump, pumped>>
boardVars == <<attached, polling, toBoard, fromBoard, cmdBuf, printed>>
vars == <<viewVars, senderVars, pumpVars, open, boardVars, written>>

Bytes(c) == [k \in 1 .. Size[c] |-> <<c, k>>]

Newline == <<>>

(* A line that answers nothing: the heartbeat, an event.                   *)
Heartbeat == <<>>

(* The bound on commands counts those under way and those whose error is   *)
(* still to be shown.                                                      *)
Sent == Len(written) + SumFunction(sending) + errors

-----------------------------------------------------------------------------
(* newModel, at the other end the firmware between two lines; main opens   *)
(* the port before it runs the program.                                    *)
Fresh ==
  /\ rawMode = FALSE
  /\ input = NoCommand
  /\ lines = <<>>
  /\ lastErr = FALSE
  /\ sending = [c \in Commands |-> 0]
  /\ echoes = [c \in Commands |-> 0]
  /\ errors = 0
  /\ pump = "scan"
  /\ pumped = Heartbeat
  /\ polling = FALSE
  /\ toBoard = <<>>
  /\ fromBoard = <<>>
  /\ cmdBuf = <<>>
  /\ written = <<>>
  /\ printed = <<>>

Init == Fresh /\ open = TRUE /\ attached = TRUE

-----------------------------------------------------------------------------
(* The user: Update on a key.                                              *)
Send(c) ==
  /\ Sent < MaxSent
  /\ sending' = [sending EXCEPT ![c] = @ + 1]

KeyEnter(c) ==
  /\ open /\ ~rawMode
  /\ c \in Known
  /\ Send(c)
  /\ UNCHANGED <<viewVars, echoes, errors, pumpVars, open, boardVars, written>>

KeySlash ==
  /\ open /\ ~rawMode
  /\ rawMode' = TRUE
  /\ UNCHANGED <<input, lines, lastErr, senderVars, pumpVars, open, boardVars, written>>

(* updateRawMode: a key that edits, esc, and enter.                        *)
KeyEdit(text) ==
  /\ open /\ rawMode
  /\ input' = text
  /\ UNCHANGED <<rawMode, lines, lastErr, senderVars, pumpVars, open, boardVars, written>>

(* Mutant: the text stays, and is there again with the next raw command.   *)
KeyEscKeepsText ==
  /\ open /\ rawMode
  /\ rawMode' = FALSE
  /\ UNCHANGED <<input, lines, lastErr, senderVars, pumpVars, open, boardVars, written>>

KeyEsc ==
  /\ open /\ rawMode
  /\ rawMode' = FALSE
  /\ input' = NoCommand
  /\ UNCHANGED <<lines, lastErr, senderVars, pumpVars, open, boardVars, written>>

KeyEnterRaw ==
  /\ open /\ rawMode
  /\ rawMode' = FALSE
  /\ input' = NoCommand
  /\ IF input = NoCommand THEN UNCHANGED sending ELSE Send(input)
  /\ UNCHANGED <<lines, lastErr, echoes, errors, pumpVars, open, boardVars, written>>

(* q: main closes the port and returns, whatever is under way.             *)
KeyQuit ==
  /\ open /\ ~rawMode
  /\ open' = FALSE
  /\ UNCHANGED <<viewVars, senderVars, pumpVars, boardVars, written>>

-----------------------------------------------------------------------------
(* sendCommand: the line is written in one call, and sentMsg is to follow; *)
(* or the call fails, and errMsg is.                                       *)
Write(c) ==
  /\ open /\ attached
  /\ sending[c] > 0
  /\ sending' = [sending EXCEPT ![c] = @ - 1]
  /\ echoes' = [echoes EXCEPT ![c] = @ + 1]
  /\ toBoard' = toBoard \o Append(Bytes(c), Newline)
  /\ written' = Append(written, c)
  /\ UNCHANGED <<viewVars, errors, pumpVars, open, attached, polling, fromBoard, cmdBuf, printed>>

(* Mutant: sentMsg follows whether or not the call has failed.             *)
WriteFailsUnseen(c) ==
  /\ open
  /\ sending[c] > 0
  /\ sending' = [sending EXCEPT ![c] = @ - 1]
  /\ echoes' = [echoes EXCEPT ![c] = @ + 1]
  /\ UNCHANGED <<viewVars, errors, pumpVars, open, boardVars, written>>

(* The call has failed before any byte of the line went out.               *)
WriteFails(c) ==
  /\ open
  /\ sending[c] > 0
  /\ sending' = [sending EXCEPT ![c] = @ - 1]
  /\ errors' = errors + 1
  /\ UNCHANGED <<viewVars, echoes, pumpVars, open, boardVars, written>>

(* pumpLines: the next line is read, and handed over by p.Send ...         *)
Scan ==
  /\ open
  /\ pump = "scan"
  /\ fromBoard # <<>>
  /\ pumped' = Head(fromBoard)
  /\ fromBoard' = Tail(fromBoard)
  /\ pump' = "send"
  /\ UNCHANGED <<viewVars, senderVars, open, attached, polling, toBoard, cmdBuf, written,
                 printed>>

(* ... until there is no more to read, which is an error or just the end.  *)
ScanEnds ==
  /\ open /\ ~attached
  /\ pump = "scan"
  /\ fromBoard = <<>>
  /\ pump' = "done"
  /\ errors' \in {errors, errors + 1}
  /\ UNCHANGED <<viewVars, sending, echoes, pumped, open, boardVars, written>>

-----------------------------------------------------------------------------
(* Update on the messages of the goroutines.  Mutant of the cut: it keeps  *)
(* the oldest lines.                                                       *)
TrimmedAtEnd(l) == IF Len(l) > MaxLines THEN SubSeq(l, 1, MaxLines) ELSE l

Trimmed(l) == IF Len(l) > MaxLines THEN SubSeq(l, Len(l) - MaxLines + 1, Len(l)) ELSE l

LineMsg ==
  /\ open
  /\ pump = "send"
  /\ lines' = Trimmed(Append(lines, [echo |-> FALSE, text |-> pumped]))
  /\ pump' = "scan"
  /\ pumped' = Heartbeat
  /\ UNCHANGED <<rawMode, input, lastErr, senderVars, open, boardVars, written>>

SentMsg(c) ==
  /\ open
  /\ echoes[c] > 0
  /\ echoes' = [echoes EXCEPT ![c] = @ - 1]
  /\ lines' = Append(lines, [echo |-> TRUE, text |-> Bytes(c)])
  /\ UNCHANGED <<rawMode, input, lastErr, sending, errors, pumpVars, open, boardVars, written>>

ErrMsg ==
  /\ open
  /\ errors > 0
  /\ errors' = errors - 1
  /\ lastErr' = TRUE
  /\ UNCHANGED <<rawMode, input, lines, sending, echoes, pumpVars, open, boardVars, written>>

-----------------------------------------------------------------------------
(* The board, while somebody is there to see it.  Its main loop polls the  *)
(* console once in each round, when the packets that came before it, and   *)
(* while it took them, are processed and the events printed.               *)
Poll ==
  /\ open /\ attached
  /\ ~polling
  /\ polling' = TRUE
  /\ UNCHANGED <<viewVars, senderVars, pumpVars, open, attached, toBoard, fromBoard, cmdBuf,
                 written, printed>>

(* Nothing is buffered; bytes under way come too late for this poll.       *)
PollEnds ==
  /\ open /\ attached
  /\ polling
  /\ polling' = FALSE
  /\ UNCHANGED <<viewVars, senderVars, pumpVars, open, attached, toBoard, fromBoard, cmdBuf,
                 written, printed>>

(* pollDebugConsole on the next byte: a newline runs what there is of a    *)
(* line, and a byte that does not fit is dropped.                          *)
Println(line) ==
  /\ fromBoard' = Append(fromBoard, line)
  /\ printed' = Append(printed, line)

(* Mutant: the newline is dropped as well when the buffer is full.         *)
ReadByteDropsNewline ==
  /\ open /\ attached /\ polling
  /\ toBoard # <<>>
  /\ toBoard' = Tail(toBoard)
  /\ IF Len(cmdBuf) = CmdBufSize
       THEN UNCHANGED <<cmdBuf, fromBoard, printed>>
     ELSE IF Head(toBoard) # Newline
       THEN cmdBuf' = Append(cmdBuf, Head(toBoard)) /\ UNCHANGED <<fromBoard, printed>>
     ELSE cmdBuf' = <<>> /\ Println(cmdBuf)
  /\ UNCHANGED <<viewVars, senderVars, pumpVars, open, attached, polling, written>>

EndsLine ==
  /\ cmdBuf' = <<>>
  /\ IF cmdBuf = <<>> THEN UNCHANGED <<fromBoard, printed>> ELSE Println(cmdBuf)

Collects(b) ==
  /\ cmdBuf' = IF Len(cmdBuf) < CmdBufSize THEN Append(cmdBuf, b) ELSE cmdBuf
  /\ UNCHANGED <<fromBoard, printed>>

ReadByte ==
  /\ open /\ attached /\ polling
  /\ toBoard # <<>>
  /\ toBoard' = Tail(toBoard)
  /\ IF Head(toBoard) = Newline THEN EndsLine ELSE Collects(Head(toBoard))
  /\ UNCHANGED <<viewVars, senderVars, pumpVars, open, attached, polling, written>>

(* The rest of the loop prints a heartbeat or an event.                    *)
Beat ==
  /\ open /\ attached /\ ~polling
  /\ Len(printed) < MaxPrinted
  /\ Println(Heartbeat)
  /\ UNCHANGED <<viewVars, senderVars, pumpVars, open, attached, polling, toBoard, cmdBuf,
                 written>>

(* It is unplugged; the port does not come back to life with a new one.    *)
(* Of the lines under way the PC has a first part in its buffers.          *)
Unplug ==
  /\ open /\ attached
  /\ attached' = FALSE
  /\ polling' = FALSE
  /\ toBoard' = <<>>
  /\ fromBoard' \in Prefixes(fromBoard)
  /\ cmdBuf' = <<>>
  /\ UNCHANGED <<viewVars, senderVars, pumpVars, open, written, printed>>

-----------------------------------------------------------------------------
User ==
  \/ \E c \in Commands : KeyEnter(c)
  \/ KeySlash
  \/ \E text \in Commands \cup {NoCommand} : KeyEdit(text)
  \/ KeyEsc
  \/ KeyEnterRaw
  \/ KeyQuit

Next ==
  \/ User
  \/ \E c \in Commands : Write(c) \/ WriteFails(c) \/ SentMsg(c)
  \/ Scan
  \/ ScanEnds
  \/ LineMsg
  \/ ErrMsg
  \/ Poll
  \/ PollEnds
  \/ ReadByte
  \/ Beat
  \/ Unplug

(* Goroutines and messages get their turn.  The board reads a byte that is *)
(* under way in one of its polls, unless there are only so many of them:   *)
(* nothing says that its loop gets to the next one.                        *)
Fairness ==
  /\ \A c \in Commands : WF_vars(Write(c) \/ WriteFails(c)) /\ WF_vars(SentMsg(c))
  /\ WF_vars(Scan)
  /\ WF_vars(LineMsg)
  /\ SF_vars(ReadByte)

Spec == Init /\ [][Next]_vars /\ Fairness

-----------------------------------------------------------------------------
LinesType == Seq([echo : BOOLEAN, text : Seq(Commands \X Nat)])

TypeOK ==
  /\ {rawMode, lastErr, open, attached, polling} \subseteq BOOLEAN
  /\ input \in Commands \cup {NoCommand}
  /\ ~rawMode => input = NoCommand
  /\ lines \in LinesType
  /\ sending \in [Commands -> Nat]
  /\ echoes \in [Commands -> Nat]
  /\ errors \in Nat
  /\ pump \in {"scan", "send", "done"}
  /\ pumped \in Seq(Commands \X Nat)
  /\ toBoard \in Seq((Commands \X Nat) \cup {Newline})
  /\ fromBoard \in Seq(Seq(Commands \X Nat))
  /\ cmdBuf \in Seq(Commands \X Nat) /\ Len(cmdBuf) <= CmdBufSize
  /\ written \in Seq(Commands)
  /\ printed \in Seq(Seq(Commands \X Nat))

(* Of the first k lines that the firmware printed, those under way from it *)
(* are the last.  Before them pumpLines has taken, and Update shown, the   *)
(* others.                                                                 *)
Taken(k) == k - Len(fromBoard)

Shown(k) == IF pump = "send" THEN Taken(k) - 1 ELSE Taken(k)

(* The lines of the board on the screen, from line i down.                 *)
BoardLines(i) == {j \in i .. Len(lines) : ~lines[j].echo}

Below(i) == Cardinality(BoardLines(i + 1))

(* The screen shows what the firmware printed, in its order and without a  *)
(* gap, up to the last line that has come; and from the first line on, as  *)
(* long as there are fewer lines than maxLines.                            *)
Latest(k) ==
  /\ attached => k = Len(printed)
  /\ Shown(k) >= 0
  /\ \A j \in 1 .. Len(fromBoard) : fromBoard[j] = printed[Taken(k) + j]
  /\ pump = "send" => pumped = printed[Taken(k)]
  /\ \A i \in BoardLines(1) :
       Below(i) < Shown(k) /\ lines[i].text = printed[Shown(k) - Below(i)]
  /\ Len(lines) < MaxLines => Below(0) = Shown(k)

LinesAreLatest == \E k \in 0 .. Len(printed) : Latest(k)

(* A command is echoed when, and as often as, it was written to the port.  *)
Echoed(c) == Cardinality({i \in DOMAIN lines : lines[i].echo /\ lines[i].text = Bytes(c)})

Wrote(c) == Cardinality({k \in DOMAIN written : written[k] = c})

EchoesMatchWrites ==
  \A c \in Commands :
    /\ echoes[c] + Echoed(c) <= Wrote(c)
    /\ Len(lines) < MaxLines => echoes[c] + Echoed(c) = Wrote(c)

(* The firmware runs each line that was written, once and in the order of  *)
(* the writes, and of a line that is too long as much as fits: what was    *)
(* dropped of it does not become, or spoil, another command.               *)
Answers(k) == {j \in 1 .. k : printed[j] # Heartbeat}

Ran(k) == Cardinality(Answers(k))

Cut(c) == SubSeq(Bytes(c), 1, IF Size[c] < CmdBufSize THEN Size[c] ELSE CmdBufSize)

RunsAsWritten ==
  /\ Ran(Len(printed)) <= Len(written)
  /\ \A k \in Answers(Len(printed)) : printed[k] = Cut(written[Ran(k)])
  /\ attached /\ toBoard = <<>> => Ran(Len(printed)) = Len(written)

(* As long as the board stays plugged in, the program runs, and the        *)
(* board's loop gets to poll the console again and again, every command    *)
(* that is written is answered, and the answer gets to the screen.         *)
PollsOn == []<>(polling \/ ~open \/ ~attached)

AnswersAreShown ==
  PollsOn =>
    \A n \in 1 .. MaxSent :
      Len(written) >= n ~>
        \/ Ran(Len(printed)) >= n /\ fromBoard = <<>> /\ pump = "scan"
        \/ ~open \/ ~attached

=============================================================================
