----------------------------- MODULE DebugConsole -----------------------------
(***************************************************************************)
(* cmd/debugconsole: main runs the port picker, opens the port that was    *)
(* chosen, and runs the console screen on it.  Without a port, or with one *)
(* that cannot be opened, it exits.                                        *)
(*                                                                         *)
(* Picker and Screen are PortPicker and Console with this module's         *)
(* variables; a step of one leaves the other's alone.                      *)
(***************************************************************************)
EXTENDS Integers

CONSTANTS
  Ports, NoPort, Timer, MaxChains,
  Commands, Known, Size, NoCommand, CmdBufSize, MaxLines, MaxSent, MaxPrinted

VARIABLES
  ports, failing, chains, list, scanErr, chosen, canceled, running,
  rawMode, input, lines, lastErr, sending, echoes, errors, pump, pumped, open,
  attached, polling, toBoard, fromBoard, cmdBuf, written, printed,
  opened          (* main has tried to open the port                       *)

Picker == INSTANCE PortPicker

Screen == INSTANCE Console

ASSUME DebugConsoleAssumption == Picker!PickerAssumption /\ Screen!ConsoleAssumption

pickerVars == <<ports, failing, chains, list, scanErr, chosen, canceled, running>>

screenVars ==
  <<rawMode, input, lines, lastErr, sending, echoes, errors, pump, pumped, open,
    attached, polling, toBoard, fromBoard, cmdBuf, written, printed>>

vars == <<pickerVars, screenVars, opened>>

Init ==
  /\ Picker!Init
  /\ Screen!Fresh
  /\ open = FALSE
  /\ attached = FALSE
  /\ opened = FALSE

Picks == Picker!Next /\ UNCHANGED <<screenVars, opened>>

(* main: pickPort has returned a port that can be opened.  Nobody hears of *)
(* the picker's chains of rescans any more, nor of other ports.            *)
OpenPort ==
  /\ ~running /\ ~opened
  /\ chosen # NoPort
  /\ open' = TRUE
  /\ attached' = TRUE
  /\ ports' = {chosen}
  /\ failing' = FALSE
  /\ chains' = <<>>
  /\ list' = {}
  /\ scanErr' = FALSE
  /\ opened' = TRUE
  /\ UNCHANGED <<chosen, canceled, running, rawMode, input, lines, lastErr, sending, echoes,
                 errors, pump, pumped, polling, toBoard, fromBoard, cmdBuf, written, printed>>

(* It has returned none, or the port cannot be opened: it may be gone.     *)
GivesUp ==
  /\ ~running /\ ~opened
  /\ opened' = TRUE
  /\ UNCHANGED <<pickerVars, screenVars>>

Shows == Screen!Next /\ UNCHANGED <<pickerVars, opened>>

Next ==
  \/ Picks
  \/ OpenPort
  \/ GivesUp
  \/ Shows

Spec == Init /\ [][Next]_vars /\ Picker!Fairness /\ Screen!Fairness

-----------------------------------------------------------------------------
TypeOK ==
  /\ Picker!TypeOK
  /\ Screen!TypeOK
  /\ opened \in BOOLEAN
  /\ open => opened

(* A board plugged in after the picker opened shows up, and one that is    *)
(* gone disappears, without a key pressed: once the ports stay as they are *)
(* and can be scanned, the list comes to agree with them for good, however *)
(* late the results of earlier scans arrive (Update on rescanMsg).         *)
ListFollowsPorts == Picker!ListFollowsPorts

(* The screen shows what the firmware printed, in its order and without a  *)
(* gap, up to the last line that has come; and from the first line on, as  *)
(* long as there are fewer lines than maxLines (pumpLines, lineMsg).       *)
LinesAreLatest == Screen!LinesAreLatest

(* A command is echoed when, and as often as, it was written to the port   *)
(* (sendCommand).                                                          *)
EchoesMatchWrites == Screen!EchoesMatchWrites

(* The firmware runs each line that was written, once and in the order of  *)
(* the writes, and of a line that is too long as much as fits: what was    *)
(* dropped of it does not become, or spoil, another command                *)
(* (pollDebugConsole).                                                     *)
RunsAsWritten == Screen!RunsAsWritten

(* As long as the board stays plugged in, the program runs, and main's     *)
(* drain loops end again and again so that it polls the console, every     *)
(* command that is written is answered, and the answer gets to the screen  *)
(* (pollDebugConsole, pumpLines).                                          *)
AnswersAreShown == Screen!AnswersAreShown

=============================================================================
