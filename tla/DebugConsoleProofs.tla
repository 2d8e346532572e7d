--------------------------- MODULE DebugConsoleProofs --------------------------
(***************************************************************************)
(* Proofs about DebugConsole, for any ports and commands, whatever their   *)
(* size, and any length of the firmware's line buffer and of the screen.   *)
(***************************************************************************)
EXTENDS DebugConsole, Sequences, FiniteSetTheorems, FunctionTheorems, TLAPS

Byte == Commands \X Nat

Line == [echo : BOOLEAN, text : Seq(Byte)]

(* What DebugConsoleAssumption grants.                                     *)
LEMMA Granted ==
  /\ NoPort \notin Ports
  /\ MaxChains \in Nat /\ MaxChains >= 2
  /\ Known \subseteq Commands
  /\ Size \in [Commands -> Nat \ {0}]
  /\ CmdBufSize \in Nat \ {0}
  /\ MaxLines \in Nat \ {0}
BY DebugConsoleAssumption DEF Picker!PickerAssumption, Screen!ConsoleAssumption

-----------------------------------------------------------------------------
(* The picker: its types.                                                  *)
LEMMA FoundFacts ==
  ASSUME Picker!TypeOK
  PROVE  /\ Picker!Scan \in Picker!Found
         /\ \A s \in Picker!Found : s.ok \in BOOLEAN /\ s.ports \subseteq Ports
<1>1. Picker!ScanError \in Picker!Found
  BY DEF Picker!Found
<1>2. [ok |-> TRUE, ports |-> ports] \in Picker!Found
  BY DEF Picker!Found, Picker!TypeOK
<1>3. Picker!Scan \in Picker!Found
  BY <1>1, <1>2 DEF Picker!Scan
<1>4. ASSUME NEW s \in Picker!Found
      PROVE  s.ok \in BOOLEAN /\ s.ports \subseteq Ports
  <2>1. CASE s = Picker!ScanError
    BY <2>1 DEF Picker!ScanError
  <2>2. ASSUME NEW P \in SUBSET Ports, s = [ok |-> TRUE, ports |-> P]
        PROVE  s.ok \in BOOLEAN /\ s.ports \subseteq Ports
    BY <2>2
  <2> QED BY <2>1, <2>2 DEF Picker!Found
<1> QED BY <1>3, <1>4

(* The picker starts in a state of its type ...                            *)
LEMMA PickerInitType == Picker!Init => Picker!TypeOK
<1> SUFFICES ASSUME Picker!Init PROVE Picker!TypeOK
  OBVIOUS
<1>1. Picker!Scan \in Picker!Found
  BY DEF Picker!Init, Picker!Scan, Picker!Found
<1> DEFINE S == Picker!Found \cup {Timer}
<1>2. << Picker!Scan, Timer >> \in Seq(S) /\ Len(<< Picker!Scan, Timer >>) = 2
  <2> HIDE DEF S
  <2> SUFFICES ASSUME NEW a \in S, NEW b \in S
               PROVE  << a, b >> \in Seq(S) /\ Len(<< a, b >>) = 2
    BY <1>1 DEF S
  <2> QED OBVIOUS
<1> QED BY <1>2, Granted DEF Picker!Init, Picker!TypeOK

(* ... and stays there.                                                    *)
LEMMA PickerTypeStep ==
  ASSUME Picker!TypeOK, Picker!Next
  PROVE  Picker!TypeOK'
<1> DEFINE S == Picker!Found \cup {Timer}
<1>1. /\ chains \in Seq(S) /\ Len(chains) <= MaxChains
      /\ Picker!Scan \in S /\ Timer \in S
  BY FoundFacts DEF Picker!TypeOK
<1>2. /\ ports \subseteq Ports /\ list \subseteq Ports
      /\ {failing, scanErr, canceled, running} \subseteq BOOLEAN
      /\ chosen \in Ports \cup {NoPort}
  BY DEF Picker!TypeOK
<1>3. ASSUME chains' \in Seq(S), Len(chains') <= MaxChains,
             ports' \subseteq Ports, list' \subseteq Ports,
             {failing', scanErr', canceled', running'} \subseteq BOOLEAN,
             chosen' \in Ports \cup {NoPort}
      PROVE  Picker!TypeOK'
  BY <1>3 DEF Picker!TypeOK, Picker!Found, Picker!ScanError
<1> HIDE DEF S
<1>4. ASSUME NEW i \in DOMAIN chains, NEW x \in S, chains' = [chains EXCEPT ![i] = x]
      PROVE  chains' \in Seq(S) /\ Len(chains') <= MaxChains
  BY <1>1, <1>4
<1>5. CASE \E p \in Ports : Picker!Plug(p)
  BY <1>1, <1>2, <1>3, <1>5 DEF Picker!Plug, Picker!modelVars
<1>6. CASE Picker!Trouble
  BY <1>1, <1>2, <1>3, <1>6 DEF Picker!Trouble, Picker!modelVars
<1>7. ASSUME NEW i \in DOMAIN chains, Picker!Tick(i)
      PROVE  Picker!TypeOK'
  BY <1>1, <1>2, <1>3, <1>4, <1>7 DEF Picker!Tick, Picker!modelVars, Picker!systemVars
<1>8. ASSUME NEW i \in DOMAIN chains, Picker!Rescan(i)
      PROVE  Picker!TypeOK'
  <2>1. chains[i] \in Picker!Found
    BY <1>1, <1>8 DEF Picker!Rescan, S
  <2>2. list' \subseteq Ports /\ scanErr' \in BOOLEAN
    BY <1>2, <1>8, <2>1, FoundFacts DEF Picker!Rescan, Picker!Handles
  <2> QED BY <1>1, <1>2, <1>3, <1>4, <1>8, <2>2 DEF Picker!Rescan, Picker!systemVars
<1>9. CASE Picker!KeyR
  <2>1. chains' \in Seq(S) /\ Len(chains') <= MaxChains
    BY <1>1, <1>9, Granted DEF Picker!KeyR
  <2> QED BY <1>2, <1>3, <1>9, <2>1 DEF Picker!KeyR, Picker!modelVars, Picker!systemVars
<1>10. CASE \E p \in Ports : Picker!KeyEnter(p)
  BY <1>1, <1>2, <1>3, <1>10 DEF Picker!KeyEnter, Picker!systemVars
<1>11. CASE Picker!KeyQuit
  BY <1>1, <1>2, <1>3, <1>11 DEF Picker!KeyQuit, Picker!systemVars
<1> QED BY <1>5, <1>6, <1>7, <1>8, <1>9, <1>10, <1>11 DEF Picker!Next

-----------------------------------------------------------------------------
(* The screen and the firmware's line buffer: the operators their steps    *)
(* are built from.                                                         *)
LEMMA BytesFacts ==
  ASSUME NEW c \in Commands
  PROVE  /\ Size[c] \in Nat \ {0}
         /\ Screen!Bytes(c) \in Seq(Byte)
         /\ Len(Screen!Bytes(c)) = Size[c]
         /\ \A k \in 1 .. Size[c] : Screen!Bytes(c)[k] = <<c, k>>
<1>1. Size[c] \in Nat \ {0}
  BY Granted
<1>2. \A k \in 1 .. Size[c] : <<c, k>> \in Byte
  BY <1>1 DEF Byte
<1> QED BY <1>1, <1>2 DEF Screen!Bytes

(* Commands are told apart by their bytes.                                 *)
LEMMA BytesDistinct ==
  ASSUME NEW c \in Commands, NEW d \in Commands, Screen!Bytes(c) = Screen!Bytes(d)
  PROVE  c = d
<1>1. Screen!Bytes(c)[1] = <<c, 1>> /\ Screen!Bytes(d)[1] = <<d, 1>>
  BY BytesFacts
<1> QED BY <1>1

(* A line that is written goes out byte by byte, and the newline last.     *)
LEMMA LineOut ==
  ASSUME NEW c \in Commands, NEW s \in Seq(Byte \cup {<<>>}),
         NEW t, t = s \o Append(Screen!Bytes(c), Screen!Newline)
  PROVE  /\ t \in Seq(Byte \cup {<<>>})
         /\ Len(t) = Len(s) + Size[c] + 1
         /\ \A k \in 1 .. Len(s) : t[k] = s[k]
         /\ \A k \in 1 .. Size[c] : t[Len(s) + k] = <<c, k>>
         /\ t[Len(t)] = <<>>
<1> DEFINE l == Append(Screen!Bytes(c), <<>>)
<1>1. /\ l \in Seq(Byte \cup {<<>>})
      /\ Len(l) = Size[c] + 1
      /\ \A k \in 1 .. Size[c] : l[k] = <<c, k>>
      /\ l[Size[c] + 1] = <<>>
  <2> HIDE DEF Byte
  <2>1. Screen!Bytes(c) \in Seq(Byte \cup {<<>>})
    BY BytesFacts
  <2> QED BY <2>1, BytesFacts
<1>2. t = s \o l
  BY DEF Screen!Newline
<1> DEFINE B == Byte \cup {<<>>}
<1>3. s \in Seq(B) /\ l \in Seq(B) /\ Size[c] \in Nat
  BY <1>1, BytesFacts
<1> HIDE DEF l, B
<1>4. t \in Seq(B) /\ Len(t) = Len(s) + Len(l)
  BY <1>2, <1>3
<1>5. \A k \in 1 .. Len(s) : t[k] = s[k]
  BY <1>2, <1>3
<1>6. \A k \in 1 .. Len(l) : t[Len(s) + k] = l[k]
  BY <1>2, <1>3
<1>7. Len(s) \in Nat /\ Len(t) = Len(s) + Size[c] + 1
  BY <1>1, <1>3, <1>4
<1>8. t[Len(t)] = <<>>
  <2>1. Size[c] + 1 \in 1 .. Len(l) /\ Len(s) + (Size[c] + 1) = Len(t)
    BY ONLY <1>1, <1>3, <1>7
  <2> QED BY ONLY <1>1, <1>6, <2>1
<1>9. ASSUME NEW k \in 1 .. Size[c]
      PROVE  t[Len(s) + k] = <<c, k>>
  <2>1. k \in 1 .. Len(l)
    BY ONLY <1>1, <1>3, <1>9
  <2> QED BY ONLY <1>1, <1>6, <1>9, <2>1
<1> QED BY ONLY <1>4, <1>5, <1>7, <1>8, <1>9 DEF B

(* What the provers do not see of sequences by themselves.                 *)
LEMMA EmptyType == \A S : <<>> \in Seq(S) /\ Len(<<>>) = 0
OBVIOUS

(* One element more, of the same type.                                     *)
LEMMA AppendType ==
  ASSUME NEW S, NEW s \in Seq(S), NEW x \in S
  PROVE  Append(s, x) \in Seq(S)
OBVIOUS

(* How many lines the screen drops of l, and what is left of it.           *)
Dropped(l) == IF Len(l) > MaxLines THEN Len(l) - MaxLines ELSE 0

(* Trimmed drops that many lines, the first ones.                          *)
LEMMA TrimmedFacts ==
  ASSUME NEW S, NEW l \in Seq(S)
  PROVE  /\ Dropped(l) \in 0 .. Len(l)
         /\ Screen!Trimmed(l) \in Seq(S)
         /\ Len(Screen!Trimmed(l)) = Len(l) - Dropped(l)
         /\ \A i \in 1 .. Len(l) - Dropped(l) : Screen!Trimmed(l)[i] = l[i + Dropped(l)]
         /\ Dropped(l) > 0 => Len(Screen!Trimmed(l)) = MaxLines
<1>1. CASE Len(l) > MaxLines
  <2>1. Screen!Trimmed(l) = SubSeq(l, Len(l) - MaxLines + 1, Len(l))
    BY <1>1 DEF Screen!Trimmed
  <2>2. MaxLines \in Nat /\ Dropped(l) = Len(l) - MaxLines
    BY <1>1, Granted DEF Dropped
  <2> QED BY <1>1, <2>1, <2>2
<1>2. CASE ~(Len(l) > MaxLines)
  BY <1>2, Granted DEF Screen!Trimmed, Dropped
<1> QED BY <1>1, <1>2

-----------------------------------------------------------------------------
(* Their types.                                                            *)
LEMMA FreshType == Screen!Fresh /\ {open, attached} \subseteq BOOLEAN => Screen!TypeOK
<1> SUFFICES ASSUME Screen!Fresh, {open, attached} \subseteq BOOLEAN PROVE Screen!TypeOK
  OBVIOUS
<1>1. \A S : <<>> \in Seq(S) /\ Len(<<>>) = 0
  BY EmptyType
<1>2. [c \in Commands |-> 0] \in [Commands -> Nat]
  OBVIOUS
<1>3. CmdBufSize \in Nat
  BY Granted
<1>4. /\ lines \in Screen!LinesType /\ written \in Seq(Commands)
      /\ toBoard \in Seq((Commands \X Nat) \cup {Screen!Newline})
      /\ fromBoard \in Seq(Seq(Commands \X Nat)) /\ printed \in Seq(Seq(Commands \X Nat))
  BY <1>1 DEF Screen!Fresh, Screen!LinesType
<1>5. /\ cmdBuf \in Seq(Commands \X Nat) /\ Len(cmdBuf) <= CmdBufSize
      /\ pumped \in Seq(Commands \X Nat)
  BY <1>1, <1>3 DEF Screen!Fresh, Screen!Heartbeat
<1> QED BY <1>2, <1>4, <1>5 DEF Screen!Fresh, Screen!TypeOK

(* Every step of the screen and of the board keeps their type.             *)
LEMMA ScreenTypeStep ==
  ASSUME Screen!TypeOK, Screen!Next
  PROVE  Screen!TypeOK'
<1> USE DEF Screen!viewVars, Screen!senderVars, Screen!pumpVars, Screen!boardVars
<1>1. CASE Screen!User
  <2>1. ASSUME NEW c \in Commands, Screen!KeyEnter(c)
        PROVE  Screen!TypeOK'
    BY <2>1 DEF Screen!KeyEnter, Screen!Send, Screen!TypeOK
  <2>2. CASE Screen!KeySlash
    BY <2>2 DEF Screen!KeySlash, Screen!TypeOK
  <2>3. ASSUME NEW text \in Commands \cup {NoCommand}, Screen!KeyEdit(text)
        PROVE  Screen!TypeOK'
    BY <2>3 DEF Screen!KeyEdit, Screen!TypeOK
  <2>4. CASE Screen!KeyEsc
    BY <2>4 DEF Screen!KeyEsc, Screen!TypeOK
  <2>5. CASE Screen!KeyEnterRaw
    <3>1. sending \in [Commands -> Nat] /\ input \in Commands \cup {NoCommand}
      BY DEF Screen!TypeOK
    <3>2. sending' \in [Commands -> Nat]
      BY <2>5, <3>1 DEF Screen!KeyEnterRaw, Screen!Send
    <3>3. rawMode' = FALSE /\ input' = NoCommand
      BY <2>5 DEF Screen!KeyEnterRaw
    <3> QED BY <2>5, <3>2, <3>3 DEF Screen!KeyEnterRaw, Screen!TypeOK
  <2>6. CASE Screen!KeyQuit
    BY <2>6 DEF Screen!KeyQuit, Screen!TypeOK
  <2> QED BY <1>1, <2>1, <2>2, <2>3, <2>4, <2>5, <2>6 DEF Screen!User
<1>2. ASSUME NEW c \in Commands, Screen!Write(c)
      PROVE  Screen!TypeOK'
  <2>1. toBoard' \in Seq(Byte \cup {<<>>})
    BY <1>2, LineOut DEF Screen!Write, Screen!TypeOK, Byte, Screen!Newline
  <2> QED BY <1>2, <2>1 DEF Screen!Write, Screen!TypeOK, Byte, Screen!Newline
<1>3. ASSUME NEW c \in Commands, Screen!WriteFails(c)
      PROVE  Screen!TypeOK'
  BY <1>3 DEF Screen!WriteFails, Screen!TypeOK
<1>4. ASSUME NEW c \in Commands, Screen!SentMsg(c)
      PROVE  Screen!TypeOK'
  <2>1. [echo |-> TRUE, text |-> Screen!Bytes(c)] \in Line
    BY BytesFacts DEF Line
  <2>2. lines' \in Seq(Line)
    <3> HIDE DEF Line
    <3> QED BY <1>4, <2>1 DEF Screen!SentMsg, Screen!TypeOK, Screen!LinesType, Line, Byte
  <2> QED BY <1>4, <2>2 DEF Screen!SentMsg, Screen!TypeOK, Screen!LinesType, Line, Byte
<1>5. CASE Screen!Scan
  BY <1>5 DEF Screen!Scan, Screen!TypeOK
<1>6. CASE Screen!ScanEnds
  BY <1>6 DEF Screen!ScanEnds, Screen!TypeOK
<1>7. CASE Screen!LineMsg
  <2>1. [echo |-> FALSE, text |-> pumped] \in Line
    BY DEF Line, Screen!TypeOK, Byte
  <2>2. lines' \in Seq(Line)
    <3> DEFINE l == Append(lines, [echo |-> FALSE, text |-> pumped])
    <3>1. l \in Seq(Line)
      BY <2>1 DEF Screen!TypeOK, Screen!LinesType, Line, Byte
    <3>2. lines' = Screen!Trimmed(l)
      BY <1>7 DEF Screen!LineMsg
    <3> HIDE DEF l, Line
    <3> QED BY <3>1, <3>2, TrimmedFacts
  <2>3. Screen!Heartbeat \in Seq(Byte)
    BY DEF Screen!Heartbeat
  <2> QED BY <1>7, <2>2, <2>3 DEF Screen!LineMsg, Screen!TypeOK, Screen!LinesType, Line, Byte
<1>8. CASE Screen!ErrMsg
  BY <1>8 DEF Screen!ErrMsg, Screen!TypeOK
<1>9. CASE Screen!ReadByte
  <2>1. /\ Head(toBoard) \in Byte \cup {<<>>}
        /\ Tail(toBoard) \in Seq(Byte \cup {<<>>})
        /\ cmdBuf \in Seq(Byte) /\ Len(cmdBuf) <= CmdBufSize
        /\ fromBoard \in Seq(Seq(Byte)) /\ printed \in Seq(Seq(Byte))
    BY <1>9 DEF Screen!ReadByte, Screen!TypeOK, Byte, Screen!Newline
  <2>2. /\ cmdBuf' \in Seq(Byte) /\ Len(cmdBuf') <= CmdBufSize
        /\ fromBoard' \in Seq(Seq(Byte)) /\ printed' \in Seq(Seq(Byte))
    <3>1. CASE Head(toBoard) = Screen!Newline
      <4>1. Screen!EndsLine
        BY <1>9, <3>1 DEF Screen!ReadByte
      <4>2. <<>> \in Seq(Byte) /\ Len(<<>>) = 0 /\ CmdBufSize \in Nat
        BY Granted
      <4>3. \/ fromBoard' = Append(fromBoard, cmdBuf) /\ printed' = Append(printed, cmdBuf)
            \/ fromBoard' = fromBoard /\ printed' = printed
        BY <4>1 DEF Screen!EndsLine, Screen!Println
      <4>4. fromBoard' \in Seq(Seq(Byte)) /\ printed' \in Seq(Seq(Byte))
        BY <2>1, <4>3, AppendType
      <4> QED BY <4>1, <4>2, <4>4 DEF Screen!EndsLine
    <3>2. CASE Head(toBoard) # Screen!Newline
      <4>1. Screen!Collects(Head(toBoard)) /\ Head(toBoard) \in Byte
        BY <1>9, <2>1, <3>2 DEF Screen!ReadByte, Screen!Newline
      <4> QED BY <2>1, <4>1, Granted DEF Screen!Collects
    <3> QED BY <3>1, <3>2
  <2> QED BY <1>9, <2>1, <2>2 DEF Screen!ReadByte, Screen!TypeOK, Byte, Screen!Newline
<1>10. CASE Screen!Beat
  <2>1. Screen!Heartbeat \in Seq(Byte)
    BY DEF Screen!Heartbeat
  <2>2. fromBoard' \in Seq(Seq(Byte)) /\ printed' \in Seq(Seq(Byte))
    BY <1>10, <2>1, AppendType DEF Screen!Beat, Screen!Println, Screen!TypeOK, Byte
  <2>3. UNCHANGED <<Screen!viewVars, Screen!senderVars, Screen!pumpVars, open, attached, polling,
                    toBoard, cmdBuf, written>>
    BY <1>10 DEF Screen!Beat
  <2> QED BY <2>2, <2>3 DEF Screen!TypeOK, Byte
<1>11. CASE Screen!Unplug
  <2>1. PICK n \in 0 .. Len(fromBoard) : fromBoard' = SubSeq(fromBoard, 1, n)
    BY <1>11 DEF Screen!Unplug, Screen!Prefixes
  <2>2. fromBoard' \in Seq(Seq(Byte))
    BY <2>1 DEF Screen!TypeOK, Byte
  <2>3. /\ toBoard' \in Seq(Byte \cup {Screen!Newline})
        /\ cmdBuf' \in Seq(Byte) /\ Len(cmdBuf') <= CmdBufSize
        /\ attached' \in BOOLEAN /\ polling' \in BOOLEAN
    <3>1. /\ toBoard' = <<>> /\ cmdBuf' = <<>> /\ CmdBufSize \in Nat
          /\ attached' = FALSE /\ polling' = FALSE
      BY <1>11, Granted DEF Screen!Unplug
    <3>2. toBoard' \in Seq(Byte \cup {Screen!Newline}) /\ cmdBuf' \in Seq(Byte)
      BY <3>1, EmptyType, Zenon
    <3>3. Len(cmdBuf') = 0
      BY <3>1, EmptyType, Zenon
    <3>4. 0 <= CmdBufSize
      BY ONLY <3>1
    <3> QED BY <3>1, <3>2, <3>3, <3>4, Zenon
  <2>4. UNCHANGED <<Screen!viewVars, Screen!senderVars, Screen!pumpVars, open, written, printed>>
    BY <1>11 DEF Screen!Unplug
  <2> QED BY <2>2, <2>3, <2>4 DEF Screen!TypeOK, Byte
<1>12. CASE Screen!Poll \/ Screen!PollEnds
  <2>1. polling' \in BOOLEAN
    BY <1>12 DEF Screen!Poll, Screen!PollEnds
  <2>2. UNCHANGED <<Screen!viewVars, Screen!senderVars, Screen!pumpVars, open, attached, toBoard,
                    fromBoard, cmdBuf, written, printed>>
    BY <1>12 DEF Screen!Poll, Screen!PollEnds
  <2> QED BY <2>1, <2>2 DEF Screen!TypeOK, Byte
<1> QED BY <1>1, <1>2, <1>3, <1>4, <1>5, <1>6, <1>7, <1>8, <1>9, <1>10, <1>11, <1>12
        DEF Screen!Next

-----------------------------------------------------------------------------
(* main: the screen is as it begins until the port is open, and by then    *)
(* the picker has returned.                                                *)
PortInv ==
  /\ ~opened => Screen!Fresh /\ ~open /\ ~attached
  /\ opened => ~running

(* The picker takes no step once it has returned ...                       *)
LEMMA PickerRuns == Picker!Next => running
BY DEF Picker!Next, Picker!Plug, Picker!Trouble, Picker!Tick, Picker!Rescan, Picker!KeyR,
       Picker!KeyEnter, Picker!KeyQuit

(* ... and the screen none before it is opened.                            *)
LEMMA ScreenOpen == Screen!Next => open
BY DEF Screen!Next, Screen!User, Screen!KeyEnter, Screen!KeySlash, Screen!KeyEdit,
       Screen!KeyEsc, Screen!KeyEnterRaw, Screen!KeyQuit, Screen!Write, Screen!WriteFails,
       Screen!SentMsg, Screen!Scan, Screen!ScanEnds, Screen!LineMsg, Screen!ErrMsg,
       Screen!Poll, Screen!PollEnds, Screen!ReadByte, Screen!Beat, Screen!Unplug

(* Initially there is no screen.                                           *)
LEMMA InitPort == Init => TypeOK /\ PortInv
<1> SUFFICES ASSUME Init PROVE TypeOK /\ PortInv
  OBVIOUS
<1>1. TypeOK
  BY PickerInitType, FreshType DEF Init, TypeOK
<1> QED BY <1>1 DEF Init, PortInv

(* The port is opened after the picker has returned, and only once.        *)
LEMMA PortStep ==
  ASSUME TypeOK, PortInv, [Next]_vars
  PROVE  TypeOK' /\ PortInv'
<1>1. CASE Picks
  <2>1. running /\ ~opened /\ Picker!TypeOK /\ Screen!Fresh /\ ~open /\ ~attached
    BY <1>1, PickerRuns DEF Picks, PortInv, TypeOK
  <2>2. Picker!TypeOK'
    BY <1>1, <2>1, PickerTypeStep DEF Picks
  <2>3. UNCHANGED <<screenVars, opened>>
    BY <1>1 DEF Picks
  <2>4. Screen!Fresh' /\ ~open' /\ ~attached' /\ ~opened'
    BY <2>1, <2>3 DEF screenVars, Screen!Fresh
  <2>5. Screen!TypeOK'
    BY <2>3 DEF screenVars, TypeOK, Screen!TypeOK, Screen!LinesType
  <2>6. opened' = FALSE
    BY <2>1, <2>3 DEF TypeOK
  <2>7. TypeOK'
    BY <2>2, <2>4, <2>5, <2>6 DEF TypeOK
  <2> QED BY <2>4, <2>6, <2>7 DEF PortInv
<1>2. CASE OpenPort
  <2>1. /\ ~running /\ ~opened /\ chosen \in Ports
        /\ Picker!TypeOK /\ Screen!TypeOK /\ Screen!Fresh
    BY <1>2 DEF OpenPort, TypeOK, PortInv, Picker!TypeOK
  <2>2. Picker!TypeOK'
    <3>1. chains' = <<>> /\ MaxChains \in Nat
      BY <1>2, Granted DEF OpenPort
    <3>2. chains' \in Seq(Picker!Found \cup {Timer}) /\ Len(chains') = 0
      BY <3>1, EmptyType, Zenon
    <3>3. Len(chains') <= MaxChains
      BY <3>1, <3>2
    <3>4. UNCHANGED <<chosen, canceled, running>> /\ failing' = FALSE /\ scanErr' = FALSE
          /\ ports' = {chosen} /\ list' = {}
      BY <1>2 DEF OpenPort
    <3> QED BY <2>1, <3>2, <3>3, <3>4 DEF Picker!TypeOK, Picker!Found, Picker!ScanError
  <2>3. Screen!TypeOK' /\ open' = TRUE /\ opened' = TRUE
    BY <1>2, <2>1 DEF OpenPort, Screen!TypeOK, Screen!LinesType
  <2>4. ~running'
    BY <1>2, <2>1 DEF OpenPort
  <2> QED BY <2>2, <2>3, <2>4 DEF TypeOK, PortInv
<1>3. CASE GivesUp
  <2>1. ~running /\ ~opened /\ ~open
    BY <1>3 DEF GivesUp, PortInv
  <2>2. UNCHANGED <<pickerVars, screenVars>> /\ opened' = TRUE
    BY <1>3 DEF GivesUp
  <2>3. Picker!TypeOK' /\ Screen!TypeOK'
    BY <2>2 DEF pickerVars, screenVars, TypeOK, Picker!TypeOK, Picker!Found, Picker!ScanError,
       Screen!TypeOK, Screen!LinesType
  <2> QED BY <2>1, <2>2, <2>3 DEF pickerVars, screenVars, TypeOK, PortInv
<1>4. CASE Shows
  <2>1. open /\ opened /\ ~running
    BY <1>4, ScreenOpen DEF Shows, TypeOK, PortInv
  <2>2. Screen!TypeOK'
    BY <1>4, ScreenTypeStep DEF Shows, TypeOK
  <2>3. UNCHANGED <<pickerVars, opened>>
    BY <1>4 DEF Shows
  <2>4. Picker!TypeOK'
    BY <2>3 DEF pickerVars, TypeOK, Picker!TypeOK, Picker!Found, Picker!ScanError
  <2> QED BY <2>1, <2>2, <2>3, <2>4 DEF pickerVars, TypeOK, PortInv
<1>5. CASE UNCHANGED vars
  <2>1. UNCHANGED <<pickerVars, screenVars, opened>>
    BY <1>5 DEF vars
  <2>2. Picker!TypeOK' /\ Screen!TypeOK'
    BY <2>1 DEF pickerVars, screenVars, TypeOK, Picker!TypeOK, Picker!Found, Picker!ScanError,
       Screen!TypeOK, Screen!LinesType
  <2> QED BY <2>1, <2>2 DEF pickerVars, screenVars, TypeOK, PortInv, Screen!Fresh
<1> QED BY <1>1, <1>2, <1>3, <1>4, <1>5 DEF Next

-----------------------------------------------------------------------------
(* Counting: two sets of places that are d apart.                          *)
LEMMA ShiftedSize ==
  ASSUME NEW d \in Int, NEW S \in SUBSET Int, NEW T \in SUBSET Int, IsFiniteSet(S),
         \A j \in Int : j \in T <=> j + d \in S
  PROVE  IsFiniteSet(T) /\ Cardinality(T) = Cardinality(S)
<1> DEFINE f == [j \in S |-> j - d]
<1>1. f \in [S -> T]
  <2>1. ASSUME NEW j \in S
        PROVE  j - d \in T
    <3>1. j \in Int /\ j - d \in Int /\ (j - d) + d = j
      OBVIOUS
    <3> QED BY <3>1
  <2> QED BY <2>1
<1>2. \A i, j \in S : f[i] = f[j] => i = j
  <2>1. ASSUME NEW i \in S, NEW j \in S, i - d = j - d
        PROVE  i = j
    <3>1. i \in Int /\ j \in Int
      OBVIOUS
    <3> QED BY <2>1, <3>1
  <2> QED BY <2>1
<1>3. \A t \in T : \E j \in S : f[j] = t
  <2>1. ASSUME NEW t \in T
        PROVE  t + d \in S /\ (t + d) - d = t
    OBVIOUS
  <2> QED BY <2>1
<1>4. f \in Bijection(S, T)
  <2> HIDE DEF f
  <2>1. f \in Injection(S, T)
    BY <1>1, <1>2, Fun_IsInj
  <2>2. f \in Surjection(S, T)
    BY <1>1, <1>3, Fun_IsSurj
  <2> QED BY <2>1, <2>2 DEF Bijection
<1> QED BY <1>4, FS_Bijection DEF ExistsBijection

(* The lines of the board in ls, from line i down.                         *)
BoardIn(ls, i) == {j \in i .. Len(ls) : ~ls[j].echo}

(* They are finitely many.                                                 *)
LEMMA BoardSize ==
  ASSUME NEW ls \in Seq(Line), NEW i \in Nat
  PROVE  /\ IsFiniteSet(BoardIn(ls, i))
         /\ Cardinality(BoardIn(ls, i)) \in Nat
<1>1. IsFiniteSet(i .. Len(ls))
  BY FS_Interval
<1>2. BoardIn(ls, i) \in SUBSET (i .. Len(ls))
  BY DEF BoardIn
<1> QED BY <1>1, <1>2, FS_Subset, FS_CardinalityType

(* A line that is appended is one more of them, unless it is an echo.      *)
LEMMA BoardAppend ==
  ASSUME NEW ls \in Seq(Line), NEW x \in Line, NEW i \in 1 .. Len(ls) + 1
  PROVE  Cardinality(BoardIn(Append(ls, x), i)) =
           Cardinality(BoardIn(ls, i)) + (IF x.echo THEN 0 ELSE 1)
<1>1. /\ Len(Append(ls, x)) = Len(ls) + 1
      /\ Append(ls, x)[Len(ls) + 1] = x
      /\ \A j \in 1 .. Len(ls) : Append(ls, x)[j] = ls[j]
      /\ Len(ls) \in Nat
  OBVIOUS
<1>2. CASE x.echo
  <2>1. BoardIn(Append(ls, x), i) = BoardIn(ls, i)
    BY <1>1, <1>2 DEF BoardIn
  <2> QED BY <1>2, <2>1, BoardSize
<1>3. CASE ~x.echo
  <2>1. BoardIn(Append(ls, x), i) = BoardIn(ls, i) \cup {Len(ls) + 1}
    BY <1>1, <1>3 DEF BoardIn
  <2>2. Len(ls) + 1 \notin BoardIn(ls, i)
    BY <1>1 DEF BoardIn
  <2>3. IsFiniteSet(BoardIn(ls, i)) /\ Cardinality(BoardIn(ls, i)) \in Nat
    BY BoardSize
  <2>4. Cardinality(BoardIn(ls, i) \cup {Len(ls) + 1}) = Cardinality(BoardIn(ls, i)) + 1
    BY <2>2, <2>3, FS_AddElement, Zenon
  <2> QED BY <1>3, <2>1, <2>4
<1> QED BY <1>2, <1>3

(* The cut moves them up.                                                  *)
LEMMA BoardTrimmed ==
  ASSUME NEW ls \in Seq(Line), NEW i \in Nat \ {0}
  PROVE  Cardinality(BoardIn(Screen!Trimmed(ls), i)) = Cardinality(BoardIn(ls, i + Dropped(ls)))
<1> DEFINE d == Dropped(ls)
           t == Screen!Trimmed(ls)
<1>1. /\ d \in Nat /\ Len(t) = Len(ls) - d /\ Len(ls) \in Nat
      /\ \A j \in 1 .. Len(ls) - d : t[j] = ls[j + d]
  BY TrimmedFacts
<1> HIDE DEF d, t
<1>2. \A j \in Int : j \in BoardIn(t, i) <=> j + d \in BoardIn(ls, i + d)
  BY <1>1 DEF BoardIn
<1>3. BoardIn(t, i) \in SUBSET Int /\ BoardIn(ls, i + d) \in SUBSET Int
  BY <1>1 DEF BoardIn
<1>4. IsFiniteSet(BoardIn(ls, i + d))
  BY <1>1, BoardSize
<1>5. Cardinality(BoardIn(t, i)) = Cardinality(BoardIn(ls, i + d))
  <2>1. d \in Int
    BY <1>1
  <2> QED BY ONLY <1>2, <1>3, <1>4, <2>1, ShiftedSize, Zenon
<1> QED BY <1>5 DEF d, t

-----------------------------------------------------------------------------
(* The screen ls shows the lines of p up to the n-th, the last ones of     *)
(* them; and all of them while it has room.                                *)
OnScreen(ls, p, n) ==
  /\ \A i \in BoardIn(ls, 1) :
       /\ Cardinality(BoardIn(ls, i + 1)) < n
       /\ ls[i].text = p[n - Cardinality(BoardIn(ls, i + 1))]
  /\ Len(ls) < MaxLines => Cardinality(BoardIn(ls, 1)) = n

(* One more line is shown: an echo, or the next line of the board.         *)
LEMMA OnScreenAppend ==
  ASSUME NEW ls \in Seq(Line), NEW p, NEW n \in Nat, OnScreen(ls, p, n), NEW x \in Line,
         NEW m, m = n + (IF x.echo THEN 0 ELSE 1), ~x.echo => x.text = p[m]
  PROVE  OnScreen(Append(ls, x), p, m)
<1> DEFINE l == Append(ls, x)
<1>1. /\ Len(l) = Len(ls) + 1 /\ Len(ls) \in Nat
      /\ l[Len(ls) + 1] = x
      /\ \A j \in 1 .. Len(ls) : l[j] = ls[j]
  OBVIOUS
<1>2. \A i \in 1 .. Len(ls) + 1 :
        /\ Cardinality(BoardIn(ls, i)) \in Nat
        /\ Cardinality(BoardIn(l, i)) =
              Cardinality(BoardIn(ls, i)) + (IF x.echo THEN 0 ELSE 1)
  <2>1. ASSUME NEW i \in 1 .. Len(ls) + 1
        PROVE  Cardinality(BoardIn(l, i)) =
                 Cardinality(BoardIn(ls, i)) + (IF x.echo THEN 0 ELSE 1)
    BY BoardAppend
  <2>2. ASSUME NEW i \in 1 .. Len(ls) + 1
        PROVE  Cardinality(BoardIn(ls, i)) \in Nat
    <3>1. i \in Nat
      OBVIOUS
    <3> QED BY <3>1, BoardSize
  <2> QED BY <2>1, <2>2
<1> HIDE DEF l
<1>3. ASSUME NEW i \in BoardIn(l, 1), i <= Len(ls)
      PROVE  /\ Cardinality(BoardIn(l, i + 1)) < m
             /\ l[i].text = p[m - Cardinality(BoardIn(l, i + 1))]
  <2>1. /\ i \in 1 .. Len(ls) /\ i + 1 \in 1 .. Len(ls) + 1
        /\ i \in BoardIn(ls, 1) /\ l[i] = ls[i]
    BY <1>1, <1>3 DEF BoardIn
  <2> DEFINE b == Cardinality(BoardIn(ls, i + 1))
             e == IF x.echo THEN 0 ELSE 1
  <2>2. b \in Nat /\ Cardinality(BoardIn(l, i + 1)) = b + e /\ e \in Nat
    BY <1>2, <2>1
  <2>3. b < n /\ ls[i].text = p[n - b] /\ m = n + e
    BY <2>1 DEF OnScreen
  <2> HIDE DEF b, e
  <2>4. b + e < m /\ m - (b + e) = n - b
    BY <2>2, <2>3
  <2> QED BY <2>1, <2>2, <2>3, <2>4
<1>4. ASSUME NEW i \in BoardIn(l, 1), i > Len(ls)
      PROVE  /\ Cardinality(BoardIn(l, i + 1)) < m
             /\ l[i].text = p[m - Cardinality(BoardIn(l, i + 1))]
  <2>1. i = Len(ls) + 1 /\ ~x.echo /\ m = n + 1
    BY <1>1, <1>4 DEF BoardIn
  <2>2. BoardIn(l, i + 1) = {}
    BY <1>1, <2>1 DEF BoardIn
  <2>3. Cardinality(BoardIn(l, i + 1)) = 0
    BY <2>2, FS_EmptySet
  <2> QED BY <1>1, <2>1, <2>3
<1>5. ASSUME Len(l) < MaxLines
      PROVE  Cardinality(BoardIn(l, 1)) = m
  <2>1. Len(ls) < MaxLines
    BY <1>1, <1>5, Granted
  <2> QED BY <1>1, <1>2, <2>1 DEF OnScreen
<1>6. \A i \in BoardIn(l, 1) : i \in Nat
  BY <1>1 DEF BoardIn
<1>7. OnScreen(l, p, m)
  BY <1>1, <1>3, <1>4, <1>5, <1>6 DEF OnScreen
<1> QED BY <1>7 DEF l

(* More lines are printed.                                                 *)
LEMMA OnScreenLonger ==
  ASSUME NEW ls \in Seq(Line), NEW p, NEW q, NEW n \in Nat, OnScreen(ls, p, n),
         \A j \in 1 .. n : q[j] = p[j]
  PROVE  OnScreen(ls, q, n)
<1> SUFFICES ASSUME NEW i \in BoardIn(ls, 1)
             PROVE  LET b == Cardinality(BoardIn(ls, i + 1)) IN
                      b < n /\ ls[i].text = q[n - b]
  BY DEF OnScreen
<1> DEFINE b == Cardinality(BoardIn(ls, i + 1))
<1>1. b < n /\ ls[i].text = p[n - b]
  BY DEF OnScreen
<1>2. i + 1 \in Nat
  BY DEF BoardIn
<1>3. b \in Nat
  BY <1>2, BoardSize
<1> HIDE DEF b
<1>4. n - b \in 1 .. n
  BY <1>1, <1>3
<1> QED BY <1>1, <1>4 DEF b

(* The oldest lines are dropped.                                           *)
LEMMA OnScreenTrimmed ==
  ASSUME NEW ls \in Seq(Line), NEW p, NEW n \in Nat, OnScreen(ls, p, n)
  PROVE  OnScreen(Screen!Trimmed(ls), p, n)
<1> DEFINE d == Dropped(ls)
           t == Screen!Trimmed(ls)
<1>1. /\ d \in Nat /\ Len(t) = Len(ls) - d /\ Len(ls) \in Nat
      /\ \A j \in 1 .. Len(ls) - d : t[j] = ls[j + d]
      /\ d > 0 => Len(t) = MaxLines
  BY TrimmedFacts
<1>2. \A i \in Nat \ {0} : Cardinality(BoardIn(t, i)) = Cardinality(BoardIn(ls, i + d))
  BY BoardTrimmed
<1> HIDE DEF d, t
<1>3. ASSUME NEW i \in BoardIn(t, 1)
      PROVE  /\ Cardinality(BoardIn(t, i + 1)) < n
             /\ t[i].text = p[n - Cardinality(BoardIn(t, i + 1))]
  <2>1. /\ i \in 1 .. Len(ls) - d /\ t[i] = ls[i + d] /\ i + d \in BoardIn(ls, 1)
        /\ (i + 1) + d = (i + d) + 1 /\ i + 1 \in Nat \ {0}
    BY <1>1 DEF BoardIn
  <2>2. Cardinality(BoardIn(t, i + 1)) = Cardinality(BoardIn(ls, (i + d) + 1))
    BY <1>2, <2>1
  <2> QED BY <2>1, <2>2 DEF OnScreen
<1>4. ASSUME Len(t) < MaxLines
      PROVE  Cardinality(BoardIn(t, 1)) = n
  <2>1. d = 0 /\ Len(ls) < MaxLines
    BY <1>1, <1>4, Granted
  <2>2. Cardinality(BoardIn(t, 1)) = Cardinality(BoardIn(ls, 1 + d)) /\ 1 + d = 1
    BY <1>2, <2>1
  <2> QED BY <2>1, <2>2 DEF OnScreen
<1>5. OnScreen(t, p, n)
  BY <1>3, <1>4 DEF OnScreen
<1> QED BY <1>5 DEF t

-----------------------------------------------------------------------------
LEMMA SameCardinality == \A S : Screen!Cardinality(S) = Cardinality(S)
BY DEF Screen!Cardinality, Cardinality

(* What Screen!Latest says of the lines that are not on the screen.        *)
Flow(k) ==
  /\ attached => k = Len(printed)
  /\ Screen!Shown(k) >= 0
  /\ \A j \in 1 .. Len(fromBoard) : fromBoard[j] = printed[Screen!Taken(k) + j]
  /\ pump = "send" => pumped = printed[Screen!Taken(k)]

(* Screen!Latest is that, and the lines on the screen.                     *)
LEMMA LatestParts ==
  ASSUME NEW k
  PROVE  /\ Screen!Latest(k) <=> Flow(k) /\ OnScreen(lines, printed, Screen!Shown(k))
         /\ Screen!Latest(k)' <=> Flow(k)' /\ OnScreen(lines', printed', Screen!Shown(k)')
<1>1. /\ \A i : Screen!BoardLines(i) = BoardIn(lines, i)
      /\ \A i : Screen!BoardLines(i)' = BoardIn(lines', i)
  BY DEF BoardIn, Screen!BoardLines
<1>2. ASSUME NEW i
      PROVE  /\ Screen!Below(i) = Cardinality(BoardIn(lines, i + 1))
             /\ Screen!Below(i)' = Cardinality(BoardIn(lines', i + 1))
  <2>1. Screen!BoardLines(i + 1) = BoardIn(lines, i + 1)
    BY <1>1
  <2>2. Screen!BoardLines(i + 1)' = BoardIn(lines', i + 1)
    BY <1>1
  <2>3. Screen!Below(i) = Cardinality(BoardIn(lines, i + 1))
    BY <2>1, SameCardinality DEF Screen!Below
  <2>4. Screen!Below(i)' = Cardinality(BoardIn(lines', i + 1))
    BY <2>2, SameCardinality DEF Screen!Below
  <2> QED BY <2>3, <2>4
<1>3. 0 + 1 = 1
  OBVIOUS
<1>4. Screen!Latest(k) <=> Flow(k) /\ OnScreen(lines, printed, Screen!Shown(k))
  BY <1>1, <1>2, <1>3, Zenon DEF Screen!Latest, Flow, OnScreen
<1>5. Screen!Latest(k)' <=> Flow(k)' /\ OnScreen(lines', printed', Screen!Shown(k)')
  BY <1>1, <1>2, <1>3, Zenon DEF Screen!Latest, Flow, OnScreen
<1> QED BY <1>4, <1>5

(* Every step of the screen and of the board keeps it, for k or k + 1.     *)
LEMMA LatestStep ==
  ASSUME Screen!TypeOK, NEW k \in 0 .. Len(printed), Screen!Latest(k), Screen!Next
  PROVE  Screen!LinesAreLatest'
<1> DEFINE n == Screen!Shown(k)
<1>1. /\ Flow(k) /\ OnScreen(lines, printed, n) /\ n \in Nat
      /\ Screen!Taken(k) = k - Len(fromBoard)
      /\ k \in Nat /\ Len(fromBoard) \in Nat /\ Len(printed) \in Nat
      /\ n = IF pump = "send" THEN Screen!Taken(k) - 1 ELSE Screen!Taken(k)
  <2>1. Flow(k) /\ OnScreen(lines, printed, n)
    BY LatestParts
  <2>2. Len(fromBoard) \in Nat /\ Len(printed) \in Nat
    BY DEF Screen!TypeOK
  <2> QED BY <2>1, <2>2 DEF Flow, Screen!Shown, Screen!Taken
<1>2. /\ lines \in Seq(Line) /\ fromBoard \in Seq(Seq(Byte)) /\ printed \in Seq(Seq(Byte))
      /\ pumped \in Seq(Byte)
  BY DEF Screen!TypeOK, Screen!LinesType, Line, Byte
<1>3. ASSUME NEW i \in 0 .. Len(printed'), Flow(i)', OnScreen(lines', printed', Screen!Shown(i)')
      PROVE  Screen!LinesAreLatest'
  BY <1>3, LatestParts DEF Screen!LinesAreLatest
<1> HIDE DEF n
<1>4. ASSUME UNCHANGED <<lines, fromBoard, printed, attached>>,
             \/ UNCHANGED <<pump, pumped>>
             \/ pump = "scan" /\ pump' = "done"
      PROVE  Screen!LinesAreLatest'
  <2>1. Flow(k)' /\ Screen!Shown(k)' = n
    BY <1>1, <1>4 DEF Flow, Screen!Shown, Screen!Taken
  <2> QED BY <1>1, <1>3, <1>4, <2>1
<1>5. ASSUME NEW line \in Seq(Byte), attached, Screen!Println(line),
             UNCHANGED <<lines, pump, pumped, attached>>
      PROVE  Screen!LinesAreLatest'
  <2>1. /\ k = Len(printed)
        /\ printed' = Append(printed, line) /\ fromBoard' = Append(fromBoard, line)
    BY <1>1, <1>5 DEF Flow, Screen!Println
  <2>2. /\ Len(printed') = k + 1 /\ printed'[k + 1] = line
        /\ \A j \in 1 .. k : printed'[j] = printed[j]
    BY <1>2, <2>1, <1>5
  <2>3. /\ Len(fromBoard') = Len(fromBoard) + 1
        /\ fromBoard'[Len(fromBoard) + 1] = line
        /\ \A j \in 1 .. Len(fromBoard) : fromBoard'[j] = fromBoard[j]
    BY <1>2, <2>1, <1>5
  <2>4. Screen!Taken(k + 1)' = Screen!Taken(k) /\ Screen!Shown(k + 1)' = n
    BY <1>1, <1>5, <2>3 DEF Screen!Taken, Screen!Shown
  <2>5. Flow(k + 1)'
    <3>1. ASSUME NEW j \in 1 .. Len(fromBoard')
          PROVE  fromBoard'[j] = printed'[Screen!Taken(k) + j]
      <4>1. CASE j = Len(fromBoard) + 1
        BY <1>1, <2>2, <2>3, <4>1
      <4>2. CASE j \in 1 .. Len(fromBoard)
        <5>1. Screen!Taken(k) + j \in 1 .. k
          BY <1>1, <4>2
        <5> QED BY <1>1, <2>2, <2>3, <4>2, <5>1 DEF Flow
      <4> QED BY <1>1, <2>3, <4>1, <4>2
    <3>2. pump' = "send" => pumped' = printed'[Screen!Taken(k)]
      BY <1>1, <1>5, <2>2 DEF Flow
    <3>3. k + 1 = Len(printed') /\ Screen!Shown(k + 1)' >= 0
      BY <1>1, <2>2, <2>4
    <3>4. attached' => k + 1 = Len(printed')
      BY <3>3
    <3>5. \A j \in 1 .. Len(fromBoard') : fromBoard'[j] = printed'[Screen!Taken(k + 1)' + j]
      BY <2>4, <3>1
    <3>6. pump' = "send" => pumped' = printed'[Screen!Taken(k + 1)']
      BY <2>4, <3>2
    <3> QED BY <3>3, <3>4, <3>5, <3>6, Zenon DEF Flow
  <2>6. OnScreen(lines', printed', n)
    BY <1>1, <1>2, <1>5, <2>2, OnScreenLonger
  <2> QED BY <1>1, <1>3, <2>2, <2>4, <2>5, <2>6
<1>6. CASE Screen!User
  BY <1>4, <1>6 DEF Screen!User, Screen!KeyEnter, Screen!KeySlash, Screen!KeyEdit, Screen!KeyEsc,
     Screen!KeyEnterRaw, Screen!KeyQuit, Screen!viewVars, Screen!pumpVars, Screen!boardVars
<1>7. ASSUME NEW c \in Commands, Screen!Write(c) \/ Screen!WriteFails(c)
      PROVE  Screen!LinesAreLatest'
  BY <1>4, <1>7 DEF Screen!Write, Screen!WriteFails, Screen!viewVars, Screen!pumpVars,
     Screen!boardVars
<1>8. ASSUME NEW c \in Commands, Screen!SentMsg(c)
      PROVE  Screen!LinesAreLatest'
  <2> DEFINE x == [echo |-> TRUE, text |-> Screen!Bytes(c)]
  <2>1. x \in Line /\ x.echo
    BY BytesFacts DEF Line
  <2>2. lines' = Append(lines, x) /\ UNCHANGED <<pump, pumped, fromBoard, printed, attached>>
    BY <1>8 DEF Screen!SentMsg, Screen!pumpVars, Screen!boardVars
  <2> HIDE DEF x
  <2>3. OnScreen(lines', printed', n)
    <3>1. n = n + (IF x.echo THEN 0 ELSE 1)
      BY <1>1, <2>1
    <3>2. OnScreen(Append(lines, x), printed, n)
      BY <1>1, <1>2, <2>1, <3>1, OnScreenAppend
    <3> QED BY <2>2, <3>2
  <2>4. Flow(k)' /\ Screen!Shown(k)' = n
    BY <1>1, <2>2 DEF Flow, Screen!Shown, Screen!Taken
  <2> QED BY <1>1, <1>3, <2>2, <2>3, <2>4
<1>9. CASE Screen!Scan
  <2>1. /\ pump = "scan" /\ pump' = "send" /\ fromBoard # <<>>
        /\ pumped' = Head(fromBoard) /\ fromBoard' = Tail(fromBoard)
        /\ UNCHANGED <<lines, printed, attached>>
    BY <1>9 DEF Screen!Scan, Screen!viewVars
  <2>2. /\ Len(fromBoard) >= 1 /\ Len(fromBoard') = Len(fromBoard) - 1
        /\ pumped' = fromBoard[1]
        /\ \A j \in 1 .. Len(fromBoard') : fromBoard'[j] = fromBoard[j + 1]
    BY <1>2, <2>1
  <2>3. Screen!Taken(k)' = Screen!Taken(k) + 1 /\ Screen!Shown(k)' = n
    BY <1>1, <2>1, <2>2 DEF Screen!Taken, Screen!Shown
  <2>4. Flow(k)'
    <3>1. pumped' = printed'[Screen!Taken(k) + 1]
      BY <1>1, <2>1, <2>2 DEF Flow
    <3>2. ASSUME NEW j \in 1 .. Len(fromBoard')
          PROVE  fromBoard'[j] = printed'[(Screen!Taken(k) + 1) + j]
      <4>1. /\ j + 1 \in 1 .. Len(fromBoard)
            /\ (Screen!Taken(k) + 1) + j = Screen!Taken(k) + (j + 1)
        BY <1>1, <2>2
      <4> QED BY <1>1, <2>1, <2>2, <4>1 DEF Flow
    <3> QED BY <1>1, <2>1, <2>3, <3>1, <3>2 DEF Flow
  <2> QED BY <1>1, <1>3, <2>1, <2>3, <2>4
<1>10. CASE Screen!ScanEnds
  BY <1>4, <1>10 DEF Screen!ScanEnds, Screen!viewVars, Screen!boardVars
<1>11. CASE Screen!LineMsg
  <2> DEFINE x == [echo |-> FALSE, text |-> pumped]
             l == Append(lines, x)
  <2>1. x \in Line /\ ~x.echo /\ x.text = pumped
    BY <1>2 DEF Line
  <2>2. /\ pump = "send" /\ pump' = "scan"
        /\ lines' = Screen!Trimmed(l)
        /\ UNCHANGED <<fromBoard, printed, attached>>
    BY <1>11 DEF Screen!LineMsg, Screen!boardVars
  <2>3. n + 1 = Screen!Taken(k) /\ pumped = printed[n + 1]
    BY <1>1, <2>2 DEF Flow
  <2> HIDE DEF x
  <2>4. OnScreen(l, printed, n + 1)
    <3>1. n + 1 = n + (IF x.echo THEN 0 ELSE 1)
      BY <1>1, <2>1
    <3> QED BY <1>1, <1>2, <2>1, <2>3, <3>1, OnScreenAppend
  <2>5. l \in Seq(Line)
    BY <1>2, <2>1, AppendType
  <2> HIDE DEF l
  <2>6. OnScreen(lines', printed', n + 1)
    BY <1>1, <2>2, <2>4, <2>5, OnScreenTrimmed
  <2>7. Flow(k)' /\ Screen!Shown(k)' = n + 1
    BY <1>1, <2>2, <2>3 DEF Flow, Screen!Shown, Screen!Taken
  <2> QED BY <1>1, <1>3, <2>2, <2>6, <2>7
<1>12. CASE Screen!ErrMsg
  BY <1>4, <1>12 DEF Screen!ErrMsg, Screen!pumpVars, Screen!boardVars
<1>13. CASE Screen!ReadByte
  <2>1. /\ attached /\ UNCHANGED <<lines, pump, pumped, attached>>
        /\ Screen!Println(cmdBuf) \/ UNCHANGED <<fromBoard, printed>>
    BY <1>13 DEF Screen!ReadByte, Screen!EndsLine, Screen!Collects, Screen!viewVars,
       Screen!pumpVars
  <2>2. cmdBuf \in Seq(Byte)
    BY DEF Screen!TypeOK, Byte
  <2> QED BY <1>4, <1>5, <2>1, <2>2
<1>14. CASE Screen!Beat
  <2>1. /\ attached /\ UNCHANGED <<lines, pump, pumped, attached>>
        /\ Screen!Println(Screen!Heartbeat)
    BY <1>14 DEF Screen!Beat, Screen!viewVars, Screen!pumpVars
  <2>2. Screen!Heartbeat \in Seq(Byte)
    BY DEF Screen!Heartbeat
  <2> QED BY <1>5, <2>1, <2>2
<1>15. CASE Screen!Unplug
  <2>1. PICK m \in 0 .. Len(fromBoard) : fromBoard' = SubSeq(fromBoard, 1, m)
    BY <1>15 DEF Screen!Unplug, Screen!Prefixes
  <2>2. ~attached' /\ UNCHANGED <<lines, pump, pumped, printed>>
    BY <1>15 DEF Screen!Unplug, Screen!viewVars, Screen!pumpVars
  <2>3. Len(fromBoard') = m /\ \A j \in 1 .. m : fromBoard'[j] = fromBoard[j]
    BY <1>2, <2>1
  <2> PICK i \in Int : i = k - (Len(fromBoard) - m)
    BY <1>1
  <2>4. Screen!Taken(i)' = Screen!Taken(k) /\ Screen!Shown(i)' = n
    <3>1. Screen!Taken(i)' = i - m
      BY <2>3 DEF Screen!Taken
    <3>2. i - m = Screen!Taken(k)
      BY <1>1
    <3> QED BY <1>1, <2>2, <3>1, <3>2 DEF Screen!Shown
  <2>5. i \in 0 .. Len(printed')
    BY <1>1, <2>2
  <2>6. Flow(i)'
    <3>1. Screen!Shown(i)' >= 0
      BY <1>1, <2>4
    <3>2. ASSUME NEW j \in 1 .. Len(fromBoard')
          PROVE  fromBoard'[j] = printed'[Screen!Taken(i)' + j]
      <4>1. j \in 1 .. m /\ j \in 1 .. Len(fromBoard)
        BY <1>1, <2>3
      <4>2. fromBoard[j] = printed[Screen!Taken(k) + j]
        BY <1>1, <4>1 DEF Flow
      <4>3. fromBoard'[j] = fromBoard[j]
        BY <2>3, <4>1
      <4> QED BY <2>2, <2>4, <4>2, <4>3
    <3>3. pump' = "send" => pumped' = printed'[Screen!Taken(i)']
      BY <1>1, <2>2, <2>4 DEF Flow
    <3> QED BY <2>2, <3>1, <3>2, <3>3, Zenon DEF Flow
  <2> QED BY <1>1, <1>3, <2>2, <2>4, <2>5, <2>6
<1>16. CASE Screen!Poll \/ Screen!PollEnds
  <2>1. UNCHANGED <<lines, pump, pumped, fromBoard, printed, attached>>
    BY <1>16 DEF Screen!Poll, Screen!PollEnds, Screen!viewVars, Screen!pumpVars
  <2> QED BY <1>4, <2>1
<1> QED BY <1>6, <1>7, <1>8, <1>9, <1>10, <1>11, <1>12, <1>13, <1>14, <1>15, <1>16
        DEF Screen!Next

-----------------------------------------------------------------------------
(* Echoes are counted as lines of the board are.                           *)
EchoesIn(ls, c) == {i \in 1 .. Len(ls) : ls[i].echo /\ ls[i].text = Screen!Bytes(c)}

(* They are finitely many.                                                 *)
LEMMA EchoesSize ==
  ASSUME NEW ls \in Seq(Line), NEW c
  PROVE  IsFiniteSet(EchoesIn(ls, c)) /\ Cardinality(EchoesIn(ls, c)) \in Nat
<1>1. IsFiniteSet(1 .. Len(ls))
  BY FS_Interval
<1>2. EchoesIn(ls, c) \in SUBSET (1 .. Len(ls))
  BY DEF EchoesIn
<1> QED BY <1>1, <1>2, FS_Subset, FS_CardinalityType

(* A line that is appended is one more of them if it echoes c.             *)
LEMMA EchoesAppend ==
  ASSUME NEW ls \in Seq(Line), NEW x \in Line, NEW c
  PROVE  Cardinality(EchoesIn(Append(ls, x), c)) =
           Cardinality(EchoesIn(ls, c)) + (IF x.echo /\ x.text = Screen!Bytes(c) THEN 1 ELSE 0)
<1>1. /\ Len(Append(ls, x)) = Len(ls) + 1
      /\ Append(ls, x)[Len(ls) + 1] = x
      /\ \A j \in 1 .. Len(ls) : Append(ls, x)[j] = ls[j]
      /\ Len(ls) \in Nat
  OBVIOUS
<1>2. IsFiniteSet(EchoesIn(ls, c)) /\ Cardinality(EchoesIn(ls, c)) \in Nat
  BY EchoesSize
<1>3. CASE ~(x.echo /\ x.text = Screen!Bytes(c))
  <2>1. EchoesIn(Append(ls, x), c) = EchoesIn(ls, c)
    BY <1>1, <1>3 DEF EchoesIn
  <2> QED BY <1>2, <1>3, <2>1
<1>4. CASE x.echo /\ x.text = Screen!Bytes(c)
  <2>1. EchoesIn(Append(ls, x), c) = EchoesIn(ls, c) \cup {Len(ls) + 1}
    BY <1>1, <1>4 DEF EchoesIn
  <2>2. Len(ls) + 1 \notin EchoesIn(ls, c)
    BY <1>1 DEF EchoesIn
  <2>3. Cardinality(EchoesIn(ls, c) \cup {Len(ls) + 1}) = Cardinality(EchoesIn(ls, c)) + 1
    BY <1>2, <2>2, FS_AddElement, Zenon
  <2> QED BY <1>4, <2>1, <2>3
<1> QED BY <1>3, <1>4

(* Only echoes that are dropped with the oldest lines are missing.         *)
LEMMA EchoesTrimmed ==
  ASSUME NEW ls \in Seq(Line), NEW c
  PROVE  /\ Cardinality(EchoesIn(Screen!Trimmed(ls), c)) <= Cardinality(EchoesIn(ls, c))
         /\ Dropped(ls) = 0 =>
              Cardinality(EchoesIn(Screen!Trimmed(ls), c)) = Cardinality(EchoesIn(ls, c))
<1> DEFINE d == Dropped(ls)
           t == Screen!Trimmed(ls)
           S == {j \in EchoesIn(ls, c) : j > d}
<1>1. /\ d \in Nat /\ Len(t) = Len(ls) - d /\ Len(ls) \in Nat
      /\ \A j \in 1 .. Len(ls) - d : t[j] = ls[j + d]
  BY TrimmedFacts
<1>2. IsFiniteSet(EchoesIn(ls, c))
  BY EchoesSize
<1>3. S \in SUBSET EchoesIn(ls, c)
  OBVIOUS
<1>4. IsFiniteSet(S) /\ Cardinality(S) <= Cardinality(EchoesIn(ls, c))
  BY <1>2, <1>3, FS_Subset
<1> HIDE DEF d, t
<1>5. S \in SUBSET Int /\ EchoesIn(t, c) \in SUBSET Int
  BY <1>1 DEF EchoesIn
<1>6. \A j \in Int : j \in EchoesIn(t, c) <=> j + d \in S
  BY <1>1 DEF EchoesIn
<1>7. d = 0 => S = EchoesIn(ls, c)
  BY <1>1 DEF EchoesIn
<1> HIDE DEF S
<1>8. Cardinality(EchoesIn(t, c)) = Cardinality(S)
  <2>1. d \in Int
    BY <1>1
  <2> QED BY ONLY <1>4, <1>5, <1>6, <2>1, ShiftedSize, Zenon
<1> QED BY <1>4, <1>7, <1>8 DEF d, t

(* The writes of a command among those of ws.                              *)
WritesIn(ws, c) == {k \in 1 .. Len(ws) : ws[k] = c}

(* A command that is written is one more of them if it is c.               *)
LEMMA WritesAppend ==
  ASSUME NEW ws \in Seq(Commands), NEW x \in Commands, NEW c
  PROVE  /\ Cardinality(WritesIn(ws, c)) \in Nat
         /\ Cardinality(WritesIn(Append(ws, x), c)) =
              Cardinality(WritesIn(ws, c)) + (IF x = c THEN 1 ELSE 0)
<1>1. /\ Len(Append(ws, x)) = Len(ws) + 1
      /\ Append(ws, x)[Len(ws) + 1] = x
      /\ \A j \in 1 .. Len(ws) : Append(ws, x)[j] = ws[j]
      /\ Len(ws) \in Nat
  OBVIOUS
<1>2. IsFiniteSet(WritesIn(ws, c)) /\ Cardinality(WritesIn(ws, c)) \in Nat
  <2>1. IsFiniteSet(1 .. Len(ws))
    BY FS_Interval
  <2>2. WritesIn(ws, c) \in SUBSET (1 .. Len(ws))
    BY DEF WritesIn
  <2> QED BY <2>1, <2>2, FS_Subset, FS_CardinalityType
<1>3. CASE x # c
  <2>1. WritesIn(Append(ws, x), c) = WritesIn(ws, c)
    BY <1>1, <1>3 DEF WritesIn
  <2> QED BY <1>2, <1>3, <2>1
<1>4. CASE x = c
  <2>1. WritesIn(Append(ws, x), c) = WritesIn(ws, c) \cup {Len(ws) + 1}
    BY <1>1, <1>4 DEF WritesIn
  <2>2. Len(ws) + 1 \notin WritesIn(ws, c)
    BY <1>1 DEF WritesIn
  <2>3. Cardinality(WritesIn(ws, c) \cup {Len(ws) + 1}) = Cardinality(WritesIn(ws, c)) + 1
    BY <1>2, <2>2, FS_AddElement, Zenon
  <2> QED BY <1>2, <1>4, <2>1, <2>3
<1> QED BY <1>3, <1>4

(* A command's echoes that are shown or wait to be, and its writes.        *)
EchoesOf(c) ==
  /\ echoes[c] + Cardinality(EchoesIn(lines, c)) <= Cardinality(WritesIn(written, c))
  /\ Len(lines) < MaxLines =>
       echoes[c] + Cardinality(EchoesIn(lines, c)) = Cardinality(WritesIn(written, c))

(* Screen!EchoesMatchWrites says that of each command.                     *)
LEMMA EchoesParts ==
  ASSUME Screen!TypeOK, Screen!TypeOK'
  PROVE  /\ Screen!EchoesMatchWrites <=> \A c \in Commands : EchoesOf(c)
         /\ Screen!EchoesMatchWrites' <=> \A c \in Commands : EchoesOf(c)'
<1>1. /\ DOMAIN lines = 1 .. Len(lines) /\ DOMAIN lines' = 1 .. Len(lines')
      /\ DOMAIN written = 1 .. Len(written) /\ DOMAIN written' = 1 .. Len(written')
  BY DEF Screen!TypeOK, Screen!LinesType
<1>2. ASSUME NEW c
      PROVE  /\ Screen!Echoed(c) = Cardinality(EchoesIn(lines, c))
             /\ Screen!Wrote(c) = Cardinality(WritesIn(written, c))
  BY <1>1, SameCardinality DEF Screen!Echoed, Screen!Wrote, EchoesIn, WritesIn
<1>3. ASSUME NEW c
      PROVE  /\ Screen!Echoed(c)' = Cardinality(EchoesIn(lines', c))
             /\ Screen!Wrote(c)' = Cardinality(WritesIn(written', c))
  BY <1>1, SameCardinality DEF Screen!Echoed, Screen!Wrote, EchoesIn, WritesIn
<1>4. Screen!EchoesMatchWrites <=> \A c \in Commands : EchoesOf(c)
  BY <1>2, Zenon DEF Screen!EchoesMatchWrites, EchoesOf
<1>5. Screen!EchoesMatchWrites' <=> \A c \in Commands : EchoesOf(c)'
  BY <1>3, Zenon DEF Screen!EchoesMatchWrites, EchoesOf
<1> QED BY <1>4, <1>5

(* Every step of the screen and of the board keeps it.                     *)
LEMMA EchoesStep ==
  ASSUME Screen!TypeOK, Screen!EchoesMatchWrites, Screen!Next
  PROVE  Screen!EchoesMatchWrites'
<1>1. Screen!TypeOK'
  BY ScreenTypeStep
<1>2. /\ lines \in Seq(Line) /\ written \in Seq(Commands) /\ Len(lines) \in Nat
      /\ echoes \in [Commands -> Nat]
      /\ \A c \in Commands : EchoesOf(c)
  <2>1. \A c \in Commands : EchoesOf(c)
    BY <1>1, EchoesParts, Zenon
  <2> QED BY <2>1 DEF Screen!TypeOK, Screen!LinesType, Line, Byte
<1>3. ASSUME \A c \in Commands : EchoesOf(c)'
      PROVE  Screen!EchoesMatchWrites'
  BY <1>1, <1>3, EchoesParts
<1>4. ASSUME UNCHANGED <<lines, echoes, written>>
      PROVE  Screen!EchoesMatchWrites'
  BY <1>2, <1>3, <1>4 DEF EchoesOf, EchoesIn, WritesIn
<1>5. CASE Screen!User
  BY <1>4, <1>5 DEF Screen!User, Screen!KeyEnter, Screen!KeySlash, Screen!KeyEdit, Screen!KeyEsc,
     Screen!KeyEnterRaw, Screen!KeyQuit, Screen!viewVars, Screen!senderVars
<1>6. CASE \/ \E c \in Commands : Screen!WriteFails(c)
           \/ Screen!Scan
           \/ Screen!ScanEnds
           \/ Screen!ErrMsg
           \/ Screen!Poll
           \/ Screen!PollEnds
           \/ Screen!ReadByte
           \/ Screen!Beat
           \/ Screen!Unplug
  BY <1>4, <1>6 DEF Screen!WriteFails, Screen!Scan, Screen!ScanEnds, Screen!ErrMsg,
     Screen!Poll, Screen!PollEnds, Screen!ReadByte, Screen!Beat, Screen!Unplug,
     Screen!viewVars, Screen!senderVars
<1>7. ASSUME NEW x \in Commands, Screen!Write(x)
      PROVE  Screen!EchoesMatchWrites'
  <2>1. /\ echoes' = [echoes EXCEPT ![x] = @ + 1] /\ written' = Append(written, x)
        /\ lines' = lines
    BY <1>7 DEF Screen!Write, Screen!viewVars
  <2>2. ASSUME NEW c \in Commands
        PROVE  EchoesOf(c)'
    <3>1. Cardinality(WritesIn(written', c)) =
            Cardinality(WritesIn(written, c)) + (IF x = c THEN 1 ELSE 0)
      BY <1>2, <2>1, WritesAppend
    <3>2. echoes'[c] = echoes[c] + (IF x = c THEN 1 ELSE 0)
      BY <1>2, <2>1
    <3>3. /\ Cardinality(WritesIn(written, c)) \in Nat
          /\ Cardinality(EchoesIn(lines, c)) \in Nat
          /\ echoes[c] \in Nat /\ EchoesOf(c)
      BY <1>2, WritesAppend, EchoesSize
    <3> QED BY <2>1, <3>1, <3>2, <3>3 DEF EchoesOf
  <2> QED BY <1>3, <2>2
<1>8. ASSUME NEW y \in Commands, Screen!SentMsg(y)
      PROVE  Screen!EchoesMatchWrites'
  <2> DEFINE x == [echo |-> TRUE, text |-> Screen!Bytes(y)]
  <2>1. x \in Line /\ x.echo /\ x.text = Screen!Bytes(y)
    BY BytesFacts DEF Line
  <2>2. /\ echoes' = [echoes EXCEPT ![y] = @ - 1] /\ lines' = Append(lines, x)
        /\ written' = written
    BY <1>8 DEF Screen!SentMsg
  <2> HIDE DEF x
  <2>3. ASSUME NEW c \in Commands
        PROVE  EchoesOf(c)'
    <3>1. (x.echo /\ x.text = Screen!Bytes(c)) <=> (y = c)
      BY <2>1, BytesDistinct
    <3>2. Cardinality(EchoesIn(lines', c)) =
            Cardinality(EchoesIn(lines, c)) + (IF y = c THEN 1 ELSE 0)
      BY <1>2, <2>1, <2>2, <3>1, EchoesAppend
    <3>3. echoes'[c] = echoes[c] - (IF y = c THEN 1 ELSE 0)
      BY <1>2, <2>2
    <3>4. /\ Cardinality(WritesIn(written, c)) \in Nat
          /\ Cardinality(EchoesIn(lines, c)) \in Nat
          /\ echoes[c] \in Nat /\ EchoesOf(c)
      BY <1>2, WritesAppend, EchoesSize
    <3>5. Len(lines') = Len(lines) + 1
      BY <1>2, <2>1, <2>2
    <3> QED BY <1>2, <2>2, <3>2, <3>3, <3>4, <3>5, Granted DEF EchoesOf
  <2> QED BY <1>3, <2>3
<1>9. CASE Screen!LineMsg
  <2> DEFINE x == [echo |-> FALSE, text |-> pumped]
             l == Append(lines, x)
  <2>1. x \in Line /\ ~x.echo
    BY DEF Line, Screen!TypeOK, Byte
  <2>2. lines' = Screen!Trimmed(l) /\ UNCHANGED <<echoes, written>>
    BY <1>9 DEF Screen!LineMsg, Screen!senderVars
  <2> HIDE DEF x
  <2>3. l \in Seq(Line) /\ Len(l) = Len(lines) + 1
    BY <1>2, <2>1, AppendType
  <2>4. ASSUME NEW c \in Commands
        PROVE  Cardinality(EchoesIn(l, c)) = Cardinality(EchoesIn(lines, c))
    <3>1. /\ Cardinality(EchoesIn(lines, c)) \in Nat
          /\ Cardinality(EchoesIn(l, c)) =
               Cardinality(EchoesIn(lines, c))
                 + (IF x.echo /\ x.text = Screen!Bytes(c) THEN 1 ELSE 0)
      BY <1>2, <2>1, EchoesAppend, EchoesSize
    <3> QED BY <2>1, <3>1
  <2> HIDE DEF l
  <2>5. ASSUME NEW c \in Commands
        PROVE  EchoesOf(c)'
    <3> DEFINE before == Cardinality(EchoesIn(lines, c))
               after == Cardinality(EchoesIn(lines', c))
    <3>1. /\ after <= before
          /\ Dropped(l) = 0 => after = before
      BY <2>2, <2>3, <2>4, EchoesTrimmed
    <3>2. lines' \in Seq(Line) /\ (Len(lines') < MaxLines => Dropped(l) = 0 /\ Len(lines) < MaxLines)
      <4>1. /\ lines' \in Seq(Line) /\ Len(lines') = Len(l) - Dropped(l)
            /\ Dropped(l) \in Nat /\ (Dropped(l) > 0 => Len(lines') = MaxLines)
        BY <2>2, <2>3, TrimmedFacts
      <4> QED BY <1>2, <2>3, <4>1, Granted
    <3>3. /\ Cardinality(WritesIn(written, c)) \in Nat
          /\ before \in Nat /\ after \in Nat /\ echoes[c] \in Nat
          /\ EchoesOf(c)
      BY <1>2, <3>2, WritesAppend, EchoesSize
    <3> HIDE DEF before, after
    <3>4. /\ echoes[c] + before <= Cardinality(WritesIn(written, c))
          /\ Len(lines) < MaxLines => echoes[c] + before = Cardinality(WritesIn(written, c))
      BY <3>3 DEF EchoesOf, before
    <3>5. /\ echoes[c] + after <= Cardinality(WritesIn(written, c))
          /\ Len(lines') < MaxLines => echoes[c] + after = Cardinality(WritesIn(written, c))
      BY <3>1, <3>2, <3>3, <3>4
    <3> QED BY <2>2, <3>5 DEF EchoesOf, after
  <2> QED BY <1>3, <2>5
<1> QED BY <1>5, <1>6, <1>7, <1>8, <1>9 DEF Screen!Next

-----------------------------------------------------------------------------
(* What cmdBuf holds of command c after k of its bytes.                    *)
First(c, k) == [i \in 1 .. (IF k < CmdBufSize THEN k ELSE CmdBufSize) |-> <<c, i>>]

(* It fits, and starts out empty.                                          *)
LEMMA FirstFacts ==
  ASSUME NEW c \in Commands, NEW k \in Nat
  PROVE  /\ First(c, k) \in Seq(Byte)
         /\ Len(First(c, k)) = IF k < CmdBufSize THEN k ELSE CmdBufSize
         /\ \A i \in 1 .. Len(First(c, k)) : First(c, k)[i] = <<c, i>>
         /\ First(c, 0) = <<>>
<1>1. CmdBufSize \in Nat \ {0}
  BY Granted
<1> DEFINE m == IF k < CmdBufSize THEN k ELSE CmdBufSize
<1>2. m \in Nat
  BY <1>1
<1>3. \A i \in 1 .. m : <<c, i>> \in Byte
  BY <1>2 DEF Byte
<1>4. First(c, k) = [i \in 1 .. m |-> <<c, i>>]
  BY DEF First
<1>5. First(c, 0) = <<>>
  <2>1. First(c, 0) = [i \in 1 .. 0 |-> <<c, i>>]
    BY <1>1 DEF First
  <2> QED BY <2>1
<1> HIDE DEF m
<1>6. First(c, k) \in Seq(Byte) /\ Len(First(c, k)) = m
  BY <1>2, <1>3, <1>4
<1>7. \A i \in 1 .. m : First(c, k)[i] = <<c, i>>
  BY <1>4
<1> QED BY <1>5, <1>6, <1>7 DEF m

(* All of its bytes: what it runs as.                                      *)
LEMMA FirstAll ==
  ASSUME NEW c \in Commands
  PROVE  First(c, Size[c]) = Screen!Cut(c) /\ Screen!Cut(c) # <<>>
<1> DEFINE m == IF Size[c] < CmdBufSize THEN Size[c] ELSE CmdBufSize
           b == Screen!Bytes(c)
<1>1. m \in 1 .. Size[c] /\ Size[c] \in Nat \ {0}
  BY BytesFacts, Granted
<1>2. b \in Seq(Byte) /\ Len(b) = Size[c] /\ \A k \in 1 .. Size[c] : b[k] = <<c, k>>
  BY BytesFacts
<1>3. Screen!Cut(c) = SubSeq(b, 1, m) /\ First(c, Size[c]) = [i \in 1 .. m |-> <<c, i>>]
  BY DEF Screen!Cut, First
<1> HIDE DEF m, b
<1>4. Len(SubSeq(b, 1, m)) = m /\ SubSeq(b, 1, m) = [i \in 1 .. m |-> b[i]]
  BY <1>1, <1>2
<1>5. [i \in 1 .. m |-> b[i]] = [i \in 1 .. m |-> <<c, i>>]
  BY <1>1, <1>2
<1>6. SubSeq(b, 1, m) # <<>>
  <2>1. Len(<<>>) = 0
    OBVIOUS
  <2>2. Len(SubSeq(b, 1, m)) # 0
    BY <1>1, <1>4
  <2> QED BY ONLY <2>1, <2>2
<1> QED BY <1>3, <1>4, <1>5, <1>6

(* One byte more: it is appended as long as there is room.                 *)
LEMMA FirstNext ==
  ASSUME NEW c \in Commands, NEW k \in Nat
  PROVE  First(c, k + 1) =
           IF Len(First(c, k)) < CmdBufSize THEN Append(First(c, k), <<c, k + 1>>) ELSE First(c, k)
<1>1. CmdBufSize \in Nat
  BY Granted
<1>2. CASE k < CmdBufSize
  <2> DEFINE f == First(c, k)
  <2>1. f \in Seq(Byte) /\ Len(f) = k /\ \A i \in 1 .. k : f[i] = <<c, i>>
    BY <1>2, FirstFacts
  <2>2. First(c, k + 1) = [i \in 1 .. k + 1 |-> <<c, i>>]
    BY <1>1, <1>2 DEF First
  <2> HIDE DEF f
  <2>3. Append(f, <<c, k + 1>>) = [i \in 1 .. k + 1 |-> IF i = k + 1 THEN <<c, k + 1>> ELSE f[i]]
    BY <2>1
  <2>4. \A i \in 1 .. k + 1 : (IF i = k + 1 THEN <<c, k + 1>> ELSE f[i]) = <<c, i>>
    BY <2>1
  <2>5. Append(f, <<c, k + 1>>) = First(c, k + 1)
    BY <2>2, <2>3, <2>4
  <2> QED BY <1>2, <2>1, <2>5 DEF f
<1>3. CASE ~(k < CmdBufSize)
  <2>1. First(c, k + 1) = First(c, k)
    BY <1>1, <1>3 DEF First
  <2> QED BY <1>1, <1>3, <2>1, FirstFacts
<1> QED BY <1>2, <1>3

-----------------------------------------------------------------------------
(* Byte k of the bytes t that are under way is byte at[k] of the line that *)
(* was written as line[k]-th.  They are all that is to come of the lines w *)
(* that were written, of which the firmware has run r, and b is what it    *)
(* has of the next one.                                                    *)
ByteAt(c, k) == IF k <= Size[c] THEN <<c, k>> ELSE <<>>

OnTheWay(t, w, b, r, line, at) ==
  /\ line \in [1 .. Len(t) -> 1 .. Len(w)]
  /\ at \in [1 .. Len(t) -> Nat]
  /\ \A k \in 1 .. Len(t) :
       at[k] \in 1 .. Size[w[line[k]]] + 1 /\ t[k] = ByteAt(w[line[k]], at[k])
  /\ \A k \in 1 .. Len(t) - 1 :
       IF at[k] <= Size[w[line[k]]]
         THEN line[k + 1] = line[k] /\ at[k + 1] = at[k] + 1
         ELSE line[k + 1] = line[k] + 1 /\ at[k + 1] = 1
  /\ Len(t) > 0 =>
       /\ line[1] = r + 1 /\ b = First(w[r + 1], at[1] - 1)
       /\ line[Len(t)] = Len(w) /\ at[Len(t)] = Size[w[Len(w)]] + 1
  /\ Len(t) = 0 => b = <<>>

InLine(t, w, b, r) == \E line, at : OnTheWay(t, w, b, r, line, at)

(* What the first byte under way says of the line buffer.                  *)
LEMMA HeadOfLine ==
  ASSUME NEW t \in Seq(Byte \cup {<<>>}), NEW w \in Seq(Commands), NEW b, NEW r \in Nat,
         NEW line, NEW at, OnTheWay(t, w, b, r, line, at), t # <<>>
  PROVE  \E c \in Commands :
           /\ r + 1 \in 1 .. Len(w) /\ w[r + 1] = c /\ line[1] = r + 1
           /\ Size[c] \in Nat
           /\ b = First(c, at[1] - 1)
           /\ Head(t) # <<>> => at[1] \in 1 .. Size[c] /\ Head(t) = ByteAt(c, at[1])
           /\ Head(t) = <<>> => at[1] = Size[c] + 1
<1>1. Len(t) \in Nat \ {0} /\ Head(t) = t[1] /\ 1 \in 1 .. Len(t)
  OBVIOUS
<1>2. /\ line[1] = r + 1 /\ b = First(w[r + 1], at[1] - 1) /\ line[1] \in 1 .. Len(w)
      /\ at[1] \in 1 .. Size[w[line[1]]] + 1 /\ t[1] = ByteAt(w[line[1]], at[1])
  BY <1>1 DEF OnTheWay
<1>3. PICK c \in Commands : w[r + 1] = c
  BY <1>2
<1>4. Size[c] \in Nat
  BY BytesFacts
<1>5. at[1] \in 1 .. Size[c] + 1 /\ Head(t) = ByteAt(c, at[1]) /\ b = First(c, at[1] - 1)
  BY <1>1, <1>2, <1>3
<1>6. at[1] <= Size[c] => Head(t) = <<c, at[1]>>
  BY <1>5 DEF ByteAt
<1>7. ~(at[1] <= Size[c]) => Head(t) = <<>>
  BY <1>5 DEF ByteAt
<1>8. <<c, at[1]>> # <<>>
  OBVIOUS
<1>9. ~(at[1] <= Size[c]) => at[1] = Size[c] + 1
  BY <1>4, <1>5
<1>10. /\ Head(t) # <<>> => at[1] <= Size[c]
       /\ Head(t) = <<>> => at[1] = Size[c] + 1
  BY ONLY <1>6, <1>7, <1>8, <1>9
<1>11. at[1] <= Size[c] => at[1] \in 1 .. Size[c] /\ Head(t) = ByteAt(c, at[1])
  BY <1>4, <1>5
<1>12. /\ r + 1 \in 1 .. Len(w) /\ w[r + 1] = c /\ line[1] = r + 1
       /\ Size[c] \in Nat
       /\ b = First(c, at[1] - 1)
  BY <1>2, <1>3, <1>4, <1>5
<1> WITNESS c \in Commands
<1> QED BY ONLY <1>10, <1>11, <1>12

(* The places of the bytes after the first.                                *)
LEMMA TailOfLine ==
  ASSUME NEW t \in Seq(Byte \cup {<<>>}), NEW w \in Seq(Commands), NEW b, NEW r \in Nat,
         NEW line, NEW at, OnTheWay(t, w, b, r, line, at), t # <<>>,
         NEW b2, NEW r2 \in Nat,
         Len(t) > 1 => line[2] = r2 + 1 /\ b2 = First(w[r2 + 1], at[2] - 1),
         Len(t) = 1 => b2 = <<>>
  PROVE  InLine(Tail(t), w, b2, r2)
<1> DEFINE n == Len(t) - 1
           u == Tail(t)
           line2 == [k \in 1 .. n |-> line[k + 1]]
           at2 == [k \in 1 .. n |-> at[k + 1]]
<1>1. /\ n \in Nat /\ Len(t) = n + 1
      /\ Len(u) = n /\ \A k \in 1 .. n : u[k] = t[k + 1]
  OBVIOUS
<1> HIDE DEF n, u
<1>2. \A k \in 1 .. n : k + 1 \in 1 .. Len(t)
  BY <1>1
<1>3. line2 \in [1 .. n -> 1 .. Len(w)] /\ at2 \in [1 .. n -> Nat]
  BY <1>2 DEF OnTheWay
<1>4. ASSUME NEW k \in 1 .. n
      PROVE  at2[k] \in 1 .. Size[w[line2[k]]] + 1 /\ u[k] = ByteAt(w[line2[k]], at2[k])
  BY <1>1, <1>2 DEF OnTheWay
<1>5. ASSUME NEW k \in 1 .. n - 1
      PROVE  IF at2[k] <= Size[w[line2[k]]]
               THEN line2[k + 1] = line2[k] /\ at2[k + 1] = at2[k] + 1
               ELSE line2[k + 1] = line2[k] + 1 /\ at2[k + 1] = 1
  <2>1. k \in 1 .. n /\ k + 1 \in 1 .. n /\ k + 1 \in 1 .. Len(t) - 1
    BY <1>1
  <2> QED BY <2>1 DEF OnTheWay
<1>6. ASSUME n > 0
      PROVE  /\ line2[1] = r2 + 1 /\ b2 = First(w[r2 + 1], at2[1] - 1)
             /\ line2[n] = Len(w) /\ at2[n] = Size[w[Len(w)]] + 1
  BY <1>1, <1>6 DEF OnTheWay
<1>7. n = 0 => b2 = <<>>
  BY <1>1
<1> HIDE DEF line2, at2
<1>8. OnTheWay(u, w, b2, r2, line2, at2)
  BY <1>1, <1>3, <1>4, <1>5, <1>6, <1>7 DEF OnTheWay
<1>9. InLine(u, w, b2, r2)
  BY <1>8 DEF InLine
<1> QED BY <1>9 DEF u

(* A byte of a command is taken, and kept if there is room: others of its  *)
(* line follow.                                                            *)
LEMMA ByteTaken ==
  ASSUME NEW t \in Seq(Byte \cup {<<>>}), NEW w \in Seq(Commands), NEW b, NEW r \in Nat,
         InLine(t, w, b, r), t # <<>>, Head(t) # <<>>,
         NEW b2, b2 = IF Len(b) < CmdBufSize THEN Append(b, Head(t)) ELSE b
  PROVE  InLine(Tail(t), w, b2, r) /\ Tail(t) # <<>>
<1>1. PICK line, at : OnTheWay(t, w, b, r, line, at)
  BY DEF InLine
<1>2. Len(t) \in Nat \ {0} /\ Len(Tail(t)) = Len(t) - 1
  OBVIOUS
<1>3. PICK c \in Commands :
        /\ r + 1 \in 1 .. Len(w) /\ w[r + 1] = c /\ line[1] = r + 1
        /\ Size[c] \in Nat
        /\ b = First(c, at[1] - 1)
        /\ Head(t) # <<>> => at[1] \in 1 .. Size[c] /\ Head(t) = ByteAt(c, at[1])
  BY <1>1, HeadOfLine
<1>4. at[1] <= Size[c] /\ Head(t) = <<c, at[1]>> /\ at[1] \in Nat \ {0}
  BY <1>3 DEF ByteAt
<1>5. Len(t) > 1
  <2>1. ASSUME Len(t) = 1
        PROVE  FALSE
    <3>1. line[1] = Len(w) /\ at[1] = Size[w[Len(w)]] + 1
      BY <1>1, <2>1 DEF OnTheWay
    <3>2. Size[w[Len(w)]] = Size[c]
      BY <1>3, <3>1
    <3> QED BY <1>3, <1>4, <3>1, <3>2
  <2> QED BY <1>2, <2>1
<1>6. line[2] = r + 1 /\ at[2] = at[1] + 1
  <2>1. 1 \in 1 .. Len(t) - 1 /\ 1 + 1 = 2
    BY <1>2, <1>5
  <2>2. at[1] <= Size[w[line[1]]]
    BY <1>3, <1>4
  <2>3. line[1 + 1] = line[1] /\ at[1 + 1] = at[1] + 1
    BY <1>1, <2>1, <2>2 DEF OnTheWay
  <2> QED BY <1>3, <2>1, <2>3
<1>7. b2 = First(c, at[1])
  <2> DEFINE k == at[1] - 1
  <2>1. k \in Nat /\ k + 1 = at[1]
    BY <1>4
  <2>2. First(c, k + 1) =
          IF Len(First(c, k)) < CmdBufSize THEN Append(First(c, k), <<c, k + 1>>) ELSE First(c, k)
    BY <2>1, FirstNext
  <2>3. b = First(c, k)
    BY <1>3
  <2> HIDE DEF k
  <2> QED BY <1>4, <2>1, <2>2, <2>3
<1>8. b2 = First(w[r + 1], at[2] - 1)
  <2>1. at[2] - 1 = at[1]
    BY <1>4, <1>6
  <2> QED BY <1>3, <1>7, <2>1
<1>9. InLine(Tail(t), w, b2, r)
  <2>1. Len(t) = 1 => b2 = <<>>
    BY <1>5
  <2> QED BY <1>1, <1>6, <1>8, <2>1, TailOfLine
<1>10. Tail(t) # <<>>
  <2>1. Len(<<>>) = 0
    OBVIOUS
  <2>2. Len(Tail(t)) # 0
    BY <1>2, <1>5
  <2> QED BY ONLY <2>1, <2>2
<1> QED BY <1>9, <1>10

(* A newline is taken: the line buffer holds what the next line runs as,   *)
(* and starts anew.                                                        *)
LEMMA NewlineTaken ==
  ASSUME NEW t \in Seq(Byte \cup {<<>>}), NEW w \in Seq(Commands), NEW b, NEW r \in Nat,
         InLine(t, w, b, r), t # <<>>, Head(t) = <<>>
  PROVE  /\ r + 1 \in 1 .. Len(w)
         /\ b = Screen!Cut(w[r + 1]) /\ b # <<>>
         /\ InLine(Tail(t), w, <<>>, r + 1)
         /\ Tail(t) = <<>> => r + 1 = Len(w)
<1>1. PICK line, at : OnTheWay(t, w, b, r, line, at)
  BY DEF InLine
<1>2. Len(t) \in Nat \ {0} /\ Len(Tail(t)) = Len(t) - 1
  OBVIOUS
<1>3. PICK c \in Commands :
        /\ r + 1 \in 1 .. Len(w) /\ w[r + 1] = c /\ line[1] = r + 1
        /\ Size[c] \in Nat
        /\ b = First(c, at[1] - 1)
        /\ Head(t) = <<>> => at[1] = Size[c] + 1
  BY <1>1, HeadOfLine
<1>4. b = Screen!Cut(c) /\ b # <<>>
  <2>1. at[1] - 1 = Size[c]
    BY <1>3
  <2>2. b = First(c, Size[c])
    BY <1>3, <2>1
  <2> QED BY <2>2, FirstAll
<1>5. ASSUME Len(t) > 1
      PROVE  line[2] = (r + 1) + 1 /\ <<>> = First(w[(r + 1) + 1], at[2] - 1)
  <2>1. 1 \in 1 .. Len(t) - 1 /\ 1 + 1 = 2 /\ 2 \in 1 .. Len(t)
    BY <1>2, <1>5
  <2>2. ~(at[1] <= Size[w[line[1]]])
    BY <1>3
  <2>3. line[1 + 1] = line[1] + 1 /\ at[1 + 1] = 1 /\ line[2] \in 1 .. Len(w)
    BY <1>1, <2>1, <2>2 DEF OnTheWay
  <2>4. line[2] = (r + 1) + 1 /\ at[2] - 1 = 0
    BY <1>3, <2>1, <2>3
  <2>5. w[(r + 1) + 1] \in Commands
    BY <2>3, <2>4
  <2>6. First(w[(r + 1) + 1], 0) = <<>>
    BY <2>5, FirstFacts
  <2> QED BY <2>4, <2>6
<1>6. InLine(Tail(t), w, <<>>, r + 1)
  <2>1. r + 1 \in Nat
    OBVIOUS
  <2> DEFINE e == <<>>
  <2>2. Len(t) > 1 => line[2] = (r + 1) + 1 /\ e = First(w[(r + 1) + 1], at[2] - 1)
    BY <1>5
  <2>3. Len(t) = 1 => e = <<>>
    OBVIOUS
  <2> HIDE DEF e
  <2>4. InLine(Tail(t), w, e, r + 1)
    BY <1>1, <2>1, <2>2, <2>3, TailOfLine
  <2> QED BY <2>4 DEF e
<1>7. ASSUME Tail(t) = <<>>
      PROVE  r + 1 = Len(w)
  <2>1. Len(<<>>) = 0
    OBVIOUS
  <2>2. Len(Tail(t)) = 0
    BY ONLY <1>7, <2>1
  <2>3. Len(t) = 1
    BY ONLY <1>2, <2>2
  <2>4. line[1] = Len(w)
    BY <1>1, <2>3 DEF OnTheWay
  <2> QED BY <1>3, <2>4
<1> QED BY <1>3, <1>4, <1>6, <1>7

(* One more line is written.                                               *)
LEMMA LineWritten ==
  ASSUME NEW t \in Seq(Byte \cup {<<>>}), NEW w \in Seq(Commands), NEW b, NEW r \in Nat,
         InLine(t, w, b, r), t = <<>> => r = Len(w), NEW c \in Commands,
         NEW u, u = t \o Append(Screen!Bytes(c), Screen!Newline)
  PROVE  InLine(u, Append(w, c), b, r)
<1>1. PICK line, at : OnTheWay(t, w, b, r, line, at)
  BY DEF InLine
<1>2. PICK n \in Nat : n = Len(t)
  OBVIOUS
<1>3. PICK z \in Nat \ {0} : z = Size[c]
  BY BytesFacts
<1>4. PICK v : v = Append(w, c)
  OBVIOUS
<1>5. /\ v \in Seq(Commands) /\ Len(v) = Len(w) + 1 /\ v[Len(w) + 1] = c /\ Len(w) \in Nat
      /\ \A k \in 1 .. Len(w) : v[k] = w[k]
  BY <1>4
<1>6. /\ u \in Seq(Byte \cup {<<>>})
      /\ Len(u) = n + z + 1
      /\ \A k \in 1 .. n : u[k] = t[k]
      /\ \A k \in 1 .. z : u[n + k] = <<c, k>>
      /\ u[Len(u)] = <<>>
  <2>1. /\ u \in Seq(Byte \cup {<<>>})
        /\ Len(u) = Len(t) + Size[c] + 1
        /\ \A k \in 1 .. Len(t) : u[k] = t[k]
        /\ \A k \in 1 .. Size[c] : u[Len(t) + k] = <<c, k>>
        /\ u[Len(u)] = <<>>
    BY LineOut
  <2> QED BY ONLY <1>2, <1>3, <2>1
<1>7. /\ line \in [1 .. n -> 1 .. Len(w)] /\ at \in [1 .. n -> Nat]
      /\ \A k \in 1 .. n :
           at[k] \in 1 .. Size[w[line[k]]] + 1 /\ t[k] = ByteAt(w[line[k]], at[k])
      /\ \A k \in 1 .. n - 1 :
           IF at[k] <= Size[w[line[k]]]
             THEN line[k + 1] = line[k] /\ at[k + 1] = at[k] + 1
             ELSE line[k + 1] = line[k] + 1 /\ at[k + 1] = 1
  BY <1>1, <1>2 DEF OnTheWay
<1>8. /\ n > 0 => /\ line[1] = r + 1 /\ b = First(w[r + 1], at[1] - 1)
                  /\ line[n] = Len(w) /\ at[n] = Size[w[Len(w)]] + 1
      /\ n = 0 => b = <<>> /\ r = Len(w)
  <2>1. Len(t) = 0 => t = <<>>
    OBVIOUS
  <2> QED BY <1>1, <1>2, <2>1 DEF OnTheWay
<1> DEFINE line2 == [k \in 1 .. n + z + 1 |-> IF k <= n THEN line[k] ELSE Len(w) + 1]
           at2 == [k \in 1 .. n + z + 1 |-> IF k <= n THEN at[k] ELSE k - n]
(* The places of the bytes that were under way ...                         *)
<1>9. ASSUME NEW k \in 1 .. n
      PROVE  /\ line2[k] = line[k] /\ at2[k] = at[k] /\ u[k] = t[k]
             /\ line[k] \in 1 .. Len(w) /\ v[line[k]] = w[line[k]] /\ at[k] \in Nat
             /\ Size[w[line[k]]] \in Nat
  <2>1. k \in 1 .. n + z + 1 /\ k <= n
    OBVIOUS
  <2>2. line2[k] = line[k] /\ at2[k] = at[k]
    BY <2>1
  <2>3. line[k] \in 1 .. Len(w) /\ at[k] \in Nat
    BY <1>7
  <2>4. w[line[k]] \in Commands
    BY <2>3
  <2>5. Size[w[line[k]]] \in Nat
    BY <2>4, BytesFacts
  <2> HIDE DEF line2, at2
  <2> QED BY <1>5, <1>6, <2>2, <2>3, <2>5
(* ... and those of the line that is written.                              *)
<1>10. ASSUME NEW k \in 1 .. z + 1
       PROVE  /\ line2[n + k] = Len(w) + 1 /\ at2[n + k] = k
              /\ u[n + k] = ByteAt(c, k)
  <2>1. n + k \in 1 .. n + z + 1 /\ ~(n + k <= n) /\ (n + k) - n = k
    OBVIOUS
  <2>2. line2[n + k] = Len(w) + 1 /\ at2[n + k] = k
    BY <2>1
  <2> HIDE DEF line2, at2
  <2>3. CASE k <= z
    <3>1. k \in 1 .. z
      BY <2>3
    <3>2. u[n + k] = <<c, k>>
      BY <1>6, <3>1
    <3> QED BY <1>3, <2>2, <2>3, <3>2 DEF ByteAt
  <2>4. CASE k = z + 1
    <3>1. n + k = n + z + 1 /\ ~(k <= z)
      BY <2>4
    <3>2. u[n + k] = <<>>
      BY <1>6, <3>1
    <3> QED BY <1>3, <2>2, <3>1, <3>2 DEF ByteAt
  <2>5. k <= z \/ k = z + 1
    OBVIOUS
  <2> QED BY <2>3, <2>4, <2>5
<1>11. line2 \in [1 .. Len(u) -> 1 .. Len(v)] /\ at2 \in [1 .. Len(u) -> Nat]
  <2>1. ASSUME NEW k \in 1 .. n + z + 1
        PROVE  /\ (IF k <= n THEN line[k] ELSE Len(w) + 1) \in 1 .. Len(v)
               /\ (IF k <= n THEN at[k] ELSE k - n) \in Nat
    <3>1. CASE k <= n
      <4>1. line[k] \in 1 .. Len(w) /\ at[k] \in Nat
        BY <1>7, <3>1
      <4> QED BY <1>5, <3>1, <4>1
    <3>2. CASE k > n
      BY <1>5, <3>2
    <3> QED BY <3>1, <3>2
  <2> QED BY <1>6, <2>1
<1>12. ASSUME NEW k \in 1 .. Len(u), k > n
       PROVE  \E j \in 1 .. z + 1 : k = n + j
  <2>1. k - n \in 1 .. z + 1 /\ k = n + (k - n)
    BY <1>6, <1>12
  <2> QED BY <2>1
<1> HIDE DEF line2, at2
<1>13. ASSUME NEW k \in 1 .. Len(u)
       PROVE  at2[k] \in 1 .. Size[v[line2[k]]] + 1 /\ u[k] = ByteAt(v[line2[k]], at2[k])
  <2>1. CASE k <= n
    <3>1. k \in 1 .. n
      BY <2>1
    <3>2. /\ line2[k] = line[k] /\ at2[k] = at[k] /\ u[k] = t[k]
          /\ v[line[k]] = w[line[k]]
      BY <1>9, <3>1
    <3>3. at[k] \in 1 .. Size[w[line[k]]] + 1 /\ t[k] = ByteAt(w[line[k]], at[k])
      BY <1>7, <3>1
    <3> QED BY ONLY <3>2, <3>3
  <2>2. CASE k > n
    <3>1. PICK j \in 1 .. z + 1 : k = n + j
      BY <1>12, <2>2
    <3>2. line2[k] = Len(w) + 1 /\ at2[k] = j /\ u[k] = ByteAt(c, j) /\ v[line2[k]] = c
      BY <1>5, <1>10, <3>1
    <3> QED BY <1>3, <3>2
  <2> QED BY <2>1, <2>2
<1>14. ASSUME NEW k \in 1 .. Len(u) - 1
       PROVE  IF at2[k] <= Size[v[line2[k]]]
                THEN line2[k + 1] = line2[k] /\ at2[k + 1] = at2[k] + 1
                ELSE line2[k + 1] = line2[k] + 1 /\ at2[k + 1] = 1
  <2>1. CASE k < n
    <3>1. k \in 1 .. n /\ k + 1 \in 1 .. n /\ k \in 1 .. n - 1
      BY <2>1
    <3>2. /\ line2[k] = line[k] /\ at2[k] = at[k] /\ v[line[k]] = w[line[k]]
          /\ line2[k + 1] = line[k + 1] /\ at2[k + 1] = at[k + 1]
      BY <1>9, <3>1
    <3>3. IF at[k] <= Size[w[line[k]]]
            THEN line[k + 1] = line[k] /\ at[k + 1] = at[k] + 1
            ELSE line[k + 1] = line[k] + 1 /\ at[k + 1] = 1
      BY <1>7, <3>1
    <3> QED BY ONLY <3>2, <3>3
  <2>2. CASE k = n
    <3>1. k \in 1 .. n /\ 1 \in 1 .. z + 1 /\ n > 0
      BY <2>2
    <3>2. line2[k] = Len(w) /\ at2[k] = Size[w[Len(w)]] + 1 /\ v[line2[k]] = w[Len(w)]
          /\ Size[w[Len(w)]] \in Nat
      BY <1>8, <1>9, <2>2, <3>1
    <3>3. line2[k + 1] = Len(w) + 1 /\ at2[k + 1] = 1
      BY <1>10, <2>2, <3>1
    <3>4. ~(at2[k] <= Size[v[line2[k]]])
      BY <3>2
    <3> QED BY <3>2, <3>3, <3>4
  <2>3. CASE k > n
    <3>1. k \in 1 .. Len(u)
      BY <1>6
    <3>2. PICK j \in 1 .. z + 1 : k = n + j
      BY <1>12, <2>3, <3>1
    <3>3. j \in 1 .. z /\ j + 1 \in 1 .. z + 1 /\ k + 1 = n + (j + 1)
      <4>1. k <= n + z
        BY <1>6
      <4>2. j <= z
        BY <3>2, <4>1
      <4> QED BY <3>2, <4>2
    <3>4. /\ line2[k] = Len(w) + 1 /\ at2[k] = j
          /\ line2[k + 1] = Len(w) + 1 /\ at2[k + 1] = j + 1
      BY <1>10, <3>2, <3>3
    <3>5. v[line2[k]] = c
      BY <1>5, <3>4
    <3> QED BY <1>3, <3>3, <3>4, <3>5
  <2> QED BY <1>6, <2>1, <2>2, <2>3
<1>15. /\ line2[1] = r + 1 /\ b = First(v[r + 1], at2[1] - 1)
       /\ line2[Len(u)] = Len(v) /\ at2[Len(u)] = Size[v[Len(v)]] + 1
  <2>1. line2[Len(u)] = Len(v) /\ at2[Len(u)] = Size[v[Len(v)]] + 1
    <3>1. z + 1 \in 1 .. z + 1 /\ n + (z + 1) = Len(u)
      BY <1>6
    <3>2. line2[Len(u)] = Len(w) + 1 /\ at2[Len(u)] = z + 1
      BY <1>10, <3>1
    <3> QED BY <1>3, <1>5, <3>2
  <2>2. CASE n > 0
    <3>1. 1 \in 1 .. n
      BY <2>2
    <3>2. line2[1] = line[1] /\ at2[1] = at[1] /\ v[line[1]] = w[line[1]]
      BY <1>9, <3>1
    <3> QED BY <1>8, <2>1, <2>2, <3>2
  <2>3. CASE n = 0
    <3>1. 1 \in 1 .. z + 1 /\ n + 1 = 1
      BY <2>3
    <3>2. line2[1] = Len(w) + 1 /\ at2[1] = 1
      BY <1>10, <3>1
    <3>3. b = <<>> /\ r = Len(w) /\ First(c, 0) = <<>>
      BY <1>8, <2>3, FirstFacts
    <3>4. v[r + 1] = c /\ at2[1] - 1 = 0
      BY <1>5, <3>2, <3>3
    <3> QED BY <2>1, <3>2, <3>3, <3>4
  <2> QED BY <2>2, <2>3
<1>16. OnTheWay(u, v, b, r, line2, at2)
  <2>1. Len(u) > 0 /\ Len(u) # 0
    BY <1>6
  <2> QED BY <1>11, <1>13, <1>14, <1>15, <2>1 DEF OnTheWay
<1> QED BY <1>4, <1>16 DEF InLine

-----------------------------------------------------------------------------
(* The answers among the first k lines p that were printed.                *)
AnswersIn(p, k) == {j \in 1 .. k : p[j] # <<>>}

(* They are finitely many.                                                 *)
LEMMA AnswersSize ==
  ASSUME NEW p, NEW k \in Nat
  PROVE  /\ IsFiniteSet(AnswersIn(p, k))
         /\ Cardinality(AnswersIn(p, k)) \in Nat
<1>1. IsFiniteSet(1 .. k)
  BY FS_Interval
<1>2. AnswersIn(p, k) \in SUBSET (1 .. k)
  BY DEF AnswersIn
<1> QED BY <1>1, <1>2, FS_Subset, FS_CardinalityType

(* An answer is numbered from 1, and within the answers there are.         *)
LEMMA AnswersRank ==
  ASSUME NEW p, NEW n \in Nat, NEW k \in AnswersIn(p, n)
  PROVE  Cardinality(AnswersIn(p, k)) \in 1 .. Cardinality(AnswersIn(p, n))
<1>1. k \in 1 .. n
  BY DEF AnswersIn
<1>2. /\ IsFiniteSet(AnswersIn(p, k)) /\ Cardinality(AnswersIn(p, k)) \in Nat
      /\ IsFiniteSet(AnswersIn(p, n)) /\ Cardinality(AnswersIn(p, n)) \in Nat
  <2>1. k \in Nat
    BY <1>1
  <2> QED BY <2>1, AnswersSize
<1>3. AnswersIn(p, k) \in SUBSET AnswersIn(p, n)
  BY <1>1 DEF AnswersIn
<1>4. Cardinality(AnswersIn(p, k)) <= Cardinality(AnswersIn(p, n))
  BY <1>2, <1>3, FS_Subset
<1>5. k \in AnswersIn(p, k)
  BY <1>1 DEF AnswersIn
<1>6. Cardinality(AnswersIn(p, k)) # 0
  BY <1>2, <1>5, FS_EmptySet
<1> QED BY <1>2, <1>4, <1>6

(* A line that is printed is one answer more, or none.                     *)
LEMMA AnswersAppend ==
  ASSUME NEW p \in Seq(Seq(Byte)), NEW x \in Seq(Byte)
  PROVE  /\ \A k \in 0 .. Len(p) : AnswersIn(Append(p, x), k) = AnswersIn(p, k)
         /\ Cardinality(AnswersIn(Append(p, x), Len(p) + 1)) =
              Cardinality(AnswersIn(p, Len(p))) + (IF x = <<>> THEN 0 ELSE 1)
<1>1. PICK q : q = Append(p, x)
  OBVIOUS
<1>2. PICK n \in Nat : n = Len(p)
  OBVIOUS
<1>3. q[n + 1] = x /\ \A j \in 1 .. n : q[j] = p[j]
  BY <1>1, <1>2
<1>4. ASSUME NEW k \in 0 .. n
      PROVE  AnswersIn(q, k) = AnswersIn(p, k)
  BY <1>3 DEF AnswersIn
<1>5. IsFiniteSet(AnswersIn(p, n)) /\ Cardinality(AnswersIn(p, n)) \in Nat
  BY AnswersSize
<1>6. CASE x = <<>>
  <2>1. AnswersIn(q, n + 1) = AnswersIn(p, n)
    BY <1>3, <1>6 DEF AnswersIn
  <2> QED BY <1>1, <1>2, <1>4, <1>5, <1>6, <2>1
<1>7. CASE x # <<>>
  <2>1. AnswersIn(q, n + 1) = AnswersIn(p, n) \cup {n + 1}
    BY <1>3, <1>7 DEF AnswersIn
  <2>2. n + 1 \notin AnswersIn(p, n)
    BY DEF AnswersIn
  <2>3. Cardinality(AnswersIn(p, n) \cup {n + 1}) = Cardinality(AnswersIn(p, n)) + 1
    BY <1>5, <2>2, FS_AddElement, Zenon
  <2> QED BY <1>1, <1>2, <1>4, <1>7, <2>1, <2>3
<1> QED BY <1>6, <1>7

(* The answers among the lines p are those of the first lines of w, in     *)
(* their order.                                                            *)
RunsOf(p, w) ==
  /\ Cardinality(AnswersIn(p, Len(p))) <= Len(w)
  /\ \A k \in AnswersIn(p, Len(p)) : p[k] = Screen!Cut(w[Cardinality(AnswersIn(p, k))])

(* A line that is written comes after the lines that were run.             *)
LEMMA RunsWritten ==
  ASSUME NEW p \in Seq(Seq(Byte)), NEW w \in Seq(Commands), NEW c \in Commands, RunsOf(p, w)
  PROVE  RunsOf(p, Append(w, c))
<1>1. PICK v : v = Append(w, c)
  OBVIOUS
<1>2. /\ Len(v) = Len(w) + 1 /\ Len(w) \in Nat /\ Len(p) \in Nat
      /\ \A j \in 1 .. Len(w) : v[j] = w[j]
  BY <1>1
<1>3. /\ Cardinality(AnswersIn(p, Len(p))) \in Nat
      /\ Cardinality(AnswersIn(p, Len(p))) <= Len(w)
  BY <1>2, AnswersSize DEF RunsOf
<1>4. ASSUME NEW k \in AnswersIn(p, Len(p))
      PROVE  p[k] = Screen!Cut(v[Cardinality(AnswersIn(p, k))])
  <2>1. Cardinality(AnswersIn(p, k)) \in 1 .. Cardinality(AnswersIn(p, Len(p)))
    BY <1>2, AnswersRank
  <2>2. Cardinality(AnswersIn(p, k)) \in 1 .. Len(w)
    BY <1>2, <1>3, <2>1
  <2>3. v[Cardinality(AnswersIn(p, k))] = w[Cardinality(AnswersIn(p, k))]
    BY <1>2, <2>2
  <2> QED BY <2>3 DEF RunsOf
<1>5. Cardinality(AnswersIn(p, Len(p))) <= Len(v)
  BY <1>2, <1>3
<1> QED BY <1>1, <1>4, <1>5 DEF RunsOf

(* A line that is printed answers nothing, or the next line of w.          *)
LEMMA RunsPrinted ==
  ASSUME NEW p \in Seq(Seq(Byte)), NEW w \in Seq(Commands), NEW x \in Seq(Byte), RunsOf(p, w),
         \/ x = <<>>
         \/ /\ Cardinality(AnswersIn(p, Len(p))) + 1 <= Len(w)
            /\ x = Screen!Cut(w[Cardinality(AnswersIn(p, Len(p))) + 1])
  PROVE  RunsOf(Append(p, x), w)
<1>1. PICK q : q = Append(p, x)
  OBVIOUS
<1>2. PICK n \in Nat : n = Len(p)
  OBVIOUS
<1>3. PICK r \in Nat : r = Cardinality(AnswersIn(p, n))
  BY AnswersSize
<1>4. /\ Len(q) = n + 1 /\ q[n + 1] = x /\ \A j \in 1 .. n : q[j] = p[j]
      /\ Len(w) \in Nat
  BY <1>1, <1>2
<1>5. /\ \A k \in 0 .. n : AnswersIn(q, k) = AnswersIn(p, k)
      /\ Cardinality(AnswersIn(q, n + 1)) = r + (IF x = <<>> THEN 0 ELSE 1)
  BY <1>1, <1>2, <1>3, AnswersAppend
<1>6. /\ r <= Len(w)
      /\ \A k \in AnswersIn(p, n) : p[k] = Screen!Cut(w[Cardinality(AnswersIn(p, k))])
  BY <1>2, <1>3 DEF RunsOf
<1>7. x = <<>> \/ (r + 1 <= Len(w) /\ x = Screen!Cut(w[r + 1]))
  BY <1>2, <1>3
<1>8. Cardinality(AnswersIn(q, Len(q))) <= Len(w)
  BY <1>4, <1>5, <1>6, <1>7
<1>9. ASSUME NEW k \in AnswersIn(q, Len(q))
      PROVE  q[k] = Screen!Cut(w[Cardinality(AnswersIn(q, k))])
  <2>1. k \in 1 .. n + 1 /\ q[k] # <<>>
    BY <1>4 DEF AnswersIn
  <2>2. CASE k \in 1 .. n
    <3>1. q[k] = p[k] /\ AnswersIn(q, k) = AnswersIn(p, k)
      BY <1>4, <1>5, <2>2
    <3>2. k \in AnswersIn(p, n)
      BY <2>1, <2>2, <3>1 DEF AnswersIn
    <3> QED BY <1>6, <3>1, <3>2
  <2>3. CASE k = n + 1
    <3>1. x # <<>>
      BY <1>4, <2>1, <2>3
    <3>2. Cardinality(AnswersIn(q, k)) = r + 1
      BY <1>5, <2>3, <3>1
    <3> QED BY <1>4, <1>7, <2>3, <3>1, <3>2
  <2> QED BY <2>1, <2>2, <2>3
<1> QED BY <1>1, <1>8, <1>9 DEF RunsOf

-----------------------------------------------------------------------------
(* The invariant under RunsAsWritten: what is under way and what is in the *)
(* line buffer are the rest of the lines that were written.                *)
Runs == Cardinality(AnswersIn(printed, Len(printed)))

RunsInv ==
  /\ ~attached => toBoard = <<>>
  /\ attached /\ toBoard = <<>> => Runs = Len(written)
  /\ InLine(toBoard, written, cmdBuf, Runs)
  /\ RunsOf(printed, written)

(* It implies what RunsAsWritten says.                                     *)
LEMMA RunsParts == RunsInv => Screen!RunsAsWritten
<1> SUFFICES ASSUME RunsInv PROVE Screen!RunsAsWritten
  OBVIOUS
<1>1. ASSUME NEW k
      PROVE  Screen!Answers(k) = AnswersIn(printed, k) /\ Screen!Ran(k) = Cardinality(AnswersIn(printed, k))
  BY SameCardinality DEF Screen!Answers, Screen!Ran, AnswersIn, Screen!Heartbeat
<1> QED BY <1>1, Zenon DEF Screen!RunsAsWritten, RunsInv, RunsOf, Runs

(* Nothing is under way on a fresh screen.                                 *)
LEMMA RunsOfFresh == Screen!Fresh => Runs = 0
<1> SUFFICES ASSUME Screen!Fresh PROVE Runs = 0
  OBVIOUS
<1>1. Len(printed) = 0
  BY DEF Screen!Fresh
<1>2. AnswersIn(printed, 0) = {}
  BY DEF AnswersIn
<1> QED BY <1>1, <1>2, FS_EmptySet DEF Runs

(* Nor is there anything to be run.                                        *)
LEMMA FreshRuns == Screen!Fresh => RunsInv
<1> SUFFICES ASSUME Screen!Fresh PROVE RunsInv
  OBVIOUS
<1>1. /\ toBoard = <<>> /\ cmdBuf = <<>> /\ written = <<>> /\ printed = <<>>
      /\ Len(printed) = 0 /\ Len(written) = 0 /\ Len(toBoard) = 0
  BY DEF Screen!Fresh
<1>2. \A p : AnswersIn(p, 0) = {}
  BY DEF AnswersIn
<1>3. Runs = 0
  BY RunsOfFresh
<1>4. RunsOf(printed, written)
  BY <1>1, <1>2, <1>3 DEF RunsOf, Runs
<1>5. InLine(toBoard, written, cmdBuf, Runs)
  <2> DEFINE none == [k \in 1 .. 0 |-> 0]
  <2>1. none \in [1 .. 0 -> Nat] /\ none \in [1 .. 0 -> 1 .. 0]
    OBVIOUS
  <2> HIDE DEF none
  <2>2. OnTheWay(toBoard, written, cmdBuf, Runs, none, none)
    BY <1>1, <1>3, <2>1 DEF OnTheWay
  <2> QED BY <2>2 DEF InLine
<1> QED BY <1>1, <1>3, <1>4, <1>5 DEF RunsInv

(* One action at a time: only the board, and sendCommand that writes to    *)
(* it, touch what RunsInv is about.                                        *)
LEMMA RunsStep ==
  ASSUME Screen!TypeOK, RunsInv, Screen!Next
  PROVE  RunsInv'
<1>1. /\ toBoard \in Seq(Byte \cup {<<>>}) /\ cmdBuf \in Seq(Byte)
      /\ written \in Seq(Commands) /\ printed \in Seq(Seq(Byte))
      /\ Len(printed) \in Nat /\ Len(written) \in Nat
      /\ toBoard' \in Seq(Byte \cup {<<>>})
  <2>1. Screen!TypeOK'
    BY ScreenTypeStep
  <2> QED BY <2>1 DEF Screen!TypeOK, Byte, Screen!Newline
<1>2. PICK r \in Nat : r = Runs
  BY <1>1, AnswersSize DEF Runs
<1>3. /\ ~attached => toBoard = <<>>
      /\ attached /\ toBoard = <<>> => r = Len(written)
      /\ InLine(toBoard, written, cmdBuf, r)
      /\ RunsOf(printed, written)
  BY <1>2 DEF RunsInv
<1>4. ASSUME NEW n \in Nat, n = Runs',
             ~attached' => toBoard' = <<>>,
             attached' /\ toBoard' = <<>> => n = Len(written'),
             InLine(toBoard', written', cmdBuf', n),
             RunsOf(printed', written')
      PROVE  RunsInv'
  BY <1>4, Zenon DEF RunsInv
<1>5. printed' = printed => Runs' = r
  BY <1>2 DEF Runs
<1>6. ASSUME NEW x \in Seq(Byte), printed' = Append(printed, x)
      PROVE  Runs' = r + (IF x = <<>> THEN 0 ELSE 1)
  <2>1. Len(printed') = Len(printed) + 1
    BY <1>1, <1>6
  <2>2. Cardinality(AnswersIn(Append(printed, x), Len(printed) + 1)) =
          Cardinality(AnswersIn(printed, Len(printed))) + (IF x = <<>> THEN 0 ELSE 1)
    BY <1>1, AnswersAppend
  <2> QED BY <1>2, <1>6, <2>1, <2>2 DEF Runs
<1>7. ASSUME UNCHANGED <<attached, toBoard, written, cmdBuf, printed>>
      PROVE  RunsInv'
  BY <1>3, <1>4, <1>5, <1>7
<1>8. CASE Screen!User
  BY <1>7, <1>8 DEF Screen!User, Screen!KeyEnter, Screen!KeySlash, Screen!KeyEdit, Screen!KeyEsc,
     Screen!KeyEnterRaw, Screen!KeyQuit, Screen!boardVars
<1>9. CASE \/ \E c \in Commands : Screen!WriteFails(c) \/ Screen!SentMsg(c)
           \/ Screen!Scan
           \/ Screen!ScanEnds
           \/ Screen!LineMsg
           \/ Screen!ErrMsg
  BY <1>7, <1>9 DEF Screen!WriteFails, Screen!SentMsg, Screen!Scan, Screen!ScanEnds,
     Screen!LineMsg, Screen!ErrMsg, Screen!boardVars
<1>10. ASSUME NEW c \in Commands, Screen!Write(c)
       PROVE  RunsInv'
  <2>1. /\ attached /\ attached' = attached /\ cmdBuf' = cmdBuf /\ printed' = printed
        /\ toBoard' = toBoard \o Append(Screen!Bytes(c), Screen!Newline)
        /\ written' = Append(written, c)
    BY <1>10 DEF Screen!Write
  <2>2. InLine(toBoard', written', cmdBuf', r)
    <3>1. InLine(toBoard', Append(written, c), cmdBuf, r)
      <4>1. toBoard = <<>> => r = Len(written)
        BY <1>3, <2>1
      <4>2. InLine(toBoard, written, cmdBuf, r)
        BY <1>3
      <4> QED BY <1>1, <2>1, <4>1, <4>2, LineWritten
    <3> QED BY <2>1, <3>1
  <2>3. toBoard' # <<>>
    <3>1. Len(toBoard') = Len(toBoard) + Size[c] + 1
      BY <1>1, <2>1, LineOut
    <3>2. Size[c] \in Nat /\ Len(toBoard) \in Nat /\ Len(<<>>) = 0
      BY <1>1, BytesFacts
    <3>3. Len(toBoard') # 0
      BY ONLY <3>1, <3>2
    <3> QED BY ONLY <3>2, <3>3
  <2>4. RunsOf(printed', written')
    BY <1>1, <1>3, <2>1, RunsWritten
  <2>5. Runs' = r
    BY <1>5, <2>1
  <2> QED BY <1>4, <2>1, <2>2, <2>3, <2>4, <2>5
<1>11. CASE Screen!ReadByte
  <2>1. /\ attached /\ attached' = attached /\ toBoard # <<>> /\ toBoard' = Tail(toBoard)
        /\ written' = written
    BY <1>11 DEF Screen!ReadByte
  <2>2. CASE Head(toBoard) # <<>>
    <3>1. /\ cmdBuf' = IF Len(cmdBuf) < CmdBufSize THEN Append(cmdBuf, Head(toBoard)) ELSE cmdBuf
          /\ printed' = printed
      BY <1>11, <2>2 DEF Screen!ReadByte, Screen!Newline, Screen!Collects
    <3>2. InLine(Tail(toBoard), written, cmdBuf', r) /\ Tail(toBoard) # <<>>
      BY <1>1, <1>3, <2>1, <2>2, <3>1, ByteTaken
    <3>3. Runs' = r
      BY <1>5, <3>1
    <3> QED BY <1>3, <1>4, <2>1, <3>1, <3>2, <3>3
  <2>3. CASE Head(toBoard) = <<>>
    <3>1. /\ r + 1 \in 1 .. Len(written)
          /\ cmdBuf = Screen!Cut(written[r + 1]) /\ cmdBuf # <<>>
          /\ InLine(Tail(toBoard), written, <<>>, r + 1)
          /\ Tail(toBoard) = <<>> => r + 1 = Len(written)
      BY <1>1, <1>3, <2>1, <2>3, NewlineTaken
    <3>2. cmdBuf' = <<>> /\ printed' = Append(printed, cmdBuf)
      BY <1>11, <2>3, <3>1 DEF Screen!ReadByte, Screen!Newline, Screen!EndsLine, Screen!Println
    <3>3. Runs' = r + 1
      BY <1>1, <1>6, <3>1, <3>2
    <3>4. RunsOf(printed', written')
      <4>1. r = Cardinality(AnswersIn(printed, Len(printed)))
        BY <1>2 DEF Runs
      <4>2. /\ Cardinality(AnswersIn(printed, Len(printed))) + 1 <= Len(written)
            /\ cmdBuf = Screen!Cut(written[Cardinality(AnswersIn(printed, Len(printed))) + 1])
        BY <3>1, <4>1
      <4>3. RunsOf(Append(printed, cmdBuf), written)
        BY <1>1, <1>3, <4>2, RunsPrinted
      <4> QED BY <2>1, <3>2, <4>3
    <3> QED BY <1>4, <2>1, <3>1, <3>2, <3>3, <3>4
  <2> QED BY <2>2, <2>3
<1>12. CASE Screen!Beat
  <2>1. /\ printed' = Append(printed, <<>>)
        /\ UNCHANGED <<attached, toBoard, cmdBuf, written>>
    BY <1>12 DEF Screen!Beat, Screen!Println, Screen!Heartbeat
  <2>2. <<>> \in Seq(Byte)
    BY EmptyType
  <2>3. Runs' = r
    <3>1. PICK x \in Seq(Byte) : x = <<>>
      BY <2>2
    <3>2. Runs' = r + (IF x = <<>> THEN 0 ELSE 1)
      BY <1>6, <2>1, <3>1
    <3> QED BY <3>1, <3>2
  <2>4. RunsOf(Append(printed, <<>>), written)
    BY <1>1, <1>3, <2>2, RunsPrinted
  <2> QED BY <1>3, <1>4, <2>1, <2>3, <2>4
<1>14. CASE Screen!Poll \/ Screen!PollEnds
  BY <1>7, <1>14 DEF Screen!Poll, Screen!PollEnds
<1>13. CASE Screen!Unplug
  <2>1. /\ attached' = FALSE /\ toBoard' = <<>> /\ cmdBuf' = <<>>
        /\ UNCHANGED <<written, printed>>
    BY <1>13 DEF Screen!Unplug
  <2>2. InLine(toBoard', written', cmdBuf', r)
    <3> DEFINE none == [k \in 1 .. 0 |-> 0]
    <3>1. none \in [1 .. 0 -> Nat] /\ none \in [1 .. 0 -> 1 .. Len(written)]
      OBVIOUS
    <3>2. Len(<<>>) = 0
      OBVIOUS
    <3> HIDE DEF none
    <3>3. OnTheWay(<<>>, written, <<>>, r, none, none)
      BY <3>1, <3>2 DEF OnTheWay
    <3> QED BY <2>1, <3>3 DEF InLine
  <2>3. Runs' = r
    BY <1>5, <2>1
  <2> QED BY <1>3, <1>4, <2>1, <2>2, <2>3
<1> QED BY <1>8, <1>9, <1>10, <1>11, <1>12, <1>13, <1>14 DEF Screen!Next

-----------------------------------------------------------------------------
(* What a fresh screen shows is what was printed: nothing.                 *)
LEMMA NoLines == OnScreen(<<>>, <<>>, 0)
<1>1. BoardIn(<<>>, 1) = {} /\ Cardinality({}) = 0
  BY FS_EmptySet DEF BoardIn
<1> QED BY <1>1 DEF OnScreen

(* Every line that was printed is shown.                                   *)
LEMMA FreshLines == Screen!Fresh => Screen!LinesAreLatest
<1> SUFFICES ASSUME Screen!Fresh PROVE Screen!LinesAreLatest
  OBVIOUS
<1>1. /\ lines = <<>> /\ pump = "scan" /\ fromBoard = <<>> /\ printed = <<>>
      /\ Len(fromBoard) = 0 /\ Len(printed) = 0
  BY DEF Screen!Fresh
<1>2. Screen!Shown(0) = 0 /\ Flow(0)
  <2>1. Screen!Taken(0) = 0
    <3>1. Len(fromBoard) = 0
      BY <1>1
    <3> QED BY ONLY <3>1 DEF Screen!Taken
  <2>2. Screen!Shown(0) = 0
    BY <1>1, <2>1 DEF Screen!Shown
  <2>3. \A j \in 1 .. 0 : FALSE
    OBVIOUS
  <2> QED BY <1>1, <2>1, <2>2, <2>3 DEF Flow
<1>3. Screen!Latest(0)
  BY <1>1, <1>2, NoLines, LatestParts
<1>4. 0 \in 0 .. Len(printed)
  BY <1>1
<1> QED BY <1>3, <1>4 DEF Screen!LinesAreLatest

(* Nor when the port has just been opened.                                 *)
LEMMA OpenedLines ==
  Screen!Fresh /\ UNCHANGED <<lines, pump, fromBoard, printed>> => Screen!LinesAreLatest'
<1> SUFFICES ASSUME Screen!Fresh, UNCHANGED <<lines, pump, fromBoard, printed>>
             PROVE  Screen!LinesAreLatest'
  OBVIOUS
<1>1. /\ lines' = <<>> /\ pump' = "scan" /\ fromBoard' = <<>> /\ printed' = <<>>
      /\ Len(fromBoard') = 0 /\ Len(printed') = 0
  BY DEF Screen!Fresh
<1>2. Screen!Shown(0)' = 0 /\ Flow(0)'
  <2>1. Screen!Taken(0)' = 0
    <3>1. Len(fromBoard') = 0
      BY <1>1
    <3> QED BY ONLY <3>1 DEF Screen!Taken
  <2>2. Screen!Shown(0)' = 0
    BY <1>1, <2>1 DEF Screen!Shown
  <2>3. \A j \in 1 .. 0 : FALSE
    OBVIOUS
  <2> QED BY <1>1, <2>1, <2>2, <2>3 DEF Flow
<1>3. Screen!Latest(0)'
  BY <1>1, <1>2, NoLines, LatestParts
<1>4. 0 \in 0 .. Len(printed')
  BY <1>1
<1> QED BY <1>3, <1>4 DEF Screen!LinesAreLatest

(* Nothing was written, and nothing is echoed.                             *)
LEMMA FreshEchoes == Screen!Fresh => Screen!EchoesMatchWrites
<1> SUFFICES ASSUME Screen!Fresh PROVE Screen!EchoesMatchWrites
  OBVIOUS
<1>1. lines = <<>> /\ written = <<>> /\ echoes = [c \in Commands |-> 0]
  BY DEF Screen!Fresh
<1>2. ASSUME NEW c \in Commands
      PROVE  echoes[c] = 0 /\ Screen!Echoed(c) = 0 /\ Screen!Wrote(c) = 0
  <2>1. /\ {i \in DOMAIN lines : lines[i].echo /\ lines[i].text = Screen!Bytes(c)} = {}
        /\ {k \in DOMAIN written : written[k] = c} = {}
    BY <1>1
  <2>2. Screen!Cardinality({}) = 0
    BY SameCardinality, FS_EmptySet
  <2> QED BY <1>1, <2>1, <2>2 DEF Screen!Echoed, Screen!Wrote
<1> QED BY <1>2 DEF Screen!EchoesMatchWrites

-----------------------------------------------------------------------------
(* The inductive invariant.                                                *)
ConsoleInv ==
  /\ TypeOK
  /\ PortInv
  /\ LinesAreLatest
  /\ EchoesMatchWrites
  /\ RunsInv

(* It holds when main starts ...                                           *)
LEMMA ConsoleInit == Init => ConsoleInv
<1> SUFFICES ASSUME Init PROVE ConsoleInv
  OBVIOUS
<1>1. TypeOK /\ PortInv
  BY InitPort
<1>2. Screen!Fresh
  BY DEF Init
<1>3. RunsInv /\ Screen!EchoesMatchWrites
  BY <1>2, FreshRuns, FreshEchoes
<1>4. Screen!LinesAreLatest
  BY <1>2, FreshLines
<1> QED BY <1>1, <1>3, <1>4 DEF ConsoleInv, LinesAreLatest, EchoesMatchWrites

(* ... and every step of main, the picker and the screen keeps it.         *)
LEMMA ConsoleStep == ConsoleInv /\ [Next]_vars => ConsoleInv'
<1> SUFFICES ASSUME ConsoleInv, [Next]_vars PROVE ConsoleInv'
  OBVIOUS
<1>1. /\ TypeOK /\ PortInv /\ Screen!TypeOK
      /\ Screen!LinesAreLatest /\ Screen!EchoesMatchWrites /\ RunsInv
  BY DEF ConsoleInv, TypeOK, LinesAreLatest, EchoesMatchWrites
<1>2. TypeOK' /\ PortInv'
  BY <1>1, PortStep
<1>3. ASSUME Screen!LinesAreLatest', Screen!EchoesMatchWrites', RunsInv'
      PROVE  ConsoleInv'
  BY <1>2, <1>3 DEF ConsoleInv, LinesAreLatest, EchoesMatchWrites
<1>4. ASSUME UNCHANGED screenVars
      PROVE  ConsoleInv'
  <2>1. Screen!EchoesMatchWrites'
    BY <1>1, <1>4 DEF screenVars, Screen!EchoesMatchWrites, Screen!Echoed, Screen!Wrote
  <2>2. RunsInv'
    BY <1>1, <1>4 DEF screenVars, RunsInv, Runs
  <2>3. Screen!LinesAreLatest'
    <3>1. PICK k \in 0 .. Len(printed) : Screen!Latest(k)
      BY <1>1 DEF Screen!LinesAreLatest
    <3>2. Flow(k) /\ OnScreen(lines, printed, Screen!Shown(k))
      BY <3>1, LatestParts
    <3>3. Flow(k)' /\ OnScreen(lines', printed', Screen!Shown(k)')
      BY <1>4, <3>2 DEF screenVars, Flow, Screen!Shown, Screen!Taken
    <3>4. Screen!Latest(k)' /\ k \in 0 .. Len(printed')
      BY <1>4, <3>1, <3>3, LatestParts DEF screenVars
    <3> QED BY <3>4 DEF Screen!LinesAreLatest
  <2> QED BY <1>3, <2>1, <2>2, <2>3
<1>5. CASE Picks
  BY <1>4, <1>5 DEF Picks
<1>6. CASE OpenPort
  <2>1. Screen!Fresh
    BY <1>1, <1>6 DEF OpenPort, PortInv
  <2>2. UNCHANGED <<lines, pump, fromBoard, printed, echoes, written, toBoard, cmdBuf>>
    BY <1>6 DEF OpenPort
  <2>3. Screen!LinesAreLatest'
    BY <2>1, <2>2, OpenedLines
  <2>4. Screen!EchoesMatchWrites'
    BY <1>1, <2>2 DEF Screen!EchoesMatchWrites, Screen!Echoed, Screen!Wrote
  <2>5. RunsInv'
    <3>1. toBoard = <<>> /\ Runs = Len(written)
      <4>1. Runs = 0 /\ toBoard = <<>> /\ Len(written) = 0
        BY <2>1, RunsOfFresh DEF Screen!Fresh
      <4> QED BY <4>1
    <3> QED BY <1>1, <2>2, <3>1 DEF RunsInv, Runs
  <2> QED BY <1>3, <2>3, <2>4, <2>5
<1>7. CASE GivesUp
  BY <1>4, <1>7 DEF GivesUp
<1>8. CASE Shows
  <2>1. Screen!Next
    BY <1>8 DEF Shows
  <2>2. Screen!LinesAreLatest'
    <3>1. PICK k \in 0 .. Len(printed) : Screen!Latest(k)
      BY <1>1 DEF Screen!LinesAreLatest
    <3> QED BY <1>1, <2>1, <3>1, LatestStep
  <2>3. Screen!EchoesMatchWrites'
    BY <1>1, <2>1, EchoesStep
  <2>4. RunsInv'
    BY <1>1, <2>1, RunsStep
  <2> QED BY <1>3, <2>2, <2>3, <2>4
<1>9. CASE UNCHANGED vars
  BY <1>4, <1>9 DEF vars
<1> QED BY <1>5, <1>6, <1>7, <1>8, <1>9 DEF Next

(* For every set of ports and of commands, every size of a command and of  *)
(* the buffers: the screen shows what the firmware printed, in order and   *)
(* without a gap, and echoes what was written, as often as it was; and the *)
(* firmware runs what was written, once and in order, of a line that is    *)
(* too long what fits (main, pumpLines, sendCommand, Update,               *)
(* pollDebugConsole).                                                      *)
THEOREM ConsoleIsFaithful ==
  Spec => [](/\ TypeOK
             /\ LinesAreLatest
             /\ EchoesMatchWrites
             /\ RunsAsWritten)
<1>1. Init => ConsoleInv
  BY ConsoleInit
<1>2. ConsoleInv /\ [Next]_vars => ConsoleInv'
  BY ConsoleStep
<1>3. ConsoleInv =>
        /\ TypeOK
        /\ LinesAreLatest
        /\ EchoesMatchWrites
        /\ RunsAsWritten
  BY RunsParts DEF ConsoleInv, PortInv, RunsAsWritten
<1> QED BY <1>1, <1>2, <1>3, PTL DEF Spec

================================================================================
