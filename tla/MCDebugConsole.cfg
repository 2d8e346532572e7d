\* Scans that fail, a board that is unplugged, and two commands under way.
CONSTANTS
  ttyACM0 = ttyACM0
  ttyACM1 = ttyACM1
  Ports <- MCPorts
  NoPort = NoPort
  Timer = Timer
  MaxChains = 3
  ping = ping
  long = long
  Commands <- MCCommands
  Known <- MCKnown
  Size <- MCSize
  NoCommand = NoCommand
  CmdBufSize = 2
  MaxLines = 2
  MaxSent = 2
  MaxPrinted = 2
CHECK_DEADLOCK FALSE
SPECIFICATION Spec
INVARIANTS
  TypeOK
  LinesAreLatest
  EchoesMatchWrites
  RunsAsWritten
PROPERTIES
  ListFollowsPorts
  AnswersAreShown
