\* Driver calls and sends may fail; the host waits while anything moves.
CONSTANTS
  HeaderSize = 1
  PacketSize = 2
  Alignment = 2
  IntMod = 16
  MaxResponsePayload = 2
  Answers <- MCAnswers
  RingSize = 2
  write = write
  truncated = truncated
  overMax = overMax
  wrapped = wrapped
  read0 = read0
  read1 = read1
  trigger = trigger
  unknown = unknown
  Messages <- MCMessages
  Writes <- MCWrites
  Requests <- MCRequests
  Triggers <- MCTriggers
  SizeOf <- MCSizeOf
  Declares <- MCDeclares
  Tag <- MCTag
  Nothing = Nothing
CHECK_DEADLOCK FALSE
SPECIFICATION Spec
INVARIANTS
  TypeOK
  NothingLeftUndone
  SilenceIsCounted
  HandlerIsSafe
PROPERTIES
  ServiceImplemented
  RequestsEnd
