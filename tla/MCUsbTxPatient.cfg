\* A host that waits for each response before it asks for the next.
CONSTANTS
  MaxPacketSize = 64
  empty = empty
  header = header
  short = short
  full = full
  again = again
  over = over
  double = double
  triple = triple
  Responses <- MCResponses
  Length <- MCLength
  Capacity <- MCCapacity
  NoResponse = NoResponse
  SendMayFail = FALSE
  HostGivesUp = FALSE
  MaxRequests = 2
SPECIFICATION Spec
INVARIANTS
  TypeOK
  PatientInv
  NextFollowsSend
PROPERTIES
  ResponsesArriveWhole
  Answered
