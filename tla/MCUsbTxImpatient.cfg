\* A host that gives up and asks again, at the worst moments.
CONSTANTS
  MaxPacketSize = 64
  empty = empty
  header = header
  short = short
  full = full
  again = again
  over = over
  double = double
  triple = triple
  Responses <- ImpatientResponses
  Length <- MCLength
  Capacity <- MCCapacity
  NoResponse = NoResponse
  SendMayFail = TRUE
  HostGivesUp = TRUE
  MaxRequests = 2
CHECK_DEADLOCK FALSE
SPECIFICATION Spec
INVARIANT PanicsOnlyInStart
