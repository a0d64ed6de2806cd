\* Three ways to use a channel, two items in flight per direction.
CONSTANTS
  Scripts <- Matched
  SizeLimit = 4
  Window = 2
  CloseEarly = FALSE
  MayFail = {}
SPECIFICATION SafetySpec
INVARIANTS
  TypeOK
  OneDriver
  InOrder
  BufferReleased
  OutstandingExact
  SocketUnused
  NeverAborts
\* The system stops when both sides have closed.
CHECK_DEADLOCK FALSE
