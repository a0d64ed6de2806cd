\* Two circuits for one execution, one more to open; a kernel that keeps no unread message.
CONSTANTS
  NumExe = 1
  BucketSize = 2
  NumOpened = 1
  ParallelInit = 1
  Params <- EqualParams
  Encoding <- EqualEncodings
  NonXorGates = 2
  PsiOTs = 1
  OTBatch = 4
  Kernel = 0
  Seeds <- AnySelection
SPECIFICATION ProtocolsSpec
INVARIANTS
  RevealedLate
  OTsUsedOnce
  BucketsReady
  NothingTooEarly
PROPERTIES
  AllEnd
\* The systems end.
CHECK_DEADLOCK FALSE
