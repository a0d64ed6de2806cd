\* Two circuits per execution, two executions through the same buffers.
CONSTANTS
  BucketSize = 2
  NumThreads = 2
  NumExe = 2
  InputLen <- EqualInputs
  MayFail = {}
SPECIFICATION Spec
INVARIANTS
  TypeOK
  NeverAborts
  SeedAfterCommit
  OpenAfterChecks
  InputPinned
  CountersExact
  OneMatch
  InStep
  CleanClose
PROPERTIES
  BothClose
  IdealSpec
\* The system stops when both parties have closed.
CHECK_DEADLOCK FALSE
