\* Party 0's program may end at any moment.
CONSTANTS
  BucketSize = 2
  NumThreads = 2
  NumExe = 1
  InputLen <- EqualInputs
  MayFail = {0}
SPECIFICATION Spec
PROPERTIES
  FailTogether
  IdealSafety
\* The system stops when both parties have closed or ended.
CHECK_DEADLOCK FALSE
