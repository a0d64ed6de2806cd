\* The circuit's two inputs have different lengths.
CONSTANTS
  BucketSize = 1
  NumThreads = 1
  NumExe = 1
  InputLen <- UnequalInputs
  MayFail = {}
SPECIFICATION SafetySpec
INVARIANT NeverAborts
CHECK_DEADLOCK FALSE
