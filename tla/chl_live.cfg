\* Side 0's program may end at any moment.
CONSTANTS
  Scripts <- Short
  SizeLimit = 4
  Window = 1
  CloseEarly = FALSE
  MayFail = {0}
SPECIFICATION Spec
PROPERTIES
  BothClose
  FailTogether
  PipeSafety
\* The system stops when both sides have closed or ended.
CHECK_DEADLOCK FALSE
