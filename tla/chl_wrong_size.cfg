\* A message of another size than the receive expects.
CONSTANTS
  Scripts <- WrongSize
  SizeLimit = 4
  Window = 2
  CloseEarly = FALSE
  MayFail = {}
SPECIFICATION Spec
PROPERTY AllAnswered
CHECK_DEADLOCK FALSE
