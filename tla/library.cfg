SPECIFICATION Spec
CONSTANTS
  x = x
  y = y
SYMMETRY Alike
CONSTRAINT TransfersBound
INVARIANTS
  
  ArithmeticRight
  ContainersRight
PROPERTIES
  Promised
\* The systems end.
CHECK_DEADLOCK FALSE
