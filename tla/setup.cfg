\* Three of seven circuits are opened.
CONSTANTS
  SubsetSize = 3
  SetSize = 7
SPECIFICATION SetupSpec
CONSTRAINT SetupBound
INVARIANTS
  Partition
  SetupSafe
\* The systems end.
CHECK_DEADLOCK FALSE
