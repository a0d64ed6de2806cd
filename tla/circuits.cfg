SPECIFICATION Spec
CONSTRAINT GatesBound
INVARIANTS
  FilesComputed
  GarbledRight
  DecodedRight
\* The systems end.
CHECK_DEADLOCK FALSE
