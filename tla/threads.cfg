SPECIFICATION Spec
INVARIANTS
  IntersectionsRight
  ThreadsRight
PROPERTIES
  AllEnd
\* The systems end.
CHECK_DEADLOCK FALSE
