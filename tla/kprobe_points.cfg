SPECIFICATION Spec
CONSTANTS
  InputSizes = {128}
  SecParams = {40}
  MaxOnes = 0
INVARIANTS PointsDistinct
CHECK_DEADLOCK FALSE
