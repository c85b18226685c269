SPECIFICATION Spec
CONSTANTS
  N = 1
  MayClear = FALSE
INVARIANT SuccessMeansWritten
CHECK_DEADLOCK FALSE
