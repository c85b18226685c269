SPECIFICATION Spec
CONSTANTS
  VIs = {v1, v2}
  Calls = {c1}
  Data = {d1, d2}
  None = None
  Ops <- BothOps
  Timeouts = TRUE
INVARIANT CallsCounted
INVARIANT CountedIsPinned
SYMMETRY Symmetry
CHECK_DEADLOCK FALSE
