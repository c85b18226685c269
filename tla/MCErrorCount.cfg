SPECIFICATION Spec
CONSTANTS
  N = 2
  A = 1
  Writers = {w1, w2, w3}
  Unlocked = {w3}
  Codes = {"ECA_NORMAL", "ECA_DISCONNCHID"}
  IntMax = 2
  None = None
SYMMETRY Symmetry
INVARIANT CountsErrors
INVARIANT LastingErrorReported
INVARIANT ReportedErrorIsReal
