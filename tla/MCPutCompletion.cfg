SPECIFICATION FairSpec
CONSTANTS
  N = 3
  MayClear = TRUE
INVARIANT CtxAliveWhileUsed
INVARIANT RefsAreUsers
INVARIANT SuccessIsConfirmed
INVARIANT FailureIsReported
PROPERTY CtxReclaimed
CHECK_DEADLOCK FALSE
