SPECIFICATION LockFairSpec
CONSTANTS
  Jobs <- AllJobs
  Loads <- AllLoads
INVARIANT NoCircularWait
PROPERTY JobsFinish
CHECK_DEADLOCK FALSE
