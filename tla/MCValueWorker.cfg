SPECIFICATION FairSpec
CONSTANTS
  PVs = {p1, p2}
  MaxUpdates = 2
  Timeouts = TRUE
  Teardown = TRUE
  Spurious = TRUE
INVARIANT BufferOwnedOnce
INVARIANT SettledIsNewest
PROPERTY ShowsInOrder
PROPERTY UpdateArrives
PROPERTY StopReturnsUnlessAsleep
CHECK_DEADLOCK FALSE
