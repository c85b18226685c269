SPECIFICATION FairSpec
CONSTANTS
  Readers = {r1, r2}
  Deleters = {d1, d2}
  Workers = {w1}
  Slots = {s1}
  Entries = {e1}
  NULL = NULL
  SuspiciousRefs = 1
  RefMax = 9
INVARIANT HeldEntryIntact
INVARIANT RefsCountPins
INVARIANT SoleDeleter
INVARIANT DeleterOnLiveMemory
PROPERTY SafeSpec
PROPERTY ClaimedIsReclaimed
CHECK_DEADLOCK FALSE
