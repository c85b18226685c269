SPECIFICATION EventsFairSpec
CONSTANTS
  r1 = r1
  c1 = c1
  c2 = c2
  Poll = Poll
  None = None
  Refs = {r1}
  Changers = {c1,c2}
  MaxChanges = 3
  MaxHolds = 1
INVARIANT NoLostEvent
PROPERTY EventsInOrder
PROPERTY LatestDelivered
CHECK_DEADLOCK FALSE
