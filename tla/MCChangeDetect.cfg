SPECIFICATION FairSpec
CONSTANTS
  p1 = p1
  p2 = p2
  b1 = b1
  b2 = b2
  None = None
  PVs = {p1,p2}
  Enums = {p1}
  Puts = {p1}
  Buffers = {b1, b2}
  MaxUpdates = 1
  MaxDrops = 1
  FreshStamps = TRUE
INVARIANT SeenIsShownUnlessMissed
INVARIANT ValueNotAheadOfStamp
PROPERTY EventuallyShown
