SPECIFICATION FairSpec
CONSTANTS
  v1 = v1
  v2 = v2
  h1 = h1
  h2 = h2
  e1 = e1
  e2 = e2
  Poll = Poll
  None = None
  VIs = {v1,v2}
  Disconnectors = {v1}
  Chans = {h1, h2}
  Events = {e1,e2}
  MaxOutages = 1
INVARIANT ChannelClearedOnce
PROPERTY Resubscribed
PROPERTY FlagSettles
CHECK_DEADLOCK FALSE
