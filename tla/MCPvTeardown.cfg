SPECIFICATION FairSpec
CONSTANTS
  plain = plain
  nomdel = nomdel
  wanting = wanting
  VIs = {plain, nomdel, wanting}
  Wanting = {wanting}
  NoMdel = {nomdel}
  Base = base
  Rtyp = rtyp
  Fields = {f}
  NULL = NULL
  QueueMax = 1
  Budgets <- Mixes
INVARIANT LastOneResets
PROPERTY SparedWhileNeeded
 
PROPERTY ParentLearns
CHECK_DEADLOCK FALSE
