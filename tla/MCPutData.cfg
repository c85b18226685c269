SPECIFICATION DataSpec
CONSTANTS
  MaxNames = 3
  MaxRows = 4
  MaxCols = 4
  Capacities = {0, 1, 3}
  Values <- SomeValues
  U8 = 3
  S16 = 3
  U16 = 7
  S32 = 15
  S64 = 31
  One = 2
  Doubles <- SomeDoubles
  Floats <- SomeFloats
  Decimals <- SomeDecimals
  Infinity = 1000
INVARIANT InBounds
INVARIANT OneValuePerPv
INVARIANT NumberSurvives
CHECK_DEADLOCK FALSE
