\* As MCTimezones.cfg: a routine moved onto the next free slot, then a journey.
CONSTANTS
  Day = 4
  RollLimit = 0
  Tz <- MCTz
  HomeTz <- Home
  Entry = {1, 2}
  KindOf <- MCKind
  FirstAt <- MCFirst
  PreOffsets = {1}
  Horizon = 4
  Lookback = 1
  Rebuild = 1
  MoveTries = 2
  Movable = {1, 2}
  MaxCards = 1
  MaxTime = 2
SPECIFICATION Spec
CHECK_DEADLOCK FALSE
INVARIANT ConfirmGoesThrough
