\* A daily routine and an event, two changes of zone, one of them possibly back.
CONSTANTS
  Day = 4
  RollLimit = 0
  Tz <- MCTz
  HomeTz <- Home
  Entry = {1, 2}
  KindOf <- MCKind
  FirstAt <- MCFirst
  PreOffsets = {1}
  Horizon = 4
  Lookback = 1
  Rebuild = 1
  MoveTries = 2
  Movable = {1, 2}
  MaxCards = 2
  MaxTime = 2
SPECIFICATION Spec
CHECK_DEADLOCK FALSE
INVARIANT JournalIsAPath
INVARIANT WallTimeConsistent
INVARIANT RoutineKeepsLocalTime
INVARIANT SignalsFollow
PROPERTY OneOffKeepsMoment
