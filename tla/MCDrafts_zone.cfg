\* The zone changes while a confirmation of the API is served.
CONSTANTS
  Day = 4
  RollLimit = 1
  Tz <- TwoZones
  HomeTz <- Home
  Kind = {"event", "routine"}
  Date = {0}
  Clock = {0, 1}
  Detail = {"x"}
  Request = {r1}
  Past = 0
  MaxCards = 2
  MaxMoves = 1
  MaxLost = 1
  MaxTime = 1
SPECIFICATION Spec
INVARIANT SavedInCurrentZone
CHECK_DEADLOCK FALSE
