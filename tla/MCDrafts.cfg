\* Two zones, an event or a routine, the bot and the API; edits, stale cards, lost commits, restarts.
CONSTANTS
  Day = 4
  RollLimit = 1
  Tz <- TwoZones
  HomeTz <- Home
  Kind = {"event", "routine"}
  Date = {0}
  Clock = {0, 1}
  Detail = {"x"}
  Request = {r1, r2}
  Past = 0
  MaxCards = 2
  MaxMoves = 1
  MaxLost = 1
  MaxTime = 1
SYMMETRY Alike
SPECIFICATION Spec
INVARIANT OneEntryPerCard
INVARIANT CreatedAsShown
INVARIANT FormMatchesCard
INVARIANT AnswersHold
CHECK_DEADLOCK FALSE
