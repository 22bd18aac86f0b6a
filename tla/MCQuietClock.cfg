\* Three local days of six slots around a transition in the second one.
CONSTANTS
  Day = 6
  RollLimit = 3
  Zones <- MCZones
  MaxInstant = 30
SPECIFICATION Spec
INVARIANT WindowEndsQuiet
INVARIANT RecapCoversTheNight
INVARIANT PolicyNeverWakes
INVARIANT DigestHasItsMoment
INVARIANT ResolversAgree
