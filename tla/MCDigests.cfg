\* Two users, one outcome per tick and a digest of one item, so that every
\* limit of the digest is reached; two loops, a crash, lost replies.
CONSTANTS
  Day = 6
  RollLimit = 0
  User = {1, 2}
  Item = {1, 2}
  Owners <- MCOwners
  DigestWorker = {1, 2}
  HomeZone <- MCZone
  DigestTime = 5
  FirstQuiet <- Night
  QuietChoices <- MCQuiets
  BatchSize = 1
  NightBatch = 1
  TransientDelay = 1
  PermanentDelay = 2
  LostReplies = TRUE
  MaxTime = 2
  TickSpan = 1
  MaxCrashes = 1
SPECIFICATION FairSpec
CHECK_DEADLOCK FALSE
INVARIANT DigestCopiesExplained
INVARIANT LedgerOncePerDay
PROPERTY DigestServed
