\* Two workers on an important routine, whose ticks may last as long as the lease; lost replies, a crash, skips.
CONSTANTS
  Day = 12
  RollLimit = 1
  Slot <- OneSlot
  Entry <- OneEntry
  EntryOf <- OneEntryOf
  PlannedAt <- OnePlanned
  Recurs <- OneSlot
  KindOf <- OneRoutine
  FirstAnchor <- OneAnchor
  Important <- OneEntry
  Configured <- MainOnly
  DefaultOffsets <- NoDefaults
  TaskMorning = 0
  HomeZone <- Utc
  QuietChoices = {}
  FirstQuiet <- NightLater
  MaxTime = 5
  Worker = {w1, w2}
  BatchSize = 1
  Lease = 2
  Late = 2
  ContextTtl = 2
  BaseDelay = 1
  MaxDelay = 2
  MaxAttempts = 2
  ProviderDelays = {}
  RepeatEvery = 2
  MaxRepeats = 1
  LostReplies = TRUE
  TickSpan = 2
  MaxCrashes = 1
  SnoozeFor = 2
  Inputs = {"message", "skip_occurrence"}
  Lookback = 2
  Horizon = 5
SPECIFICATION FairSpec
INVARIANT AttemptsLeft
INVARIANT LeaseExcludes
INVARIANT CopiesExplained
INVARIANT RepeatsBounded
INVARIANT ReactionEndsRepeats
INVARIANT PersistenceKept
PROPERTY ClosedIsFinal
PROPERTY DueIsServed
