\* skip_occurrence in the gap of a reconciliation.
CONSTANTS
  Day = 12
  RollLimit = 1
  Slot <- TwoSlots
  Entry <- OneEntry
  EntryOf <- TwoEntryOf
  PlannedAt <- TwoPlanned
  Recurs <- TwoSlots
  KindOf <- OneRoutine
  FirstAnchor <- OneAnchor
  Important <- OneEntry
  Configured <- MainOnly
  DefaultOffsets <- NoDefaults
  TaskMorning = 0
  HomeZone <- Utc
  QuietChoices = {}
  FirstQuiet <- NightLater
  MaxTime = 5
  Worker = {w1}
  BatchSize = 1
  Lease = 2
  Late = 2
  ContextTtl = 2
  BaseDelay = 1
  MaxDelay = 2
  MaxAttempts = 2
  ProviderDelays = {}
  RepeatEvery = 2
  MaxRepeats = 1
  LostReplies = FALSE
  TickSpan = 1
  MaxCrashes = 0
  SnoozeFor = 2
  Inputs = {"skip_occurrence"}
  Lookback = 2
  Horizon = 2
SPECIFICATION Spec
INVARIANT SkippedOwesNothing
