\* A task whose morning reminder falls into quiet hours, is moved, and planned again; quiet hours edited; repeats before midnight.
CONSTANTS
  Day = 12
  RollLimit = 1
  Slot <- OneSlot
  Entry <- OneEntry
  EntryOf <- OneEntryOf
  PlannedAt <- NightPlanned
  Recurs = {}
  KindOf <- OneTask
  FirstAnchor <- OneAnchor
  Important <- OneEntry
  Configured <- Unset
  DefaultOffsets <- NoDefaults
  TaskMorning = 7
  HomeZone <- Ahead
  QuietChoices <- BothNights
  FirstQuiet <- NightBefore
  MaxTime = 9
  Worker = {w1}
  BatchSize = 2
  Lease = 2
  Late = 2
  ContextTtl = 2
  BaseDelay = 1
  MaxDelay = 2
  MaxAttempts = 2
  ProviderDelays = {2}
  RepeatEvery = 1
  MaxRepeats = 1
  LostReplies = FALSE
  TickSpan = 1
  MaxCrashes = 0
  SnoozeFor = 2
  Inputs = {"quiet_hours"}
  Lookback = 2
  Horizon = 6
SPECIFICATION Spec
INVARIANT UniqueKeys
PROPERTY ClaimsRespectQuietHours
PROPERTY RowsOnlyMoveLater
