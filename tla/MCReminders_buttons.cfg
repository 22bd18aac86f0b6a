\* Every button and acknowledgement of an event reminder, against delivery and reconciliation.
CONSTANTS
  Day = 12
  RollLimit = 1
  Slot <- TwoSlots
  Entry <- OneEntry
  EntryOf <- TwoEntryOf
  PlannedAt <- TwoPlanned
  Recurs = {}
  KindOf <- OneEvent
  FirstAnchor <- OneAnchor
  Important <- OneEntry
  Configured <- OnePre
  DefaultOffsets <- NoDefaults
  TaskMorning = 0
  HomeZone <- Utc
  QuietChoices = {}
  FirstQuiet <- NightLater
  MaxTime = 4
  Worker = {w1}
  BatchSize = 2
  Lease = 2
  Late = 1
  ContextTtl = 2
  BaseDelay = 1
  MaxDelay = 2
  MaxAttempts = 2
  ProviderDelays = {}
  RepeatEvery = 1
  MaxRepeats = 1
  LostReplies = FALSE
  TickSpan = 1
  MaxCrashes = 0
  SnoozeFor = 2
  Inputs = {"complete", "skip", "snooze", "move", "preview", "notification", "acknowledge"}
  Lookback = 2
  Horizon = 5
SPECIFICATION Spec
INVARIANT TypeOK
INVARIANT SnoozeIsTheOnlySignal
INVARIANT ClosedOwesNothing
INVARIANT ContextIsOpen
PROPERTY SentIsFinal
PROPERTY ReopenedWithSignal
PROPERTY ImplementsLifecycle
