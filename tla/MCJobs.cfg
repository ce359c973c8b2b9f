CONSTANTS
  Events = {placed, delivered}
  Shops = {s1}
  Repeated = {delivered}
  BatchSize = 1
  MaxAttempts = 3
  Platforms = {"facebook"}
  AdAmounts = {1}
  Backfill = 1
  LastDay = 2
  AdTabs = {"t1"}
  MaxAdCalls = 3
  MaxVisits = 3
  Pairs = {"p1", "p2"}
  Writers = {"w1", "w2"}
  BufferSize = 1
  BatchFull = 2
  Window = 1
  LastTime = 2
SPECIFICATION JobsSpec
INVARIANTS SentWasReceived CountedApart DrainedBeforeExit
PROPERTIES SettledStays SentOnlyWhileOn EventsSettle OwnFiguresStand FillerCatchesUp
CHECK_DEADLOCK FALSE
