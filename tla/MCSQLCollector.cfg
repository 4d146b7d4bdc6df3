SPECIFICATION FairSpec
CONSTANTS
  t1 = t1
  Timers <- MCTimers
  Closing = Closing
  MaxRuns = 3
  MaxRows = 1
  Concurrency = 2
  BatchCount = 2
INVARIANTS
  TypeOK
  DoneMeansHandedOver
  EndedLeavesNothing
PROPERTIES
  CommittedRowsArrive
  ShutdownEnds
  OneTimeCloses
CHECK_DEADLOCK FALSE
