SPECIFICATION FairSpec
CONSTANTS
  MaxRuns = 3
  Concurrency = 2
  MaxAttempts = 2
PROPERTIES
  ImplementsSource
  NoAttemptAfterDone
  ShutdownEnds
CHECK_DEADLOCK FALSE
