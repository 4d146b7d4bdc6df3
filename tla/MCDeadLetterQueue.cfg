SPECIFICATION Spec
CONSTANTS
  w1 = w1
  w2 = w2
  e1 = e1
  Writes <- MCWrites
  Existing <- MCExisting
  SizeOf <- MCSizeOf
  Thresholds <- MCThresholds
  Attempts = 1
INVARIANTS
  AccountingExact
  DiskWithinMax
  WarnedWhenReached
  ExactlyWritesTracked
  RootClosedIsQuiet
CHECK_DEADLOCK FALSE
