SPECIFICATION FairSpec
CONSTANTS
  c1 = c1
  c2 = c2
  i1 = i1
  i2 = i2
  i3 = i3
  Nobody = Nobody
  Callers <- MCCallers
  Items <- MCItems
  SizeOf <- MCSizeOf
  LimitChoices <- MCLimits
  MaxChunk = 2
  MaxGen = 3
INVARIANTS
  ExactlyOneCopy
  BatchesWithinLimits
PROPERTIES
  OnlyOwnTimerCuts
  ImplementsBatchStream
  EventuallyDispatched
CHECK_DEADLOCK FALSE
