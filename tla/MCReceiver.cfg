SPECIFICATION FairSpec
CONSTANTS
  q1 = q1
  q2 = q2
  Requests <- MCRequests
INVARIANTS
  ClientsKnow
PROPERTIES
  ImplementsSource
  CloseEnds
CHECK_DEADLOCK FALSE
