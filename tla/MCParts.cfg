SPECIFICATION MCSpec
CONSTANTS
  c1 = c1
  c2 = c2
  r1 = r1
  r2 = r2
  s1 = s1
  s2 = s2
  x1 = x1
  x2 = x2
  x3 = x3
  DLQ = DLQ
  Collectors <- MCCollectors
  Receivers <- MCReceivers
  Senders <- MCSenders
  Chunks <- MCChunks
  Origin <- MCOrigin
  Target <- MCTarget
  Workers = 1
  MinutesPerHour = 2
  HoursPerDay = 3
  DaysPerWeek = 3
  Calendar <- MCCalendar
  LimitYears = 4
  Zones <- MCZones
  Specs <- MCSpecs
  Intervals = {1, 7}
  Start = 0
  LastCall = 60
  Configs <- MCConfigs
  MinInterval = 10
  TopInterval = 40
  TopMaxInterval = 200
  MaxAttempts = 10
  p1 = p1
  p2 = p2
  k1 = k1
  k2 = k2
  Printers <- MCPrinters
  Closers <- MCClosers
INVARIANTS
  ClosedInOrder
  LostOnlyIfLate
  NextIsEarliest
  GivesUpRightly
PROPERTIES
  ShutdownEnds
  CallsReturn
  BackoffKept
  ClosedIsSilent
CHECK_DEADLOCK FALSE
