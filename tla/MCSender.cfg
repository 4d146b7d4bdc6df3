SPECIFICATION FairSpec
CONSTANTS
  c1 = c1
  c2 = c2
  i1 = i1
  i2 = i2
  i3 = i3
  i4 = i4
  json = json
  rows = rows
  raw = raw
  Unstructured = raw
  Clients <- MCClients
  Items <- MCItems
  Formats <- MCFormats
  FormatOf <- MCFormatOf
  MaxItems = 2
  Slots = 1
  MaxAttempts = 2
  MaxChunk = 2
INVARIANTS
  SlotsAccounted
  DrainedIsEmpty
PROPERTIES
  WaitersNotSentOnceClosing
  ImplementsHandoff
  CloseDrains
CHECK_DEADLOCK FALSE
