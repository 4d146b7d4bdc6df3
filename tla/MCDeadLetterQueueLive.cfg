SPECIFICATION FairSpec
CONSTANTS
  w1 = w1
  w2 = w2
  e1 = e1
  Writes <- MCOneWrite
  Existing <- MCExisting
  SizeOf <- MCOneSizeOf
  Thresholds <- MCMaxSizeOnly
  Attempts = 2
PROPERTIES
  WritesEnd
CHECK_DEADLOCK FALSE
