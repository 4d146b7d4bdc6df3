SPECIFICATION CachesSpec
CONSTANTS
  c1 = c1
  c2 = c2
  k1 = k1
  v1 = v1
  v2 = v2
  Callers <- MCCallers
  Keys <- MCKeys
  Values <- MCValues
  NoValue = NoValue
  TTLs <- MCTTLs
  DefaultTTL = 1
  MaxTime = 2
SYMMETRY MCSymmetry
INVARIANTS
  FoundHeld
  LeanMissesHeld
PROPERTIES
  OnlyWritersChangeLive
