CONSTANTS
  k1 = k1
  k2 = k2
  s1 = s1
  s2 = s2
  a = a
  b = b
  p = p
  q = q
  Keys = {k1}
  Values = {v1, v2}
  Stores = {s1, s2}
  Places <- BothPlaces
  Order <- MCOrder
  Initial = {s1}
  MaxLeaks = 1
  MaxFaults = 2
  NULL = NULL
SPECIFICATION FairSpec
CHECK_DEADLOCK FALSE
INVARIANTS
  TypeOK
  AckedHeld
  OneCopy
PROPERTIES
  GetsAcknowledged
  ActsAsOneMap
  RequestEnds
