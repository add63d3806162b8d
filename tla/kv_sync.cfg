CONSTANTS
  k1 = k1
  k2 = k2
  s1 = s1
  s2 = s2
  a = a
  b = b
  p = p
  q = q
  Keys = {k1, k2}
  Values = {v1, v2}
  Stores = {s1, s2}
  Places <- OnlyApart
  Order <- MCOrder
  Initial = {s1}
  MaxLeaks = 1
  MaxFaults = 2
  NULL = NULL
SPECIFICATION Spec
CHECK_DEADLOCK FALSE
INVARIANTS
  SyncFindsKeys
