CONSTANTS
  NULL = NULL
  k1 = k1
  k2 = k2
  k3 = k3
  k4 = k4
  Keys <- MCKeys
  Values = {"v", "w"}
  Size = 2
  Hash <- MCHash
SPECIFICATION Spec
INVARIANTS
  TypeOK
  BucketsSound
  CountsStored
PROPERTIES
  ImplementsMap
