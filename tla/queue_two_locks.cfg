CONSTANTS
  Producers = {p1}
  Workers = {w1}
  Requests = {r1, r2}
  Entries = {e1, e2}
  Modulus = 8
  NULL = NULL
  HEAD = HEAD
  Junk = Junk
SPECIFICATION Spec
CHECK_DEADLOCK FALSE
INVARIANTS
  Synchronized
