CONSTANTS
  Producers = {p1, p2}
  Workers = {w1}
  Requests = {r1, r2, r3}
  Entries = {e1, e2, e3}
  Modulus = 8
  NULL = NULL
  HEAD = HEAD
  Junk = Junk
SPECIFICATION FairSpec
CHECK_DEADLOCK FALSE
INVARIANTS
  TypeOK
  ListIsQueue
  FaultsOnlyWhenTight
  SizeIsLength
PROPERTIES
  OldestFirst
  RequestsHandled
