CONSTANTS
  t1 = t1
  t2 = t2
  Threads = {t1}
  Requests <- DocumentedOnly
  ServerTypes = {"store"}
  MaxHeaders = 4
  FollowMixed = FALSE
  NULL = NULL
SPECIFICATION Spec
CHECK_DEADLOCK FALSE
INVARIANTS
  DocumentedFormat
