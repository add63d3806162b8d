CONSTANTS
  t1 = t1
  t2 = t2
  Threads = {t1, t2}
  Requests <- All
  ServerTypes = {"store", "coordinator"}
  MaxHeaders = 3
  FollowMixed = FALSE
  NULL = NULL
SPECIFICATION Spec
CHECK_DEADLOCK FALSE
INVARIANTS
  TypeOK
  ExecutesRequest
  Answered
  CrashesOnlyWhen
