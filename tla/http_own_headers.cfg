CONSTANTS
  t1 = t1
  t2 = t2
  Threads = {t1, t2}
  Requests <- ToStore
  ServerTypes = {"store"}
  MaxHeaders = 3
  FollowMixed = TRUE
  NULL = NULL
SPECIFICATION Spec
CHECK_DEADLOCK FALSE
INVARIANTS
  HeadersAreOwn
