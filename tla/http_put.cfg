CONSTANTS
  t1 = t1
  t2 = t2
  Threads = {t1}
  Requests <- PutOnly
  ServerTypes = {"store"}
  MaxHeaders = 3
  FollowMixed = FALSE
  NULL = NULL
SPECIFICATION Spec
CHECK_DEADLOCK FALSE
INVARIANTS
  OtherMethodIs501
