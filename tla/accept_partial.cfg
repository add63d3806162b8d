CONSTANTS
  c1 = c1
  c2 = c2
  c3 = c3
  Clients = {c1, c2}
  Threads = {t1, t2}
  Fds = {4, 5}
  Segments <- MCSegments
  Kind <- OtherKind
  MaxReplies = 4
  NULL = NULL
SPECIFICATION Spec
CHECK_DEADLOCK FALSE
INVARIANTS
  WholeRequests
