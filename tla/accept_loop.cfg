CONSTANTS
  c1 = c1
  c2 = c2
  c3 = c3
  Clients = {c1, c2, c3}
  Threads = {t1, t2, t3}
  Fds = {4, 5}
  Segments <- MCSegments
  Kind <- MCKind
  MaxReplies = 4
  NULL = NULL
SPECIFICATION FairSpec
CHECK_DEADLOCK FALSE
INVARIANTS
  TypeOK
  OneHolder
  CrashesOnlyWhen
PROPERTIES
  ServesInTurn
  EachAnswered
