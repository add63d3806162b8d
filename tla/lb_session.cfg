CONSTANTS
  Clients = {c1, c2}
  Host <- OneHost
  Fds = {4, 5, 6}
  Args = 2
  Cookies = {123}
  MaxPieces = 1
  NULL = NULL
SPECIFICATION Spec
CHECK_DEADLOCK FALSE
INVARIANTS
  SameBackend
