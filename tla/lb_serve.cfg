CONSTANTS
  Clients = {c1, c2}
  Host <- OneHost
  Fds = {4, 5, 6}
  Args = 2
  Cookies = {1}
  MaxPieces = 1
  NULL = NULL
SPECIFICATION FairSpec
CHECK_DEADLOCK FALSE
INVARIANTS
  TypeOK
  OneOwner
  DescriptorsAccounted
PROPERTIES
  ServesInTurn
  EachEnds
