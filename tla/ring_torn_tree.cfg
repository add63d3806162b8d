CONSTANTS
  Size = 6
  MaxWeight = 1
  NULL = NULL
  i1 = i1
  i2 = i2
  p1 = p1
  p2 = p2
  k1 = k1
  k2 = k2
  Ips <- MCIps
  Ports <- OnePort
  Keys <- MCKeys
  Functions <- SpreadFunctions
  AddRequests <- OnePortAdds
  DelRequests <- OnePortRemoves
  Uninit = {FALSE}
  Terminated = {TRUE}
SPECIFICATION Spec
CHECK_DEADLOCK FALSE
INVARIANTS
  TreeRepresentsServers
