CONSTANTS
  Size = 7
  MaxWeight = 2
  NULL = NULL
  i1 = i1
  i2 = i2
  p1 = p1
  p2 = p2
  k1 = k1
  k2 = k2
  Ips <- MCIps
  Ports <- OnePort
  Keys <- MCKeys
  Functions <- WideFunctions
  AddRequests <- WideAdds
  DelRequests <- OnePortRemoves
  Uninit = {FALSE}
  Terminated = {TRUE}
SPECIFICATION FairSpec
CHECK_DEADLOCK FALSE
PROPERTIES
  RequestsFinish
