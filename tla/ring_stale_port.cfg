CONSTANTS
  Size = 6
  MaxWeight = 1
  NULL = NULL
  i1 = i1
  i2 = i2
  p1 = p1
  p2 = p2
  k1 = k1
  k2 = k2
  Ips <- MCIps
  Ports <- TwoPorts
  Keys <- MCKeys
  Functions <- TwoPortFunctions
  AddRequests <- TwoPortAdds
  DelRequests <- TwoPortRemoves
  Uninit = {FALSE}
  Terminated = {TRUE}
SPECIFICATION Spec
CHECK_DEADLOCK FALSE
INVARIANTS
  KeysRemapped
