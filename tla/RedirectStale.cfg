SPECIFICATION Spec
CONSTANTS
  p1 = p1
  w1 = w1
  w2 = w2
  o1 = o1
  Ports <- MCPorts
  Web <- MCWeb
  Others <- MCOthers
  Orphans = FALSE
  MaxConns = 2
  MaxFlips = 1
  MaxEvicts = 0
  MaxCrashes = 0
  Proxy = Proxy
  None = None
  Failed = Failed
INVARIANT OtherPortsUntouched
CHECK_DEADLOCK FALSE
