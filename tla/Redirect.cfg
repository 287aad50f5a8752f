SPECIFICATION LiveSpec
CONSTANTS
  p1 = p1
  w1 = w1
  w2 = w2
  o1 = o1
  Ports <- MCPorts
  Web <- MCWeb
  Others <- MCOthers
  Orphans = FALSE
  MaxConns = 2
  MaxFlips = 3
  MaxEvicts = 2
  MaxCrashes = 1
  Proxy = Proxy
  None = None
  Failed = Failed
INVARIANTS TypeOK
PROPERTIES LookupRight NeverStuck LossNoticed
CHECK_DEADLOCK FALSE
