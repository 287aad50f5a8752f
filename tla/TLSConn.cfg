SPECIFICATION LiveSpec
CONSTANTS
  Hellos <- MCHellos
  BufSize = 80
  Cuts <- MCCuts
  MaxReply = 1
  MaxRequests = 2
INVARIANTS TypeOK NoPanic FindsName StreamIntact
PROPERTIES HandlerEnds
CHECK_DEADLOCK FALSE
