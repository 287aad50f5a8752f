SPECIFICATION FairSpec
CONSTANTS
  AnyNs = AnyNs
  AnyHost = AnyHost
  NoRule = NoRule
  Names <- MCNames
  Specs <- MCSpecs
  Clients <- MCClients
  Hosts = {"s1"}
  MaxBackoff = 3
  MaxEdits = 3
  MaxBreaks = 2
INVARIANTS TypeOK MapCurrent MostSpecificWins
PROPERTIES PolicyCatchesUp
CHECK_DEADLOCK FALSE
