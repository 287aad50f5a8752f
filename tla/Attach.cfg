SPECIFICATION FairSpec
CONSTANTS
  Ifindexes = {1, 2}
  IPs = {p1, p2}
  Watchers = {w1}
  Reuse = FALSE
  MaxVeths = 2
  MaxChanges = 2
  MaxFaults = 1
INVARIANTS TypeOK LinksOwned NothingMissed
PROPERTIES Converges
