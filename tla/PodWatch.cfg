SPECIFICATION FairSpec
CONSTANTS
  Pods = {a, b}
  IPs = {i1, i2}
  NoIP = NoIP
  Metas = {m1, m2}
  IPsChange = FALSE
  MaxEdits = 6
INVARIANTS TypeOK LookupForgets
PROPERTIES LookupHeals
CHECK_DEADLOCK FALSE
