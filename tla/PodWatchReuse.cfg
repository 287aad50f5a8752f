SPECIFICATION Spec
CONSTANTS
  Pods = {a, b}
  IPs = {i1}
  NoIP = NoIP
  Metas = {m1, m2}
  IPsChange = FALSE
  MaxEdits = 6
SYMMETRY Symmetry
INVARIANTS LookupFindsPod
CHECK_DEADLOCK FALSE
