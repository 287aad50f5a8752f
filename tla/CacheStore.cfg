SPECIFICATION Spec
CONSTANTS
  Keys = {k1, k2, k3}
  Procs = {p1, p2}
  Sizes = {1, 3}
  TTLs <- MCTTLs
  MaxBytes = 2
  Free = Free
  Sweeper = Sweeper
  MaxTime = 1
  MaxSets = 3
SYMMETRY Symmetry
INVARIANTS TypeOK Accounting WithinBudget EvictionsConserved
PROPERTIES DropsOnlyOversized EvictsExpiredFirst ImplementsBoundedStore
