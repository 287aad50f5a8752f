SPECIFICATION FairSpec
CONSTANTS
  Keys = {k1, k2}
  Procs = {p1, p2}
  Sizes = {1, 3}
  TTLs = {0}
  MaxBytes = 2
  Free = Free
  Sweeper = Sweeper
  MaxTime = 1
  MaxSets = 2
PROPERTIES CallsReturn ExpiredSwept
