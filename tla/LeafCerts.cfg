SPECIFICATION LiveSpec
CONSTANTS
  c1 = c1
  c2 = c2
  c3 = c3
  Calls <- MCCalls
  Names <- MCNames
  Nobody = Nobody
  Lifetime = 4
  Margin = 2
  CAEnd = 7
  Timeout = 1
  MaxTime = 8
INVARIANTS TypeOK ValidWhenUsed SignsOnlyWhenNeeded
PROPERTIES CallsReturn
CHECK_DEADLOCK FALSE
