SPECIFICATION Spec
CONSTANTS
  Threads = {main, w1, w2}
  MaxTime = 2
  MaxLines = 4
SYMMETRY Symmetry
INVARIANTS
  SinksAgree
  TimestampsAscend
CHECK_DEADLOCK FALSE
