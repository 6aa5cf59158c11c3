SPECIFICATION Spec
CONSTANTS
  Tokens = {k1, k2}
  Threads = {t1, t2}
  Timeout = 1
  Minute = 2
  Period = 2
  Lag = 1
  Back = 2
  Ahead = 2
  MaxAhead = 2
  MaxTime = 8
SYMMETRY Symmetry
INVARIANTS TypeOK RefusedForEver NotRefusedEarly CollectedInTime
CHECK_DEADLOCK FALSE
