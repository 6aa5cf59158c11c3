SPECIFICATION Spec
CONSTANTS
  Threads = {t1, t2, t3}
  PoolSize = 1
  Requests = 1
INVARIANTS
  Exclusive
CHECK_DEADLOCK FALSE
