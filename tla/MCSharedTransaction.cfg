SPECIFICATION TxFairSpec
CONSTANTS
  Threads = {t1, t2, t3}
  PoolSize = 2
  Requests = 1
  Losses = 1
  Completers = {t1, t2}
INVARIANTS TypeOK ExclusiveUntilStaleReturn NoConnectionLost NoLostWakeup Isolated NoTransactionLeftOpen
CHECK_DEADLOCK FALSE
PROPERTY WaiterServed
