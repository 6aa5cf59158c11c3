SPECIFICATION Spec
CONSTANTS
  Threads = {t1, t2}
  f1 = f1
  Files = {f1, f2, f3}
  Codes = {c1}
  Size <- Sizes
  Limit = 2
  Faults = {}
  Irregular = {}
SYMMETRY Symmetry
INVARIANTS StorageExact ListedOnDisk OverrunBounded
CHECK_DEADLOCK FALSE
