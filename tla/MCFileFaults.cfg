SPECIFICATION Spec
CONSTANTS
  Threads = {t1, t2, t3}
  f1 = f1
  Files = {f1, f2}
  Codes = {c1}
  Size <- Sizes
  Limit = 3
  Faults = {"statement", "answer", "disk", "crash"}
  Irregular = {"early", "redelete"}
SYMMETRY Symmetry
INVARIANTS TypeOK DeletedGone UploadedStays DownloadIntact
CHECK_DEADLOCK FALSE
