SPECIFICATION Spec
CONSTANTS
  Threads = {t1, t2, t3}
  Uploads = {u1}
  TotalChunks = 2
  Paths = {p1, p2}
  Size <- Sizes
  Limit = 2
  Faults = {"statement", "cancel", "commit", "disk", "crash"}
  Overlapping = TRUE
SYMMETRY Symmetry
INVARIANTS TypeOK Accounting CompletedIffFile OnlyFullUploads AcknowledgedFileStays
CHECK_DEADLOCK FALSE
