SPECIFICATION Spec
CONSTANTS
  Threads = {t1, t2, t3}
  Uploads = {u1}
  TotalChunks = 2
  Paths = {p1, p2}
  Size <- Sizes
  Limit = 2
  Faults = {"statement", "crash"}
  Overlapping = FALSE
SYMMETRY Symmetry
INVARIANTS PublishedFileIntact RecordedChunkOnDisk RowHasFile
PROPERTY ImplementsLedger
CHECK_DEADLOCK FALSE
