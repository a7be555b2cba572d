CONSTANTS
  Ids = {j1}
  NoId = none
  Threads = {t1, t2}
  MaxBatch = 2
  MaxBuffered = 0
  Connections = 1
  CommitMayFail = FALSE
  MaxVersion = 6
  MaxCrashes = 0
SPECIFICATION Spec
INVARIANT RecordWithRow
CHECK_DEADLOCK FALSE
