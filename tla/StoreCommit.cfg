CONSTANTS
  Ids = {j1, j2}
  NoId = none
  Threads = {t1, t2}
  MaxBatch = 2
  MaxBuffered = 2
  Connections = 1
  CommitMayFail = TRUE
  MaxVersion = 4
  MaxCrashes = 1
SPECIFICATION Spec
SYMMETRY Symmetry
INVARIANTS
  AckedDurable
  RecordPrecedesRow
  InsertsAreServed
PROPERTIES
  RefinesTable
  ReadsFresh
CHECK_DEADLOCK FALSE
