CONSTANTS
  Jobs = {j1}
  Workers = {w1, w2}
  Clients = {c1, c2}
  RemoteWorkers = {r1}
  Watchdog = dog
  Nobody = nobody
  AttemptLimit = 2
  MaxAttempts <- MCMaxAttempts
  TimedJobs = {j1}
  MaxOutstanding = 1
  StoreMayFail = FALSE
SPECIFICATION ServeSpec
SYMMETRY Symmetry
INVARIANTS
  LeaseMatchesRow
  FinisherAlone
  NoLostJob
  CompletedOnce
PROPERTIES
  OnlyCancelRevives
  ValidTransitions
  HistoryKept
