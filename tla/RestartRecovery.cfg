CONSTANTS
  Jobs = {j1}
  Workers = {w1}
  Clients = {c1}
  RemoteWorkers = {r1}
  Watchdog = dog
  Nobody = nobody
  AttemptLimit = 2
  MaxAttempts <- MCMaxAttempts
  TimedJobs = {}
  MaxOutstanding = 1
  StoreMayFail = FALSE
  MaxRestarts = 2
SPECIFICATION RestartSpec
INVARIANTS
  NoLostJob
  SlotAccounting
  OldLeasesFenced
  AttemptsPerRestart
PROPERTIES
  HistorySurvives
