CONSTANTS
  Jobs = {j1}
  Workers = {w1}
  Clients = {c1}
  RemoteWorkers = {}
  Watchdog = dog
  Nobody = nobody
  AttemptLimit = 2
  MaxAttempts <- MCMaxAttempts
  TimedJobs = {}
  MaxOutstanding = 1
  StoreMayFail = FALSE
SPECIFICATION Spec
INVARIANT DrainFinishesAll
CHECK_DEADLOCK FALSE
