CONSTANTS
  Jobs = {j1}
  Workers = {w1}
  Clients = {c1}
  RemoteWorkers = {}
  Watchdog = dog
  Nobody = nobody
  AttemptLimit = 1
  MaxAttempts <- MCMaxAttempts
  TimedJobs = {}
  MaxOutstanding = 1
  StoreMayFail = FALSE
  MaxRestarts = 1
SPECIFICATION RestartSpec
INVARIANT AttemptsBounded
