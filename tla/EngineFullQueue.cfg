CONSTANTS
  Jobs = {j1, j2}
  Workers = {w1}
  Clients = {c1, c2}
  RemoteWorkers = {}
  Watchdog = dog
  Nobody = nobody
  AttemptLimit = 1
  MaxAttempts <- MCMaxAttempts
  TimedJobs = {}
  MaxOutstanding = 1
  StoreMayFail = FALSE
SPECIFICATION ServeSpec
INVARIANT NoLostJob
