CONSTANTS
  Jobs = {j1}
  Workers = {w1}
  Clients = {c1}
  RemoteWorkers = {r1}
  Watchdog = dog
  Nobody = nobody
  AttemptLimit = 1
  MaxAttempts <- MCMaxAttempts
  TimedJobs = {}
  MaxOutstanding = 1
  StoreMayFail = FALSE
SPECIFICATION ServeSpec
PROPERTY LateResultRejected
