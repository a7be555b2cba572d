CONSTANTS
  Jobs = {j1}
  Workers = {}
  Clients = {c1, c2}
  RemoteWorkers = {r1}
  Watchdog = dog
  Nobody = nobody
  AttemptLimit = 2
  MaxAttempts <- MCMaxAttempts
  TimedJobs = {}
  MaxOutstanding = 1
  StoreMayFail = FALSE
SPECIFICATION ServeSpec
PROPERTY UserReasonKept
