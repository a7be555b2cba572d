CONSTANTS
  Jobs = {j1}
  Workers = {w1}
  Clients = {c1, c2}
  RemoteWorkers = {}
  Watchdog = dog
  Nobody = nobody
  AttemptLimit = 2
  MaxAttempts <- MCMaxAttempts
  TimedJobs = {}
  MaxOutstanding = 1
  StoreMayFail = FALSE
SPECIFICATION ServeSpec
PROPERTY TerminalAbsorbing
