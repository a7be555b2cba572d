CONSTANTS
  Jobs = {j1, j2}
  Workers = {w1}
  Clients = {c1, c2}
  RemoteWorkers = {}
  Watchdog = dog
  Nobody = nobody
  AttemptLimit = 2
  MaxAttempts <- MCMaxAttempts
  TimedJobs = {j1, j2}
  MaxOutstanding = 1
  StoreMayFail = FALSE
SPECIFICATION ServeSpec
SYMMETRY Symmetry
INVARIANT SlotAccounting
