CONSTANTS
  Jobs = {j1}
  Workers = {w1}
  Clients = {c1}
  RemoteWorkers = {r1}
  Watchdog = dog
  Nobody = nobody
  AttemptLimit = 2
  MaxAttempts <- MCMaxAttempts
  TimedJobs = {j1}
  MaxOutstanding = 1
  StoreMayFail = TRUE
SPECIFICATION Spec
INVARIANTS
  LifecycleInv
  AttemptsBounded
CHECK_DEADLOCK FALSE
