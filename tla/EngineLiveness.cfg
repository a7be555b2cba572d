CONSTANTS
  Jobs = {j1}
  Workers = {w1, w2}
  Clients = {c1}
  RemoteWorkers = {}
  Watchdog = dog
  Nobody = nobody
  AttemptLimit = 2
  MaxAttempts <- MCMaxAttempts
  TimedJobs = {j1}
  MaxOutstanding = 1
  StoreMayFail = FALSE
SPECIFICATION FairSpec
INVARIANTS
  StopLeavesRecoverable
PROPERTIES
  JobsFinish
  StopTerminates
CHECK_DEADLOCK FALSE
