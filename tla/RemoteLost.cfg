SPECIFICATION Spec
CONSTANTS
  Jobs = {j1}
  None = none
  Main = main
  Heart = heart
  Pollers = {t1, t2}
  MaxAttempts = 2
  MaxStarts = 2
  MaxFaults = 1
  MaxRestarts = 1
  MaxTroubles = 1
SYMMETRY Symmetry
INVARIANT LeaseNeverIdle
CHECK_DEADLOCK FALSE
