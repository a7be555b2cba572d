CONSTANTS
  Ids = {j1, j2}
  Priorities = {0, 1}
  Producers = {p1}
  Workers = {w1}
  Claimers = {h1}
  Capacity = 2
  MaxPushes = 3
  MaxTime = 2
  BatchSize = 2
SPECIFICATION Spec
SYMMETRY Symmetry
INVARIANTS
  QueueInv
  NoOversleep
PROPERTY RefinesJobQueue
CHECK_DEADLOCK FALSE
