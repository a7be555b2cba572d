SPECIFICATION Spec
CONSTANTS
  Nodes = {a, b, c}
  NoNode = none
  Workers = {w1, w2}
  Clients = {k1}
  Submitter = sub
  MaxRepeat = 2
  MaxCancels = 1
  MaxCrashes = 1
SYMMETRY Symmetry
INVARIANTS
  KahnExact
  DependenciesRespected
  SuccessMeansAll
  SkipJustified
  Settled
CHECK_DEADLOCK FALSE
