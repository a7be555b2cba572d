SPECIFICATION Spec
CONSTANTS
  Nodes = {a, b, c}
  NoNode = none
  Workers = {w1, w2}
  Clients = {k1}
  Submitter = sub
  MaxRepeat = 1
  MaxCancels = 1
  MaxCrashes = 0
PROPERTY UnstartedStaysEnded
CHECK_DEADLOCK FALSE
