SPECIFICATION Spec
CONSTANTS
  Connections = {c1}
  NoConnection = none
  Pool = {t1, t2}
  Floor = 1
  MaxHeader = 4
  MaxBody = 2
  Scripts <- MCScripts
SYMMETRY Symmetry
INVARIANT HeaderLimitExact
CHECK_DEADLOCK FALSE
