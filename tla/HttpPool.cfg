SPECIFICATION Spec
CONSTANTS
  Connections = {c1, c2}
  NoConnection = none
  Pool = {t1, t2}
  Floor = 1
  MaxHeader = 4
  MaxBody = 2
  Scripts <- MCScripts
SYMMETRY Symmetry
INVARIANTS
  FramingExact
  RefusalJustified
  OpenIsOwned
  NoSleeperAfterStop
CHECK_DEADLOCK FALSE
