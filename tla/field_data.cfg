SPECIFICATION Spec
CONSTANTS
  Threads = {t1, t2, t3}
  Bases <- FourBases
  GridSizes = {0, 1, 2}
  Solutions = {s1, s2}
  None = None
  MaxCalls = 6
INVARIANTS
  TypeOK
  FieldOfOneSolve
  BasisInRange
PROPERTIES
  CallsReturn
