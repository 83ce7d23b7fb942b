SPECIFICATION Spec
CONSTANTS
  Callers = {c1, c2}
  Workers = {w1, w2, w3}
  None = None
INVARIANTS
  TypeOK
  OneOwner
  NoSelfJoin
  SessionClosed
PROPERTIES
  StopEnds
  CallsReturn
