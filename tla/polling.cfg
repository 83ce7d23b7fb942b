SPECIFICATION Spec
CONSTANTS
  Callers = {c1, c2}
  Pollers = {p1, p2}
  Intervals = {fast, slow}
  MaxRevision = 3
  None = None
INVARIANTS
  TypeOK
  OnePoller
  NoOrphan
  NoStaleSleep
PROPERTIES
  StopEndsPoller
  StartPollingReturns
