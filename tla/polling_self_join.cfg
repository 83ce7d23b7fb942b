SPECIFICATION Spec
CONSTANTS
  Callers = {c1, c2}
  Pollers = {p1, p2}
  Intervals = {fast}
  MaxRevision = 3
  None = None
INVARIANTS
  NoPollerJoinsItself
