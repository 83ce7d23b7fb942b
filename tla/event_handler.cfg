SPECIFICATION Spec
CONSTANTS
  Threads = {t1, t2}
  Subscriptions = {s1, s2}
  MaxDepth = 2
  None = None
INVARIANTS
  TypeOK
  RegistryExact
PROPERTIES
  EventReachesAll
