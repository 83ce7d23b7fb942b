SPECIFICATION Spec
CONSTANTS
  s1 = s1
  s2 = s2
  n1 = n1
  n2 = n2
  n3 = n3
  Slots <- TwoSlots
  Nodes <- ThreeNodes
  Topologies <- Spaces
  Capacity = 2
  MaxSession = 2
  Readers = {r1}
  None = None
INVARIANTS
  TypeOK
  TableComplete
  ValuesNamed
CHECK_DEADLOCK FALSE
PROPERTIES
  DiscoveryEnds
  SensorsFlow
