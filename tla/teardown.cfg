SPECIFICATION Spec
CONSTANTS
  App = App
  Poller = Poller
  Field = Field
  Loop = Loop
INVARIANTS
  TypeOK
  SafeTeardown
PROPERTIES
  TeardownEnds
