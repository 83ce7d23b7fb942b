SPECIFICATION Spec
CONSTANTS
  Callers = {c1, c2}
  Worker = worker
  Jobs = {j1, j2, j3}
  None = None
INVARIANTS
  TypeOK
  InProgressTracksJob
  NoLostWakeup
  SliceStable
  FieldMatchesCoefficients
PROPERTIES
  ImplementsService
  JobReported
  ShutdownCompletes
