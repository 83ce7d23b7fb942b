SPECIFICATION Spec
CONSTANTS
  Callers = {c1, c2}
  Worker = worker
  Jobs = {j1, j2}
  None = None
INVARIANTS
  ExportSeesLayers
