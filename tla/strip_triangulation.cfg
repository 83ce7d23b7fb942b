SPECIFICATION Spec
CONSTANTS
  MaxCount = 4
  Unit = 200
  RowStep = 173
  Grids <- SmallGrids
INVARIANTS
  TypeOK
  Conforming
  FansAtEnds
  ExportsWholeLayers
PROPERTIES
  ExportEnds
CHECK_DEADLOCK FALSE
