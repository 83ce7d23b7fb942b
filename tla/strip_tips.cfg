SPECIFICATION Spec
CONSTANTS
  MaxCount = 4
  Unit = 200
  RowStep = 173
  Grids <- TipGrids
INVARIANTS
  CellsFill
CHECK_DEADLOCK FALSE
