SPECIFICATION VMSpec
CONSTANTS
  NGlobal = 2
  Shapes <- MCShapes
  Sites = {1}
  Bounds <- MCNoCollections
INVARIANTS
  OperandsAsDeclared
VIEW
  MCView
CHECK_DEADLOCK FALSE
