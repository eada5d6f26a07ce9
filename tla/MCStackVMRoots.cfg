SPECIFICATION VMSpec
CONSTANTS
  NGlobal = 2
  Shapes <- MCShapes
  Sites = {1}
  Bounds <- MCCollections
INVARIANTS
  RootsPointToObjects
VIEW
  MCView
CHECK_DEADLOCK FALSE
