SPECIFICATION VMSpec
CONSTANTS
  NGlobal = 2
  Shapes <- MCShapes
  Sites = {1}
  Bounds <- MCBounds
INVARIANTS
  VMTypeOK
  HeadersIntact
  LayoutInv
  StaleOnlyBelowBase
PROPERTIES
  ImplementsFrames
VIEW
  MCView
CHECK_DEADLOCK FALSE
