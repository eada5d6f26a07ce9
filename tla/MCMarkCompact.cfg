SPECIFICATION Spec
CONSTANTS
  RawWords <- MCRawWords
  Bases <- MCBases
  FirstBase = 10
  MaxStack = 2
  Bounds <- MCBounds
INVARIANTS
  HeapTypeOK
  HeapWalkable
  QueueInvariant
  MarksReachable
  HeapIntact
PROPERTIES
  ImplementsGraph
  AllocationReturns
CHECK_DEADLOCK FALSE
