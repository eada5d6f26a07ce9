SPECIFICATION Spec
CONSTANTS
  ShortLen = 4
  LongLen = 6
  TypedLen = 4
  Programs <- MCPrograms
INVARIANTS
  TypeOK
  WalkInv
  IncomingExact
  DepthUnique
  WalkClosed
  MaxStackCovers
  NeverRejectsTyped
PROPERTIES
  Termination
CHECK_DEADLOCK FALSE
