SPECIFICATION RunSpec
CONSTANTS
  TypedLen = 0
  MaxFrames = 3
  MaxDepth = 5
  BodyLen = 6
  PlainOps = {"CONST"}
  Counted <- MCCounted
  Jumps <- MCJumps
  Programs <- LocalCallee
INVARIANTS
  NoUnderflow
CHECK_DEADLOCK FALSE
