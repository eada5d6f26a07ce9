SPECIFICATION RunSpec
CONSTANTS
  TypedLen = 0
  MaxFrames = 3
  MaxDepth = 5
  BodyLen = 6
  PlainOps = {"CONST", "BINOP"}
  Counted <- MCCounted
  Jumps <- MCJumps
  Programs <- MCPrograms
INVARIANTS
  RunTypeOK
  CallsMatch
  FrameWalked
  VerifiedFrameSafe
  RoomSuffices
CHECK_DEADLOCK FALSE
