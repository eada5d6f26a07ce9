SPECIFICATION LibSpec
CONSTANTS
  HalfWord = 8
  Digits = 2
  TagChars = 2
  HashDepth = 1
  HashRange = 16
  ConsTag = 3
  StringBufInit = 1
  MaxFiles = 2
  Sessions <- MCSessions
INVARIANTS
  OperatorsAgree
  EncodingsExact
  ValuesAgree
  BufferHolds
  OutsideAnswers
PROPERTIES
  CallsReturn
CHECK_DEADLOCK FALSE
