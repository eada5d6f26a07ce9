SPECIFICATION RRSpec
CONSTANTS
  MaxRoots = 3
  Slots = {x, y}
  MaxValues = 3
  MaxCalls = 3
  Callers = {"program", "interpreter"}
  ArgNames <- MCArgNames
  WordNames <- MCWordNames
SYMMETRY
  MCSlots
INVARIANTS
  RootsTypeOK
  PoolFollowsCalls
  PoolErrors
  StaleOnlyKnown
  ResultsAsPromised
CHECK_DEADLOCK FALSE
