SPECIFICATION VarSpec
CONSTANTS
  NGlobal = 2
  NLocals = 1
  NArgs = 1
  NCaptured = 1
  Globals <- MCGlobals
  MaxVars = 2
  MaxOps = 3
INVARIANTS
  VarTypeOK
  ControlIntact
  UndefinedOnlyAfterRisk
PROPERTIES
  ImplementsVariables
VIEW
  MCView
CHECK_DEADLOCK FALSE
