SPECIFICATION SimSpec
CONSTANTS
  MaxInt = 1
  OverflowChecks = FALSE
  BitwiseLogic = FALSE
  Names = {x}
  Literals = {1}
  Operators = {"Minus", "Div", "Mod", "Sub", "Le", "Ge"}
  MaxItems = 2
  MaxNodes = 5
  MaxDepth = 1
  MaxFuncs = 1
CHECK_DEADLOCK FALSE
INVARIANTS
  CodeMeansSource
  RejectionsJustified
  FaultsRejected
