\* Expected: violated.  1 <= 1 is compiled to 1 < 1.
SPECIFICATION CompilerSpec
CONSTANTS
  MaxInt = 3
  OverflowChecks = TRUE
  BitwiseLogic = FALSE
  Names = {x}
  Literals = {1}
  Operators = {"Le", "Ge"}
  MaxItems = 2
  MaxNodes = 3
  MaxDepth = 1
  MaxFuncs = 1
  MaxImm = 31
CHECK_DEADLOCK FALSE
INVARIANT
  SlotsHoldValues
