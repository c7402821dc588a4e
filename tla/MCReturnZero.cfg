\* Expected: violated.  return 0; leaves a0 as the caller had it.
SPECIFICATION CompilerSpec
CONSTANTS
  MaxInt = 3
  OverflowChecks = TRUE
  BitwiseLogic = FALSE
  Names = {x}
  Literals = {0, 1}
  Operators = {}
  MaxItems = 2
  MaxNodes = 3
  MaxDepth = 1
  MaxFuncs = 1
  MaxImm = 31
CHECK_DEADLOCK FALSE
INVARIANT
  ReturnsSource
