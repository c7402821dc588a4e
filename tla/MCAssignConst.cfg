\* Expected: violated.  const int x = 1; { int x; x = 1; } is rejected.
SPECIFICATION SimSpec
CONSTANTS
  MaxInt = 1
  OverflowChecks = TRUE
  BitwiseLogic = FALSE
  Names = {x}
  Literals = {1}
  Operators = {}
  MaxItems = 4
  MaxNodes = 2
  MaxDepth = 2
  MaxFuncs = 1
CHECK_DEADLOCK FALSE
INVARIANT
  OnlyConstantsAreUnassignable
