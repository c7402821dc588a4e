\* Expected: violated.  return 1 && 2; returns 0 when "and" is bitwise.
SPECIFICATION SimSpec
CONSTANTS
  MaxInt = 3
  OverflowChecks = TRUE
  BitwiseLogic = TRUE
  Names = {x}
  Literals = {1, 2}
  Operators = {"And", "Or"}
  MaxItems = 1
  MaxNodes = 2
  MaxDepth = 1
  MaxFuncs = 1
CHECK_DEADLOCK FALSE
INVARIANT
  CodeMeansSource
