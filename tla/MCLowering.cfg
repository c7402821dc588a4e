\* Every operator but the two whose lowering is wrong (MCRelational).
SPECIFICATION CompilerSpec
CONSTANTS
  MaxInt = 3
  OverflowChecks = TRUE
  BitwiseLogic = FALSE
  Names = {x}
  Literals = {0, 1, 3}
  Operators = {"Plus", "Minus", "Not", "Or", "And", "Eq", "Ne", "Lt", "Gt",
               "Mul", "Div", "Mod", "Add", "Sub"}
  MaxItems = 2
  MaxNodes = 3
  MaxDepth = 1
  MaxFuncs = 1
  MaxImm = 31
CHECK_DEADLOCK FALSE
INVARIANTS
  NoRegisterLeak
  SlotsHoldValues
  ReturnsSourceExceptZero
  CodeMeansSource
  RejectionsJustified
  FaultsRejected
