SPECIFICATION CompilerSpec
CONSTANTS
  MaxInt = 3
  OverflowChecks = TRUE
  BitwiseLogic = FALSE
  Names = {x, y}
  Literals = {1, 2}
  Operators = {"Sub"}
  MaxItems = 4
  MaxNodes = 3
  MaxDepth = 2
  MaxFuncs = 2
  MaxImm = 31
SYMMETRY NameSymmetry
CHECK_DEADLOCK FALSE
INVARIANTS
  NoRegisterLeak
  BackEndTotal
  FrameLayout
  PassesShareContext
  AsmWellFormed
  SlotsHoldValues
  CallingConvention
  ReturnsSourceExceptZero
  ImmediatesFit
  ReturnsWhenSourceDoes
  TextIsSSA
  TextMeansSource
