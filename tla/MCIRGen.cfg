\* Two names, blocks three deep, two functions; one or two operators of each
\* handler.
SPECIFICATION SimSpec
CONSTANTS
  MaxInt = 3
  OverflowChecks = TRUE
  BitwiseLogic = FALSE
  Names = {x, y}
  Literals = {1}
  Operators = {"Plus", "Minus", "Or", "And", "Eq", "Lt", "Mul", "Add"}
  MaxItems = 5
  MaxNodes = 3
  MaxDepth = 3
  MaxFuncs = 2
SYMMETRY NameSymmetry
CHECK_DEADLOCK FALSE
INVARIANTS
  TypeOK
  ScopesBalanced
  OneDeclarationPerScope
  NoInternalPanic
  SuspendedCanResume
  SSA
  MemoryDiscipline
  CodeMeansSource
  RejectionsJustified
  FaultsRejected
PROPERTIES
  AppendOnly
  ImplementsKoopaBuilder
