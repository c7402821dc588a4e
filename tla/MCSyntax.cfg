SPECIFICATION SyntaxSpec
CONSTANTS
  MaxInt = 127
  OverflowChecks = TRUE
  Samples <- AllSamples
CHECK_DEADLOCK FALSE
INVARIANTS
  CommentsOnOneLine
  LiteralsAsInC
  ExpressionsAsInC
  ProgramsReadBack
