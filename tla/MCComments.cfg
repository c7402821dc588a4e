\* Expected: violated.  Of two comments on a line, the code between is skipped too.
SPECIFICATION SyntaxSpec
CONSTANTS
  MaxInt = 127
  OverflowChecks = TRUE
  Samples <- CommentSamples
CHECK_DEADLOCK FALSE
INVARIANT
  CommentsSkipped
