SPECIFICATION Spec
CONSTANTS
  Sources = {good, other, bad, wrong}
  SyntaxErrors = {bad}
  Rejected = {wrong}
INVARIANTS
  PanicKeepsOutput
  SuccessMeansTarget
PROPERTY
  Terminates
