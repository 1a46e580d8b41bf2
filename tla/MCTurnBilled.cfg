SPECIFICATION Spec
CONSTANTS
  None = None
  Token = {"fact", "stop", "lie"}
  MaxTokens = 2
  MaxBatch = 2
  MaxTools = 1
INVARIANT GivenUpIsFree
CHECK_DEADLOCK FALSE
