SPECIFICATION Spec
CONSTANTS
  None = None
  Token = {"fact", "stop", "lie"}
  MaxTokens = 3
  MaxBatch = 2
  MaxTools = 1
PROPERTY NothingAfterTrip
CHECK_DEADLOCK FALSE
