SPECIFICATION MCSpec
CONSTANTS
  Parts = {"turn", "breaker"}
  None = None
  Token = {"fact", "stop", "lie", "short", "echo", "stock"}
  MaxTokens = 2
  MaxBatch = 2
  MaxTools = 2
  Missing = Missing
  Key = {k1, k2}
  Call = {c1, c2, c3}
  Threshold = 2
  ResetAfter = 1
  SuccessesToClose = 2
  MaxKeys = 1
  MaxOutages = 3
INVARIANTS
  DoneIsGrounded
  HandoffIsFree
  FailingIsOpen
PROPERTIES
  TurnsEnd
  FailingIsRemembered
  Recovers
CHECK_DEADLOCK FALSE
