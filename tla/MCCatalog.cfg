SPECIFICATION FairSpec
CONSTANTS
  None = None
  Queue = Queue
  Turn = {t1}
  Debounce = 2
  MaxWait = 3
  MaxAge = 2
  Quiet = 1
  Cooldown = 3
  MaxEdits = 2
  Bare = {1}
INVARIANTS
  ChangesAreFetched
  BurstsAreBounded
PROPERTIES
  EventuallyCurrent
