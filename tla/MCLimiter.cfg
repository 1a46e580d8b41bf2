SPECIFICATION Spec
CONSTANTS
  None = None
  Client = {c1, c2, c3}
  Shop = {s1, s2}
  Used = {"chat", "pixel"}
  Burst = 7
  RefillPerMin = 80
  MaxKeys = 2
  ShopCap = 3
  GlobalCap = 5
  DayLength = 2
  MaxTime = 3
SYMMETRY Symmetry
INVARIANTS
  RateIsBounded
  BillIsBounded
  RetryAfterSuffices
CHECK_DEADLOCK FALSE
