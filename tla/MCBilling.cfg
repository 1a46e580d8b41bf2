SPECIFICATION MCSpec
CONSTANTS
  Parts = {"metering", "subscription"}
  free = free
  growth = growth
  scale = scale
  other = other
  line1 = line1
  line2 = line2
  none = none
  Plan <- MCPlan
  Free = free
  None = none
  Included <- MCIncluded
  OverageMinor <- MCOverageMinor
  PriceMinor <- MCPriceMinor
  Session = {s1, s2}
  MaxPeriod = 1
  MaxPurges = 1
  Line = {line1, line2}
  LineCap <- MCLineCap
  Row <- MCRow
  SubId = {sub1, sub2}
  Op = {o1, o2}
  Listing <- MCListing
  MaxCopies = 1
  MaxChanges = 2
  MaxClicks = 2
INVARIANTS
  ChargedOnce
  ChargesAreJustified
  OverageBeyondAllowance
  LedgerNeverOverstates
  PaidPlanWasApproved
PROPERTY EventuallyAgrees
CHECK_DEADLOCK FALSE
