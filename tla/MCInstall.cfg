SPECIFICATION FairSpec
CONSTANTS
  None = None
  Op = {o1, o2}
  MaxUninstalls = 1
PROPERTIES
  TokensAreKept
  VisitsRepair
