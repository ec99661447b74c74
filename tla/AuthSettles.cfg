SPECIFICATION FairSpec
CONSTANTS
  MaxRev = 1
  SelfAuth = {}
  Origins = {TRUE, FALSE}
  Budgets = {TRUE, FALSE}
  Lags = FALSE
  Holds = TRUE
  MaxEdits = 1
  MaxTampers = 1
  MaxFaults = 1
INVARIANTS
  OpenRecordUnpoliced
  ReleasedClean
PROPERTIES
  AuthSettles
CHECK_DEADLOCK FALSE
