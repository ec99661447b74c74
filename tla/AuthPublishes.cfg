SPECIFICATION Spec
CONSTANTS
  MaxRev = 2
  SelfAuth = {2}
  Origins = {TRUE, FALSE}
  Budgets = {FALSE}
  Lags = TRUE
  Holds = FALSE
  MaxEdits = 1
  MaxTampers = 1
  MaxFaults = 0
INVARIANTS
  TypeOK
  Policed
  AdoptOnlyFound
  UnprobedUnserved
  PublishedProved
  CreditAttributed
PROPERTIES
  OneWay
  ImplementsPublication
CHECK_DEADLOCK FALSE
