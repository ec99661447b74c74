SPECIFICATION FairSpec
CONSTANTS
  d1 = d1
  d2 = d2
  d3 = d3
  n1 = n1
  n2 = n2
  None = None
  Digest = {d1, d2}
  Name = {n1, n2}
  NameOf <- Two
  Content <- Bytes
  Limit = 0
  Gated = FALSE
  Lags = FALSE
  Tampering = {"workload", "service", "headless", "copy"}
  MaxEdits = 1
  MaxTampers = 1
  MaxFaults = 1
INVARIANTS
  ServiceRecorded
PROPERTIES
  OnlyOwnReplaced
  RevisionsSettle
CHECK_DEADLOCK FALSE
