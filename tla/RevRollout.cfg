SPECIFICATION Spec
CONSTANTS
  d1 = d1
  d2 = d2
  d3 = d3
  n1 = n1
  n2 = n2
  None = None
  Digest = {d1, d2, d3}
  Name = {n1, n2}
  NameOf <- Shared
  Content <- Bytes
  Limit = 1
  Gated = TRUE
  Lags = FALSE
  Tampering = {}
  MaxEdits = 4
  MaxTampers = 0
  MaxFaults = 1
INVARIANTS
  TypeOK
  CopiesKept
  ActiveAddressed
CHECK_DEADLOCK FALSE
