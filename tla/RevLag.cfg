SPECIFICATION Spec
CONSTANTS
  d1 = d1
  d2 = d2
  d3 = d3
  n1 = n1
  n2 = n2
  None = None
  Digest = {d1, d2, d3}
  Name = {n1, n2}
  NameOf <- Shared
  Content <- Bytes
  Limit = 0
  Gated = FALSE
  Lags = TRUE
  Tampering = {}
  MaxEdits = 2
  MaxTampers = 0
  MaxFaults = 0
SYMMETRY Peers
INVARIANTS
  ActiveRuns
  CopiesKept
PROPERTIES
  ActiveNotCollected
CHECK_DEADLOCK FALSE
