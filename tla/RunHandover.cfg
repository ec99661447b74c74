SPECIFICATION Spec
CONSTANTS
  s1 = s1
  a1 = a1
  a2 = a2
  w1 = w1
  w2 = w2
  p1 = p1
  p2 = p2
  None = None
  Source = {s1}
  Agent = {a1, a2}
  Home <- OneHome
  Worker = {w1, w2}
  ProcessOf <- TwoProcesses
  Serves <- AnyKey
  Lags = FALSE
  Outsiders = {"create", "delete"}
  MaxIds = 7
  MaxEdits = 4
  MaxFaults = 0
INVARIANTS
  GrantSound
  DeletingUnused
CHECK_DEADLOCK FALSE
