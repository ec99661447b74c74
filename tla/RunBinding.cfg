SPECIFICATION Spec
CONSTANTS
  s1 = s1
  a1 = a1
  a2 = a2
  w1 = w1
  w2 = w2
  p1 = p1
  p2 = p2
  None = None
  Source = {s1}
  Agent = {a1, a2}
  Home <- OneHome
  Worker = {w1, w2}
  ProcessOf <- OneProcess
  Serves <- AnyKey
  Lags = TRUE
  Outsiders = {"create"}
  MaxIds = 9
  MaxEdits = 6
  MaxFaults = 1
INVARIANTS
  TypeOK
  OwnNamespaceKnown
  CopiesCollected
PROPERTIES
  LiveKept
CHECK_DEADLOCK FALSE
