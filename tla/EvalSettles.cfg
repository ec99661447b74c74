SPECIFICATION FairSpec
CONSTANTS
  i1 = i1
  i2 = i2
  c1 = c1
  c2 = c2
  d1 = d1
  d2 = d2
  d3 = d3
  s1 = s1
  s2 = s2
  p1 = p1
  p2 = p2
  None = None
  Image = {i1, i2}
  Content = {c1, c2}
  Digest = {d1, d2, d3}
  Mint <- MCMint
  Suite = {s1, s2}
  Case = {1, 2}
  SuiteCases <- MCSuiteCases
  Threshold <- MCThreshold
  Process = {p1}
  MaxFailed = 2
  MaxPassed = 1
  MaxEdits = 2
  Users <- RecordUsers
  Reads <- SettleReads
INVARIANTS
  RunNotFailed
  FailedVerdictRecorded
  PassedNotFailed
  ActivePassRecorded
PROPERTIES
  RolloutSettles
CHECK_DEADLOCK FALSE
