SPECIFICATION Spec
CONSTANTS
  n1 = n1
  n2 = n2
  n3 = n3
  If = {n1, n2}
  NoIf = NoIf
  Rank <- RankTwo
  NoIpam = {}
  StartAfterAdd = FALSE
  DelLive = FALSE
  VppFirst = TRUE
  CleanupFails = FALSE
  MaxFaults = 0
  MaxAppFaults = 0
INVARIANTS
  Paired
CHECK_DEADLOCK FALSE
