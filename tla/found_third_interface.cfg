SPECIFICATION Spec
CONSTANTS
  n1 = n1
  n2 = n2
  n3 = n3
  If = {n1, n2, n3}
  NoIf = NoIf
  Rank <- RankThree
  NoIpam = {}
  StartAfterAdd = TRUE
  DelLive = FALSE
  VppFirst = TRUE
  CleanupFails = FALSE
  MaxFaults = 0
  MaxAppFaults = 0
PROPERTIES
  Delivered
CHECK_DEADLOCK FALSE
