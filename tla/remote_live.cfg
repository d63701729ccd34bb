SPECIFICATION Spec
CONSTANTS
  n1 = n1
  n2 = n2
  n3 = n3
  If = {n1, n2, n3}
  NoIf = NoIf
  Rank <- RankThree
  NoIpam = {n3}
  StartAfterAdd = FALSE
  DelLive = TRUE
  VppFirst = FALSE
  CleanupFails = TRUE
  MaxFaults = 1
  MaxAppFaults = 1
INVARIANTS
  AtMostOnce
  OnlyWritten
  OnceInv
CHECK_DEADLOCK FALSE
