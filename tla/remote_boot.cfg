SPECIFICATION Spec
CONSTANTS
  n1 = n1
  n2 = n2
  n3 = n3
  If = {n1, n2}
  NoIf = NoIf
  Rank <- RankTwo
  NoIpam = {}
  StartAfterAdd = TRUE
  DelLive = FALSE
  VppFirst = TRUE
  CleanupFails = FALSE
  MaxFaults = 1
  MaxAppFaults = 1
INVARIANTS
  TypeOK
  PairedDelivery
  BootInv
PROPERTIES
  Delivered
  ExitsAfterFound
CHECK_DEADLOCK FALSE
