SPECIFICATION Spec
CONSTANTS
  a1 = a1
  a2 = a2
  a3 = a3
  b1 = b1
  i1 = i1
  i2 = i2
  i3 = i3
  noIf = noIf
  Att = {a1, a2, a3}
  NoAtt = NoAtt
  SwIf = {i1, i2, i3}
  MaxSock = 4
  MaxUsed = 4
  Bd = {b1}
  NoBd = NoBd
  JoinCreates = FALSE
  Conf <- MasterTrio
  RefusedIdx = {0, noIf}
  NoFile = NoFile
  Torn = Torn
  MaxParallel = 1
  MaxFaults = 0
  MaxRestarts = 1
  DelFrom = {"added", "addFailed", "delFailed"}
INVARIANTS
  CleanDelLeavesNothing
  ServableSucceeds
  OneIdPerFile
  AloneInv
PROPERTIES
  Terminates
  StepsKeepPromise
CHECK_DEADLOCK FALSE
