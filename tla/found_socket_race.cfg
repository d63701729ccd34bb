SPECIFICATION Spec
CONSTANTS
  a1 = a1
  a2 = a2
  a3 = a3
  b1 = b1
  i1 = i1
  i2 = i2
  i3 = i3
  noIf = noIf
  Att = {a1, a2}
  NoAtt = NoAtt
  SwIf = {i1, i2}
  MaxSock = 2
  MaxUsed = 2
  Bd = {b1}
  NoBd = NoBd
  JoinCreates = TRUE
  Conf <- MasterPair
  RefusedIdx = {0}
  NoFile = NoFile
  Torn = Torn
  MaxParallel = 2
  MaxFaults = 0
  MaxRestarts = 0
  DelFrom = {"added", "addFailed", "delFailed"}
INVARIANTS
  OwnSocket
