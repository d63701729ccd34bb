SPECIFICATION Spec
CONSTANTS
  net1 = net1
  net10 = net10
  other = other
  odd = odd
  c3 = c3
  c1 = c1
  c2 = c2
  Att = {net1, net10, other, odd}
  NoAtt = NoAtt
  Cid = {c1, c2, c3}
  ContainerId <- TwoContainers
  Order <- ShortFirst
  Names <- Prefixes
  Conf <- Vhosts
  NoPort = NoPort
  MaxParallel = 2
  MaxFaults = 1
  MaxSwallowed = 1
INVARIANTS
  TypeOK
  IInv
  AddedHasPort
  AddedIsWired
  DelLeavesNoFile
  DelSucceeds
PROPERTIES
  KeepsPromise
