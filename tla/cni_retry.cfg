SPECIFICATION Spec
CONSTANTS
  a1 = a1
  a2 = a2
  Att = {a1, a2}
  NoAtt = NoAtt
  Port = {p1, p2, p3}
  NoPort = NoPort
  Confs <- OneOfEach
  MaxFaults = 1
INVARIANTS
  TypeOK
  AddedIsComplete
  DelReleases
  LeaseReleasable
  IInv
PROPERTIES
  RetryReleases
