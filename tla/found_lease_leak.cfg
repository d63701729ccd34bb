SPECIFICATION Spec
CONSTANTS
  a1 = a1
  a2 = a2
  Att = {a1}
  NoAtt = NoAtt
  Port = {p1, p2}
  NoPort = NoPort
  Confs <- OneSlave
  MaxFaults = 0
PROPERTIES
  LeaseReleased
