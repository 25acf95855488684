SPECIFICATION Spec
CONSTANTS
  NoIp = NoIp
  NoPort = NoPort
  NoConn = NoConn
  Penalty = 100000
  host = host
  ip1 = ip1
  ip2 = ip2
  c1 = c1
  c2 = c2
  c3 = c3
  c4 = c4
  Stubs <- MCStubs
  Callers <- MCCallers
  MaxDrops = 2
PROPERTY DroppedNotAllocated
