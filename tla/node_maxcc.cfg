SPECIFICATION Spec
CONSTANTS
  NoIp = NoIp
  NoPort = NoPort
  NoConn = NoConn
  Penalty = 100000
  e1 = e1
  e2 = e2
  n1 = n1
  n2 = n2
  n3 = n3
  host = host
  ip1 = ip1
  ip2 = ip2
  Entries <- MCEntries
  Nodes <- MCNodes
  stages <- OneNode
  StubSets <- MaxccOne
  accumulate_addresses = FALSE
  MaxCalls = 1
  MaxConnectors = 1
INVARIANT NodeMaxcc
CHECK_DEADLOCK FALSE
