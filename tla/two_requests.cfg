SPECIFICATION Spec
CONSTANTS
  NoIp = NoIp
  NoPort = NoPort
  NoConn = NoConn
  Penalty = 100000
  e1 = e1
  e2 = e2
  n1 = n1
  n2 = n2
  n3 = n3
  host = host
  ip1 = ip1
  ip2 = ip2
  Entries <- MCEntries
  Nodes <- MCNodes
  stages <- OneNode
  StubSets <- OneAddress
  accumulate_addresses = TRUE
  MaxCalls = 2
  MaxConnectors = 2
INVARIANTS WindowRespected PoolAccounting NothingLeft
SYMMETRY Symmetry
CHECK_DEADLOCK FALSE
