SPECIFICATION FairSpec
CONSTANTS
  NoIp = NoIp
  NoPort = NoPort
  NoConn = NoConn
  Penalty = 100000
  e1 = e1
  e2 = e2
  n1 = n1
  n2 = n2
  n3 = n3
  host = host
  ip1 = ip1
  ip2 = ip2
  Entries = {e1}
  Nodes <- MCNodes
  stages <- TwoStages
  StubSets <- MCStubSets
  accumulate_addresses = TRUE
  MaxCalls = 2
  MaxConnectors = 1
INVARIANT HeldWhileOut
PROPERTIES ImplementsScatterGather EveryRequestReturns
CHECK_DEADLOCK FALSE
