SPECIFICATION FairSpec
CONSTANTS
  NoIp = NoIp
  NoPort = NoPort
  NoConn = NoConn
  Penalty = 100000
  r1 = r1
  r2 = r2
  c1 = c1
  epA = ep
  Startups <- MCStartups
  NameOf <- MCNameOf
  Schemas <- MCSchemas
  MethodOptions <- MCMethodOptions
  Valid <- MCValid
  RestThreads = {r1, r2}
  Clients = {c1}
  StubSets <- MCStubSets
  MaxSignals = 1
INVARIANTS ConfigPrecedence EndpointsParsed OrderlyStop RepliesTruthful NothingOutstanding
PROPERTIES SignalStops EveryRequestReplies
CHECK_DEADLOCK FALSE
