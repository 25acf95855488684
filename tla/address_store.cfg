SPECIFICATION FairSpec
CONSTANTS
  n1 = n1
  n2 = n2
  d1 = d1
  d2 = d2
  ip1 = ip1
  ip2 = ip2
  Dnames <- MCDnames
  Ips <- MCIps
  Nodes <- MCNodes
  dnames <- MCdnames
  Unknown = Unknown
  NoUpdate = NoUpdate
  loops = 0
  MaxIterations = 2
INVARIANTS TypeOK VersionsOrdered CacheCoherent
PROPERTIES ImplementsDirectory WatcherStops
