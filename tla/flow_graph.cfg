CONSTANTS
  Nodes <- MCNodes
  Entry <- MCEntry
  Flows <- MCDriverFlows
  Programs <- MCDriverPrograms
  ValueDimension <- Dimension
  Requests <- MCRequests
  Expanded <- Expanding
  MessageErrors <- CompileFldm
SPECIFICATION DriverSpec
INVARIANTS TypeOK StagesOrdered StagesTight StagesComplete CirclesReported
INVARIANTS FirstAlternateRuns ErrorChecksPlaced IndicesInLoops ExpressionsKept AssignmentsConvert
INVARIANTS ArtefactsComplete NamesResolve TemplatesExpand NodesDeployed
CHECK_DEADLOCK FALSE
