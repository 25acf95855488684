CONSTANTS
  Nodes <- MCNodes
  Entry <- MCEntry
  Flows <- MCDriverFlows
  Programs <- MCDriverPrograms
  ValueDimension <- Dimension
  Requests <- MCRequests
  Expanded <- Expanding
  MessageErrors <- CompileFldm
SPECIFICATION DriverSpec
INVARIANT ErrorChecksWritten
CHECK_DEADLOCK FALSE
