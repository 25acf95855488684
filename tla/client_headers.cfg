CONSTANTS
  MaxStreams = 3
  MaxLines = 4
SPECIFICATION FairSpec
INVARIANT HeadersWritten
CHECK_DEADLOCK FALSE
