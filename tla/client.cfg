CONSTANTS
  MaxStreams = 3
  MaxLines = 4
SPECIFICATION FairSpec
INVARIANTS SlotsAgree InOrder NothingLost
PROPERTY Ends
CHECK_DEADLOCK FALSE
