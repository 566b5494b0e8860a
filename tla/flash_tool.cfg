CONSTANTS
  None = None
  Sectors = 3
  SectorPages = 4
  ShortPages = 2
  SmallPages = 1
  NumSmall = 2
  Cycle = 3
  ReadPages = 2
  Handles <- MCHandles
  NumCs = 2
  Segments <- MCSegments
  Reads <- MCReads
  MaxCalls = 2
SPECIFICATION FairSpec
INVARIANTS
  CommandsAccepted
  ReadExact
  ZeroMeansWritten
PROPERTIES
  OthersUntouched
  Returns
CHECK_DEADLOCK FALSE
