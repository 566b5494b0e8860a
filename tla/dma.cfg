CONSTANTS
  h1 = h1
  h2 = h2
  Harts = {h1, h2}
  None = None
  Requests <- MCRequests
  Turns = {"call", "launch"}
  Word = 8
  FifoDepth = 1
  Ids = 4
  Cells = {0, 1, 2, 3, 4, 5, 6, 7, 8}
  Blank = 0
SPECIFICATION FairSpec
PROPERTIES
  ImplementsService
  Returns
CHECK_DEADLOCK FALSE
