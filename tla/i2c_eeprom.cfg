CONSTANTS
  Depth = 8
  BufBytes = 32
  Reads <- MCReads
  Writes <- MCWrites
SPECIFICATION EepromSpec
INVARIANTS
  EepromReadExact
  EepromOverrunBounded
  EepromFifosFit
PROPERTIES
  EepromEnds
CHECK_DEADLOCK FALSE
