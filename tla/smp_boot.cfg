CONSTANTS
  NumHarts = 3
  NonSmpHart = 0
  Word <- MCWord
  None = None
SPECIFICATION FairSpec
INVARIANTS
  Barrier
  EntersAtBootAddress
  NoStaleInterrupt
PROPERTIES
  EveryHartBoots
  ImplementsBarrier
CHECK_DEADLOCK FALSE
