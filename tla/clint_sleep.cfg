CONSTANTS
  CyclesPerTick = 13
  MaxStep = 2
  HalfTicks = 4
  FirstHalf = "high"
  Starts <- MCStarts
  MaxCycle = 180
  Calls <- MCSleeps
SPECIFICATION FairSpec
INVARIANTS
  SleepLasts
CHECK_DEADLOCK FALSE
