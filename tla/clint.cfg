CONSTANTS
  CyclesPerTick = 13
  MaxStep = 2
  HalfTicks = 4
  FirstHalf = "high"
  Starts <- MCStarts
  MaxCycle = 180
  Calls <- MCCalls
SPECIFICATION FairSpec
INVARIANTS
  SpinNeverEarly
  FreqAccurate
PROPERTIES
  Ends
CHECK_DEADLOCK FALSE
