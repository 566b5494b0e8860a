CONSTANTS
  BlockLen = 3
  NumBlocks = 3
  MaxRead = 7
  MaxWrite = 2
  CmdPolls = 3
  R1bPolls = 4
  DataPolls = 3
  MaxDelay = 2
  Busy <- MCBusy
  MaxIdle = 2
  Cards = {"off", "idle", "ready", "absent"}
SPECIFICATION FairSpec
INVARIANTS
  ReadExact
  NoOverrun
  WriteExact
  SuccessDetaches
  InitMeansReady
PROPERTIES
  Returns
CHECK_DEADLOCK FALSE
