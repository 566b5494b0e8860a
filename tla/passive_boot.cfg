CONSTANTS
  HostKinds = {"uart", "slink", "jtag"}
  Sections <- MCSections
  Image <- MCImage
  Entry <- MCEntry
  BurstBytes = 2
  Codes = 4
  Results <- MCResults
  MaxNoise = 2
  MaxPrint = 1
SPECIFICATION FairSpec
INVARIANTS
  PreloadComplete
  EntersAtEntry
  HostNeverFatal
  HostCodeCorrect
PROPERTIES
  ExitWordStable
  Completes
CHECK_DEADLOCK FALSE
