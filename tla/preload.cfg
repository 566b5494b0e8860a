CONSTANTS
  Files <- MCFiles
  Methods = {"uart", "jtag", "slink", "memh", "memh_dramsys"}
  Memory <- MCMemory
  DramFirst = 24
  DramEnd = 40
  BusBytes = 4
  Page = 16
  UartBurst = 4
  SlinkBurst = 8
  CheckBytes = 8
SPECIFICATION PreloadSpec
INVARIANTS
  PreloadImageLoaded
  PreloadOnlySections
  PreloadBurstsLegal
CHECK_DEADLOCK FALSE
