CONSTANTS
  Disks <- MCDisks
  MaxLbas <- MCMaxLbas
  Lbas = 16
SPECIFICATION Spec
INVARIANTS
  LaunchesLoaded
CHECK_DEADLOCK FALSE
