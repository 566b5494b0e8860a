CONSTANTS
  Disks <- MCDisks
  MaxLbas <- MCMaxLbas
  Lbas = 16
SPECIFICATION Spec
INVARIANTS
  RomBootsReference
  SelectionFits
  FirmwareFromDisk
CHECK_DEADLOCK FALSE
