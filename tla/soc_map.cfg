CONSTANTS
  Configs <- MCConfigs
  IdxValues = 64
  MaxCores = 32
SPECIFICATION Spec
INVARIANTS
  PortsApart
  Decodes
  CoreView
CHECK_DEADLOCK FALSE
