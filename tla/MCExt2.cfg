SPECIFICATION Spec
CONSTANTS
  NumGroups = 2
  BlocksPerGroup = 4
  InodesPerGroup = 2
  BS = 2
  PPB = 2
  Metadata = {5}
  DirUnits = 3
  Need <- MCNeed
  Beheaded <- MCBeheaded
  Paths <- MCPaths
  Handles = {1, 2}
  SeekTo = {5, 14}
  Counts = {2}
  MaxPos = 16
INVARIANTS
  VolumeConsistent
  FaultContained
  DataInPlace
CONSTRAINT Bound
CHECK_DEADLOCK FALSE
