SPECIFICATION Spec
CONSTANTS
  TotalClusters = 4
  NumFats = 2
  Units = 2
  ShortNames = {"f", "g", "d"}
  FilePaths <- MCFilePaths
  DirPaths <- MCDirPaths
  Handles = {h1, h2}
  MaxPos = 3
  MaxCount = 2
  MaxScan = 4
  Root <- MCRoot
INVARIANTS
  VolumeConsistent
  HandlesAgree
  DataPrivate
  FaultContained
CHECK_DEADLOCK FALSE
CONSTRAINT Bound
SYMMETRY Symmetry
