SPECIFICATION Spec
CONSTANTS
  MAX_FILES = 4
  MAX_HANDLES = 3
  FIRST_FD = 1
  MAX_REGISTERED_FS = 3
  MAX_MOUNTS = 3
  MAX_FILE_SIZE = 1
  SIZE_MAX = 2
  Drivers = {"devfs", "fat32"}
  Ops <- MCOps
  Entries <- MCEntries
  DevOps <- MCDevOps
  DevLen <- MCDevLen
  FileLen = 1
  Dirs <- MCDirs
  Paths <- MCPaths
  Flags <- MCFlags
  Counts = {1}
  Seeks <- MCSeeks
INVARIANTS
  DescriptorsSound
  PositionsFit
  DriversSound
  MountsListed
CONSTRAINT Bound
