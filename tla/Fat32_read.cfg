CONSTANTS
  NBYTES_PER_SECTOR = 64
  DirentSize = 32
  PiDirentSize = 44
  PiFileSize = 12
  WordSize = 4
  ClusterSpace = 32
  HeapStart = 8
  HeapMax = 4096
  MemEnd = 100000
  Disks <- Cards
  Names = {"F", "G", "X"}
  MaxCalls = 1
SPECIFICATION Spec
INVARIANT FilesWhole
CHECK_DEADLOCK FALSE
