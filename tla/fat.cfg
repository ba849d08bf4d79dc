SPECIFICATION Spec
CONSTANTS
  Clusters = 3
  Numbers = 4
  clust_size = 2
  FS_BLOCK_SIZE = 2
  FATBUFBLOCKS = 2
  PerBlock = 1
  Filesizes = {0, 3, 8, 11}
  Maxsizes = {0, 5}
  MaxFaults = 1
INVARIANT TypeOK
INVARIANT LoadedOrHidden
CHECK_DEADLOCK FALSE
