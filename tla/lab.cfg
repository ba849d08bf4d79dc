SPECIFICATION FairSpec
CONSTANTS
  Capacity = 6
  Half = 16
  Chunk = 2
  BootSize = 2
  UbootAddr = 3
  UbootSize = 3
  MaxSize = 3
  Vect6 = 1
  Byte = {0, 1, 2, 3}
  VECTOR = 3
  JUNK = JUNK
  Images <- MCImages
  Contents <- MCContents
  Addresses = {0, 1, 4, 14, 24}
  MaxDownloads = 2
  MaxFails = 1
INVARIANT TypeOK
INVARIANT VerifiedIsThere
PROPERTY BootloaderAsked
PROPERTY BootsOrAsks
PROPERTY VerifiesInTheEnd
CHECK_DEADLOCK FALSE
