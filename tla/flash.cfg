SPECIFICATION Spec
CONSTANTS
  PageSize = 3
  Pages = 3
  Byte = {0, 1, 2, 3, 4, 5, 6, 7}
  ERASED = 0
  JUNK = JUNK
  UNKNOWN = UNKNOWN
  Word = 64
  MaxChunk = 4
  Images <- MCImages
  Dests = {0, 1, 2, 4, 8, 9}
  Sizes = {0, 2, 4, 9}
  MaxWrites = 2
  MaxFails = 1
INVARIANT TypeOK
INVARIANT WriteOK
INVARIANT ReadOK
PROPERTY StoreSpec
CHECK_DEADLOCK FALSE
