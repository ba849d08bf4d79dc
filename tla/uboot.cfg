SPECIFICATION Spec
CONSTANTS
  PageSize = 2
  Pages = 5
  BootEnd = 3
  EnvEnd = 7
  EnvSize = 3
  Value = {1, 2}
  Contents <- MCContents
  Dests = {0, 2, 4, 8}
  Sizes = {1, 3}
  MaxWrites = 2
  MaxFails = 2
INVARIANT TypeOK
INVARIANT EnvWhole
PROPERTY BootsSaved
PROPERTY ProtectedButEdges
CHECK_DEADLOCK FALSE
