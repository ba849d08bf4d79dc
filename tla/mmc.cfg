SPECIFICATION Spec
CONSTANTS
  MaxPolls = 2
  Rcas = {2, 3}
  Blocks = 3
  Sizes = {1, 2}
  MaxCalls = 4
  MaxFaults = 3
  MaxInserts = 2
INVARIANT TypeOK
INVARIANT Identified
INVARIANT ReadRight
INVARIANT Recovers
CHECK_DEADLOCK FALSE
