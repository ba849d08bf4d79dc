SPECIFICATION FairSpec
CONSTANTS
  Modes = {"100F", "10H"}
  MaxChanges = 3
  MaxOpens = 2
  MaxRx = 2
  MaxIoctls = 1
INVARIANT TypeOK
INVARIANT MpeOn
INVARIANT LinkKnownOrLost
INVARIANT RxKept
PROPERTY LinkFollows
CHECK_DEADLOCK FALSE
