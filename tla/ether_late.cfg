SPECIFICATION Spec
CONSTANTS
  MAX_RX_DESCR = 3
  MaxLatency = 7
  MaxFrames = 6
  MaxSkbs = 2
  MaxOpens = 2
INVARIANT SkbPinned
INVARIANT QueueNotLost
INVARIANT NotWedged
CHECK_DEADLOCK FALSE
