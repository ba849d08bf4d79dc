SPECIFICATION Spec
CONSTANTS
  MAX_RX_DESCR = 3
  MaxLatency = 1
  MaxFrames = 6
  MaxSkbs = 2
  MaxOpens = 2
INVARIANT ReceiverOff
CHECK_DEADLOCK FALSE
