SPECIFICATION FairSpec
CONSTANTS
  MAX_RX_DESCR = 3
  MaxLatency = 0
  MaxFrames = 6
  MaxSkbs = 2
  MaxOpens = 2
INVARIANT TypeOK
INVARIANT NoStrandedFrame
INVARIANT RingInv
PROPERTY InOrder
PROPERTY TxAwake
PROPERTY QueueSpec
CHECK_DEADLOCK FALSE
