SPECIFICATION FairSpec
CONSTANTS
  FileSize = 3
  TftpBlkSizeOption = 2
  TFTP_SEQUENCE_SIZE = 5
  TIMEOUT_COUNT = 1
  Ports = {1, 2}
  Tids = {11, 12}
  MaxFaults = 3
  NONE = NONE
  Setups <- MCSetups
INVARIANT TypeOK
INVARIANT Received
INVARIANT AckedIsStored
PROPERTY Ends
CHECK_DEADLOCK FALSE
