SPECIFICATION Spec
CONSTANTS
  FileSize = 4
  TftpBlkSizeOption = 2
  TFTP_SEQUENCE_SIZE = 3
  TIMEOUT_COUNT = 1
  Ports = {1, 2}
  Tids = {11, 12}
  MaxFaults = 1
  NONE = NONE
  Setups <- MCSetups
PROPERTY SameBlockIgnored
CHECK_DEADLOCK FALSE
