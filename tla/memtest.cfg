SPECIFICATION MSpec
CONSTANTS
  Words = 5
  BytesPerWord = 2
  ByteBits = 2
  GalpatWords = 2
  MaxTests = 2
INVARIANT NoFalseAlarm
INVARIANT Finds
CHECK_DEADLOCK FALSE
