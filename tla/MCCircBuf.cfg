CONSTANTS
  BufLen = 4
  Byte = {0, 1}
  MaxPortion = 4

SPECIFICATION RingSpec

INVARIANTS
  TwoReadsDrain

PROPERTIES
  BufferIsFifo
