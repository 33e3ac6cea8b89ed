CONSTANTS
  a = a
  b = b
  Mod = 8
  Retries = 3
  Blocks = 10
  Erased = Erased
  NAK = NAK
  CAN = CAN
  C = C
  ACK = ACK
  Image <- Images
  MaxStarts = 3
  MaxSends = 2
  MaxFaults = 2

SPECIFICATION FairSpec

CHECK_DEADLOCK FALSE

INVARIANTS
  OneImage
  DoneIsWhole

PROPERTIES
  EndsAtEnd
  TransferEnds
