CONSTANTS
  a = a
  b = b
  NULL = NULL
  Task = {a, b}
  Fifo = FALSE
  Depth = 1
  Threshold = 1
  BufLen = 2
  MsgCnt = 1
  TxLen = {1, 2}
  Prompt = TRUE
  MaxRx = 3
  MaxTx = 2
  Byte <- MCByte

SPECIFICATION FairSpec

CHECK_DEADLOCK FALSE

INVARIANTS
  NothingHeldBack

PROPERTIES
  EveryByteSent
  EveryByteDelivered
