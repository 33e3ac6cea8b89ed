CONSTANTS
  a = a
  b = b
  NULL = NULL
  Task = {a, b}
  Fifo = TRUE
  Depth = 4
  Threshold = 3
  BufLen = 4
  MsgCnt = 1
  TxLen = {1, 5}
  Prompt = TRUE
  MaxRx = 7
  MaxTx = 6
  Byte <- MCByte

SPECIFICATION Spec

CHECK_DEADLOCK FALSE

SYMMETRY Users

INVARIANTS
  PoolConserved
  GapsCounted
  NothingHeldBack
