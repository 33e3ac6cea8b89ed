CONSTANTS
  a = a
  b = b
  NULL = NULL
  Task = {a, b}
  Fifo = FALSE
  Depth = 1
  Threshold = 1
  BufLen = 4
  MsgCnt = 1
  TxLen = {1, 2}
  Prompt = FALSE
  MaxRx = 7
  MaxTx = 3
  Byte <- MCByte

SPECIFICATION Spec

CHECK_DEADLOCK FALSE

SYMMETRY Users

INVARIANTS
  TypeOK
  TxInOrder
  TxHandshake
  RxInOrder
  GapsCounted
