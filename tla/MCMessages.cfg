CONSTANTS
  a = a
  b = b
  i = i
  pool = pool
  rx = rx
  tx = tx
  m1 = m1
  m2 = m2
  m3 = m3
  NULL = NULL
  Proc <- MCProc
  Isr <- MCIsr
  Queue <- MCQueue
  TaskQueue <- PoolIsTaskQueue
  PutF = {tx}
  Msg = {m1, m2, m3}
  Home <- MCHome
  Maker = a
  PutCalls <- TaskPuts
  GetCalls <- TaskGets

SPECIFICATION FairSpec

INVARIANTS
  TypeOK
  ListIsContent
  OnePlace
  GetFindsMessage
  CountsMessages

PROPERTIES
  EveryMessageFetched
