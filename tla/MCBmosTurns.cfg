CONSTANTS
  h = h
  a = a
  b = b
  idle = idle
  s = s
  r = r
  m = m
  NULL = NULL
  Task <- MCTask
  Idle <- idle
  Pos <- MCPos
  Prio <- MCPrio
  WaitList <- MCWaitList
  Sem <- MCSem
  SemInit <- MCSemInit
  MaxCount = 1
  Mutex <- MCMutex
  MaxDepth = 1
  WaitCalls <- NoCalls
  PostCalls <- NoCalls
  LockCalls <- NoCalls
  DelayCalls <- TickDelays
  WakeCalls <- NoCalls
  Exiting = {}
  IsrPosts = {}

SPECIFICATION FairSpec

PROPERTIES
  RoundRobin
