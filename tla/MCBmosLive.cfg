CONSTANTS
  h = h
  a = a
  b = b
  idle = idle
  s = s
  r = r
  m = m
  NULL = NULL
  Task <- MCTask
  Idle <- idle
  Pos <- MCPos
  Prio <- MCPrio
  WaitList <- MCWaitList
  Sem <- MCSem
  SemInit <- MCSemInit
  MaxCount = 1
  Mutex <- MCMutex
  MaxDepth = 1
  WaitCalls <- LiveWaits
  PostCalls <- NoCalls
  LockCalls <- LiveLocks
  DelayCalls <- LiveDelays
  WakeCalls <- LiveWakes
  Exiting = {b}
  IsrPosts <- MCSem

SPECIFICATION FairSpec

PROPERTIES
  TopTaskRuns
  TopLockerServed
  TimedCallReturns
  PeersTakeTurns
