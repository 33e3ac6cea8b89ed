CONSTANTS
  h = h
  a = a
  b = b
  idle = idle
  s = s
  r = r
  m = m
  NULL = NULL
  Task <- MCTask
  Idle <- idle
  Pos <- MCPos
  Prio <- MCPrio
  WaitList <- MCWaitList
  Sem <- MCSem
  SemInit <- MCSemInit
  MaxCount = 2
  Mutex <- MCMutex
  MaxDepth = 2
  WaitCalls <- AllWaits
  PostCalls <- AllPosts
  LockCalls <- AllLocks
  DelayCalls <- TickDelays
  WakeCalls <- NoCalls
  Exiting = {}
  IsrPosts <- MCSem

SPECIFICATION Spec

INVARIANTS
  TypeOK
  RunningIsReady
  MutexExclusion
  WaitLoopAsserts
  WaitListOK
  NoLostWakeup

PROPERTIES
  SemaphoresKeepPromise
  MutexesKeepPromise
