CONSTANTS
  Task = {t1, t2, t3, t4, idle}
  Idle = idle
  NULL = NULL
  Prios <- MCPrios

SPECIFICATION TaskListSpec

INVARIANT
  ListInOrder

\* No task is created after task_start.
CHECK_DEADLOCK FALSE
