\* A task that waits for the mutex keeps its owner from running.
\* The tasks can stop for good: that is what the run shows.
CONSTANTS
  taskMain = taskMain
  taskFg = taskFg
  NoTask = NoTask
  Task <- MCTask
  Sleeper <- MCSleeper
  Priority <- MCPriority
  MaxNesting = 1
SPECIFICATION SchedSpec
PROPERTY LockReturns
CHECK_DEADLOCK FALSE
