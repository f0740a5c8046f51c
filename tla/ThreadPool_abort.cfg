SPECIFICATION Spec
CONSTANTS
  t1 = t1
  t2 = t2
  t3 = t3
  Task <- MCTwoTasks
  NoTask = NoTask
  MaxSize = 1
  MaxResize = 0
PROPERTIES
  AbortReachesAll
CHECK_DEADLOCK FALSE
