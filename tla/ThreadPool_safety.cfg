SPECIFICATION Spec
CONSTANTS
  t1 = t1
  t2 = t2
  t3 = t3
  Task <- MCTwoTasks
  NoTask = NoTask
  MaxSize = 2
  MaxResize = 1
SYMMETRY TaskSymmetry
INVARIANTS
  TypeOK
  CounterExact
  OnePlace
  NoLostWakeup
  SleepersAreWoken
PROPERTIES
  AllDoneIsQuiet
  RefinesTaskPool
CHECK_DEADLOCK FALSE
