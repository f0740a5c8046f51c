SPECIFICATION FairSpec
CONSTANTS
  t1 = t1
  t2 = t2
  t3 = t3
  Task <- MCOneTask
  NoTask = NoTask
  MaxSize = 2
  MaxResize = 1
PROPERTIES
  QueuedIsServed
  AllDoneIsPosted
  ResizeFromOneTakesEffect
CHECK_DEADLOCK FALSE
