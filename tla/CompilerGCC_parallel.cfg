SPECIFICATION FairSpec
CONSTANTS
  p1 = p1
  p2 = p2
  N = 2
  NoJob = NoJob
  ProjectJobs <- TwoTargets
  WorkspaceJobs <- TwoProjects
  AlwaysPost = FALSE
  CompileLists <- Linked
  Menu <- BuildMenu
  Impatient = FALSE
  MaxSessions = 3
INVARIANTS
  TypeOK
  SlotIntegrity
  WaitAlone
  OneTargetAtATime
PROPERTIES
  StopsAtFailure
  BuildIsFinished
CHECK_DEADLOCK FALSE
