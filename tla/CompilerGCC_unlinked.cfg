SPECIFICATION FairSpec
CONSTANTS
  p1 = p1
  p2 = p2
  N = 2
  NoJob = NoJob
  ProjectJobs <- TwoTargets
  WorkspaceJobs <- TwoProjects
  AlwaysPost = FALSE
  CompileLists <- Unlinked
  Menu <- BuildOnly
  Impatient = FALSE
  MaxSessions = 1
PROPERTIES
  BuildIsFinished
CHECK_DEADLOCK FALSE
