SPECIFICATION FairSpec
CONSTANTS
  p1 = p1
  p2 = p2
  N = 1
  NoJob = NoJob
  ProjectJobs <- TwoTargets
  WorkspaceJobs <- TwoProjects
  AlwaysPost = TRUE
  CompileLists <- Linked
  Menu <- MCMenu
  Impatient = FALSE
  MaxSessions = 3
PROPERTIES
  LinkAfterCompile
  BuildIsFinished
CHECK_DEADLOCK FALSE
