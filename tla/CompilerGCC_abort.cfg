SPECIFICATION Spec
CONSTANTS
  p1 = p1
  p2 = p2
  N = 1
  NoJob = NoJob
  ProjectJobs <- OneTarget
  WorkspaceJobs <- TwoProjects
  AlwaysPost = FALSE
  CompileLists <- Linked
  Menu <- BuildAbort
  Impatient = FALSE
  MaxSessions = 1
PROPERTIES
  AbortStops
CHECK_DEADLOCK FALSE
