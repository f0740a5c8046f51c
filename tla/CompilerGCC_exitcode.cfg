SPECIFICATION Spec
CONSTANTS
  p1 = p1
  p2 = p2
  N = 2
  NoJob = NoJob
  ProjectJobs <- OneTarget
  WorkspaceJobs <- TwoProjects
  AlwaysPost = FALSE
  CompileLists <- Linked
  Menu <- BuildOnly
  Impatient = FALSE
  MaxSessions = 1
PROPERTIES
  ExitCodeTells
CHECK_DEADLOCK FALSE
