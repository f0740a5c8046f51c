SPECIFICATION Spec
CONSTANTS
  p1 = p1
  p2 = p2
  N = 1
  NoJob = NoJob
  ProjectJobs <- OneTarget
  WorkspaceJobs <- TwoProjects
  AlwaysPost = FALSE
  CompileLists <- Linked
  Menu <- BuildOnly
  Impatient = TRUE
  MaxSessions = 2
INVARIANTS
  SlotIntegrity
CHECK_DEADLOCK FALSE
