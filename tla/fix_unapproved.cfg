SPECIFICATION Spec
CONSTANTS
  x = x
  y = y
  z = z
  m = m
  pool = pool
  Commits <- ThreeChanges
  MainCommits <- Mains
  MaxRuns = 2
  MaxNews = 1
  Sweepers = {pool}
  AutoApprove = FALSE
  ReviewFixes = TRUE
  Events = {"thread"}
INVARIANT HumanSaidMerge
CHECK_DEADLOCK FALSE
