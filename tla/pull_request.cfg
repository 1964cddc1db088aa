SPECIFICATION Spec
CONSTANTS
  x = x
  y = y
  z = z
  m = m
  pool = pool
  Commits <- ThreeChanges
  MainCommits <- Mains
  MaxRuns = 2
  MaxNews = 1
  Sweepers = {pool}
  AutoApprove = FALSE
  ReviewFixes = FALSE
  Events = {"push", "thread", "merge", "close", "cancel", "pause", "repoint", "requeue", "crash", "lost", "conflict", "unread"}
INVARIANT TypeOK HumanSaidMerge MergedMeansLanded WorkIsLeftAlone
PROPERTY LeaseIsKept
CHECK_DEADLOCK FALSE
