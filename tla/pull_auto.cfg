SPECIFICATION FairSpec
CONSTANTS
  x = x
  y = y
  z = z
  m = m
  pool = pool
  Commits <- ThreeChanges
  MainCommits <- Mains
  MaxRuns = 2
  MaxNews = 1
  Sweepers = {pool}
  AutoApprove = TRUE
  ReviewFixes = TRUE
  Events = {"push", "thread", "merge", "crash", "lost", "conflict"}
INVARIANT LandsWhatWasJudged
PROPERTY MergeIsRecorded
CHECK_DEADLOCK FALSE
