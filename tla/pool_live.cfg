SPECIFICATION FairSpec
CONSTANTS
  Workers = 2
  Pids = {p1, p2}
  MaxBuild = 2
  Breaking = {2}
  Additive = {}
  StopOnFailure = TRUE
  LocalMerges = TRUE
PROPERTY RestartHappens
CHECK_DEADLOCK FALSE
