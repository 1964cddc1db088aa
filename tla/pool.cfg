SPECIFICATION Spec
CONSTANTS
  Workers = 2
  Pids = {p1, p2, p3}
  MaxBuild = 2
  Breaking = {2}
  Additive = {1}
  StopOnFailure = TRUE
  LocalMerges = FALSE
SYMMETRY Interchangeable
INVARIANT TypeOK ChildrenKnown NeverOverstaffed WaitsForItsWorkers StopIsNotLost
CHECK_DEADLOCK FALSE
