SPECIFICATION FairSpec
CONSTANTS
  Tickets = {t1}
  NoTicket = NoTicket
  MaxRuns = 2
  MaxRounds = 0
  Approve = TRUE
  StoreBoard = TRUE
  Pool = TRUE
  Events = {"pause", "abort", "approve", "crash", "close", "cancel", "respec"}
INVARIANT LeaseAgreement LandNeedsApproval MergedMeansLanded ParkedCanBeReleased
PROPERTY StopsOnlyHarden LeaseIsFreed
CHECK_DEADLOCK FALSE
