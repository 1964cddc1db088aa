SPECIFICATION Spec
CONSTANTS
  Tickets = {t1}
  NoTicket = NoTicket
  MaxRuns = 2
  MaxRounds = 1
  Approve = FALSE
  StoreBoard = FALSE
  Pool = TRUE
  Events = {"sweep", "requeue"}
INVARIANT TypeOK LeaseAgreement CloseOutIsLegal LandsOnce
PROPERTY EndingsAreFinal ImplementsLease
CHECK_DEADLOCK FALSE
