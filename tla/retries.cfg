SPECIFICATION Spec
CONSTANTS
  Tickets = {t1}
  NoTicket = NoTicket
  MaxRuns = 3
  MaxRounds = 0
  Approve = FALSE
  StoreBoard = TRUE
  Pool = FALSE
  Events = {"crash", "requeue"}
PROPERTY StatusIsTheHolders TriageBelowCap
CHECK_DEADLOCK FALSE
