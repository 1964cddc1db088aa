SPECIFICATION Spec
CONSTANTS
  Runs = {r1, r2}
  Resumed = {r2}
  Settlers = {s1}
  Sweepers = {w1}
  SelfHosted = TRUE
INVARIANT CheckoutTypeOK LandsOnVerifiedMain
PROPERTY TurnTaken
CHECK_DEADLOCK FALSE
