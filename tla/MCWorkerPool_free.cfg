CONSTANTS
  NumWorkers = 2
  N = 2
  Joined = FALSE
  WorkPanics = TRUE
  OutFails = FALSE
  MaxRounds = 2
SPECIFICATION FairSpec
INVARIANTS Handoff Delivery
PROPERTIES JoinReturns
CHECK_DEADLOCK FALSE
