CONSTANTS
  NumWorkers = 3
  N = 2
  Joined = TRUE
  WorkPanics = FALSE
  OutFails = TRUE
  MaxRounds = 3
SPECIFICATION FairSpec
INVARIANTS Handoff Delivery RoundsAreSeparate
PROPERTIES ShutdownCompletes
CHECK_DEADLOCK FALSE
