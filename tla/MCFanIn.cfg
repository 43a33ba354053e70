CONSTANTS
  NumWorkers = 2
  MaxMergers = 2
  OutFails = TRUE
  None = None
  MaxRounds = 3
  MaxFlushes = 2
SPECIFICATION Spec
INVARIANTS Delivery Sequenced LoopDelivers
CHECK_DEADLOCK FALSE
