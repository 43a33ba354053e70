CONSTANTS
  N = 4
  Modulus = 8
  Uninit = Uninit
  SpoutPanics = TRUE
  MaxItems = 10
SPECIFICATION Spec
INVARIANTS
  TypeOK
  WindowInOrder
  OrderKept
  Conservation
PROPERTIES
  ImplementsQueue
CHECK_DEADLOCK FALSE
