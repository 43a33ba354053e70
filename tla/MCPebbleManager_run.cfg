CONSTANTS
  a = a
  b = b
  c = c
  Ids = {a, b, c}
  HotCapacity = 2
  Resizes = {1, 3}
  WarmCapacity = 1
  Divisor = 4
  Removes = TRUE
  MaxAdds = 1
  MaxFailures = 0
  MaxStops = 1
SPECIFICATION Spec
SYMMETRY Symmetry
INVARIANTS TiersAgree OrderIsTopological CloseIsDurable
PROPERTIES StepsUntilStop
CHECK_DEADLOCK FALSE
