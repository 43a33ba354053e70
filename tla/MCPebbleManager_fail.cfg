CONSTANTS
  a = a
  b = b
  c = c
  Ids = {a, b, c}
  HotCapacity = 2
  Resizes = {1}
  WarmCapacity = 1
  Divisor = 1
  Removes = FALSE
  MaxAdds = 1
  MaxFailures = 1
  MaxStops = 1
SPECIFICATION Spec
SYMMETRY Symmetry
INVARIANTS TiersAgree StorageAgrees
PROPERTIES OthersKeepContent
CHECK_DEADLOCK FALSE
