CONSTANTS
  a = a
  b = b
  c = c
  Ids = {a, b, c}
  HotCapacity = 2
  Resizes = {1}
  WarmCapacity = 1
  Divisor = 4
  Removes = FALSE
  MaxAdds = 1
  MaxFailures = 0
  MaxStops = 2
SPECIFICATION Spec
SYMMETRY Symmetry
PROPERTIES ImplementsStore FlushStoresParentsFirst
CHECK_DEADLOCK FALSE
