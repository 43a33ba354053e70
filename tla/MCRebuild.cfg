CONSTANTS
  a = a
  b = b
  c = c
  n1 = n1
  Ids = {a, b, c}
  Names = {n1}
  HotCapacity = 2
  Resizes = {1}
  WarmCapacity = 1
  Divisor = 2
  Removes = TRUE
  MaxAdds = 1
  MaxFailures = 0
  MaxStops = 0
SPECIFICATION RSpec
SYMMETRY Symmetry
INVARIANTS RebuildWorks BranchesAgree
CHECK_DEADLOCK FALSE
