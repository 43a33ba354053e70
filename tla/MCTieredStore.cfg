CONSTANTS
  a = a
  b = b
  Ids = {a, b}
  Versions = {1, 2}
  RingCapacity = 1
  PoolCapacity = 1
  MaxWorkers = 2
  LogCapacity = 1
  MaxAdds = 2
  MaxWrites = 3
  MaxStops = 1
SPECIFICATION Spec
SYMMETRY Symmetry
INVARIANTS Buffers FlushMakesVisible JournalIsTrue
PROPERTIES LoadReturnsWhatWasEvicted ImplementsLog
CHECK_DEADLOCK FALSE
