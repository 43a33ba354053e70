CONSTANTS
  a = a
  b = b
  c = c
  d = d
  Ids = {a, b, c, d}
  Absent = Absent
  Unchecked = TRUE
  MaxWidth = 2
  MaxAdds = 4
SPECIFICATION Spec
SYMMETRY Symmetry
INVARIANTS GraphAgrees RebuildOrderIsComplete PathsAgree
PROPERTIES RepairIsExact
CHECK_DEADLOCK FALSE
