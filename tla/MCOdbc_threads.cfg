SPECIFICATION Spec
CONSTANTS
  c1 = c1
  c2 = c2
  r1 = r1
  r2 = r2
  Conn = {c1, c2}
  RS = {r1, r2}
  Access = {a1, a2}
  Thread <- OneEach
  NULL = NULL
  Heeds = {}
  MaxRef <- TwoRefs
  MaxRows = 2
  Faults = FALSE
  MaxWrites = 2
  MaxWork = 2
  Reopens = FALSE
  Overlaps = FALSE
  Columns = {1, 2}
INVARIANTS
  ColumnIsAsked
