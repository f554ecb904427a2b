SPECIFICATION Spec
CONSTANTS
  c1 = c1
  c2 = c2
  r1 = r1
  r2 = r2
  Conn = {c1}
  RS = {r1, r2}
  Access = {a1, a2}
  Thread <- BothInOne
  NULL = NULL
  Heeds = {"result"}
  MaxRef <- TwoRefs
  MaxRows = 2
  Faults = TRUE
  MaxWrites = 2
  MaxWork = 2
  Reopens = FALSE
  Overlaps = FALSE
  Columns = {1, 2}
SYMMETRY Symmetric
INVARIANTS
  TypeOK
  QuietHoldsNothing
  AckedDurable
  NoOrphan
  CursorOwned
  ColumnIsAsked
PROPERTIES
  CursorContract
