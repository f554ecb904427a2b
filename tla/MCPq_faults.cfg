SPECIFICATION Spec
CONSTANTS
  c1 = c1
  c2 = c2
  r1 = r1
  Conn = {c1, c2}
  RS = {r1}
  Session = {s1, s2}
  Row = {x, y}
  Thread <- OnlyOne
  NULL = NULL
  Heeds = {"result", "error"}
  MaxRef <- TwoToFirst
  MaxRows = 1
  Faults = TRUE
  MaxWrites = 1
  MaxWork = 2
  Modes = {"SERIALIZABLE"}
  Reopens = FALSE
  Nests = FALSE
SYMMETRY Symmetric
INVARIANTS
  TypeOK
  AckedDurable
  QuietHoldsNothing
  NoOrphan
PROPERTIES
  CursorContract
