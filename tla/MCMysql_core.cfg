SPECIFICATION Spec
CONSTANTS
  c1 = c1
  c2 = c2
  r1 = r1
  r2 = r2
  Conn = {c1, c2}
  RS = {r1, r2}
  Mysql = {s1, s2}
  Row = {x, y}
  Thread <- BothInOne
  NULL = NULL
  Heeds = {"result"}
  MaxRef <- TwoToFirst
  MaxRows = 1
  Faults = TRUE
  MaxWrites = 1
  MaxWork = 1
  Reopens = FALSE
  Mixes = FALSE
SYMMETRY Symmetric
INVARIANTS
  TypeOK
  AckedDurable
  QuietHoldsNothing
  NoOrphan
  InSyncAgain
PROPERTIES
  CursorContract
