SPECIFICATION Spec
CONSTANTS
  c1 = c1
  c2 = c2
  r1 = r1
  r2 = r2
  Conn = {c1, c2}
  RS = {r1, r2}
  Handle = {h1, h2, h3}
  Thread <- TwoOfOne
  NULL = NULL
  Heeds = {}
  MaxRef <- TwoToFirst
  MaxRows = 2
  AutoReset = TRUE
  Faults = FALSE
  MaxWrites = 2
  QueryKinds = {"read"}
  Reopens = FALSE
  DropsEarly = FALSE
SYMMETRY HandleSymmetry
INVARIANTS
  TypeOK
  ViewIsTrue
  NoOrphan
  QuietHoldsNothing
PROPERTIES
  CursorPasses
