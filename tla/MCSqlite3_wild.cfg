SPECIFICATION Spec
CONSTANTS
  c1 = c1
  c2 = c2
  r1 = r1
  r2 = r2
  Conn = {c1, c2}
  RS = {r1}
  Handle = {h1, h2, h3}
  Thread <- OnlyOne
  NULL = NULL
  Heeds = {}
  MaxRef <- OneRef
  MaxRows = 1
  AutoReset = TRUE
  Faults = TRUE
  MaxWrites = 1
  QueryKinds = {"read", "write"}
  Reopens = TRUE
  DropsEarly = TRUE
SYMMETRY HandleSymmetry
INVARIANTS
  StmtHandleOpen
  HandleUnshared
  AckedDurable
