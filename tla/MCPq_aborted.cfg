SPECIFICATION Spec
CONSTANTS
  c1 = c1
  c2 = c2
  r1 = r1
  Conn = {c1, c2}
  RS = {r1}
  Session = {s1, s2}
  Row = {x, y}
  Thread <- OnlyOne
  NULL = NULL
  Heeds = {"result"}
  MaxRef <- OneRef
  MaxRows = 1
  Faults = TRUE
  MaxWrites = 2
  MaxWork = 2
  Modes = {}
  Reopens = FALSE
  Nests = FALSE
INVARIANTS
  AckedDurable
