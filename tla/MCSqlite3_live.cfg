SPECIFICATION LiveSpec
CONSTANTS
  c1 = c1
  c2 = c2
  r1 = r1
  r2 = r2
  Conn = {c1, c2}
  RS = {r1, r2}
  Handle = {h1, h2}
  Thread <- OneEach
  NULL = NULL
  Heeds = {}
  MaxRef <- OneRef
  MaxRows = 1
  AutoReset = TRUE
  Faults = FALSE
  MaxWrites = 1
  QueryKinds = {"read", "write"}
  Reopens = FALSE
  DropsEarly = FALSE
INVARIANTS
  EffectOnce
  HolderIsFree
PROPERTIES
  PollEnds
