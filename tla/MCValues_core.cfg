SPECIFICATION Spec
CONSTANTS
  NULL = NULL
  UNDEFINED = UNDEFINED
  Zone = 0
  Drivers <- AllDrivers
  Strings <- ShortStrings
  Times <- Instants
  Numbers <- Integers5
  Names = {"a", "b", "long"}
  Headings <- TwoColumns
  Residue <- Memory
  LongNames = {"long"}
  OdbcBackslash = TRUE
INVARIANTS
  LiteralsReadBack
  LiteralFits
  ReadsBack
\* A statement that the server refuses stores no row to read.
CHECK_DEADLOCK FALSE
