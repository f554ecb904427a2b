----------------------------- MODULE OdbcFields -----------------------------
(* Getters and literals of the ODBC driver (odbc_db.cpp), for a column that *)
(* getString() reads and has not in its buffer.                             *)
EXTENDS Fields

CONSTANT LongNames   \* column names of 50 characters and more

\* Columns count from 1.  SQLDescribeCol() says "success" only of a name that
\* fits colName, and the search gives up at the first that does not.
FindColumn(names, fld) ==
  LET from[k \in 1 .. Len(names) + 1] ==
        IF k > Len(names) THEN k
        ELSE IF names[k] \in LongNames THEN 0
        ELSE IF names[k] = fld THEN k ELSE from[k + 1]
  IN  from[1]

\* The getters, by name, of the text SQLGetData() leaves in the buffer: none for
\* a column without a value, and for an index that no column has.
Get(row, idx, as) ==
  LET v == IF idx \in DOMAIN row /\ row[idx] # NULL THEN row[idx] ELSE <<>>
  IN  CASE as = "String" -> v
        [] as = "Integer" -> Atoi(v)
        [] as = "Bool" -> BoolOf(v)
        [] as = "UnixTime" -> UnixTimeOf(v)
        [] as \in {"Double", "Float", "Long"} -> NumberOf(v)
        [] as = "Short" -> Short(NumberOf(v))

Escape(str) == <<Quote>> \o Marked(str, {Quote}, LAMBDA ch : ch) \o <<Quote>>

\* Variant: no room for quotes in the text.
RoomForPlain(str) == Len(str) + 4

\* new char[len*2+4].
Room(str) == 2 * Len(str) + 4

UnixtimeToSql(val) == SqlTime(val)
=============================================================================
