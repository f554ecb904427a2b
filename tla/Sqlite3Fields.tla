--------------------------- MODULE Sqlite3Fields ----------------------------
(* Getters and literals of the SQLite driver (sqlite3_db.cpp). *)
EXTENDS Fields

FindColumn(names, fld) == IndexOf(names, fld, 0)

\* The getters, by name, of the text sqlite3_column_text() returns.
Get(row, idx, as) ==
  LET v == row[idx + 1]
  IN  CASE as = "String" -> v
        [] as = "Integer" -> Atoi(v)
        [] as = "Bool" -> BoolOf(v)
        [] as = "UnixTime" -> UnixTimeOf(v)
        [] as \in {"Double", "Float", "Long"} -> Atoi(v)
        [] as = "Short" -> IF v = NULL THEN UNDEFINED ELSE Short(Atoi(v))

\* sqlite3_mprintf() of '%q' doubles the quotes; the copy has the same length.
Escape(str) == <<Quote>> \o Marked(str, {Quote}, LAMBDA ch : ch) \o <<Quote>>

Room(str) == Len(Escape(str)) + 1

UnixtimeToSql(val) == SqlTime(val)
=============================================================================
