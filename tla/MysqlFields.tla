---------------------------- MODULE MysqlFields -----------------------------
(* Getters and literals of the MySQL driver (mysql_db.cpp). *)
EXTENDS Fields

FindColumn(names, fld) == IndexOf(names, fld, 0)

\* The getters, by name, of the text in row_.
Get(row, idx, as) ==
  LET v == row[idx + 1]
  IN  CASE as = "String" -> v
        [] as = "Integer" -> Atoi(v)
        [] as = "Bool" -> BoolOf(v)
        [] as = "UnixTime" -> UnixTimeOf(v)
        [] as \in {"Double", "Float", "Long"} -> NumberOf(v)
        [] as = "Short" -> Short(NumberOf(v))

\* Variant: only quotes are escaped.
EscapeQuotes(str) == <<Quote>> \o Marked(str, {Quote}, LAMBDA ch : Backslash) \o <<Quote>>

\* mysql_escape_string() puts a backslash in front of quotes and backslashes.
Escape(str) == <<Quote>> \o Marked(str, {Quote, Backslash}, LAMBDA ch : Backslash) \o <<Quote>>

\* new char[len*2+4].
Room(str) == 2 * Len(str) + 4

UnixtimeToSql(val) == SqlTime(val)
=============================================================================
