------------------------------ MODULE PqFields ------------------------------
(* Getters and literals of the PostgreSQL driver (pq_db.cpp). *)
EXTENDS Fields

CONSTANT Residue   \* texts that the memory of new char[] may begin with

FindColumn(names, fld) == IndexOf(names, fld, 0)

\* The getters, by name, of the text PQgetvalue() returns: an empty one for a
\* column without a value.
Get(row, idx, as) ==
  LET v == IF row[idx + 1] = NULL THEN <<>> ELSE row[idx + 1]
  IN  CASE as = "String" -> v
        [] as = "Integer" -> Atoi(v)
        [] as = "Bool" -> BoolOf(v)
        [] as = "UnixTime" -> UnixTimeOf(v)
        [] as \in {"Double", "Float", "Long"} -> NumberOf(v)
        [] as = "Short" -> Short(NumberOf(v))

\* PQescapeLiteral(): quotes and backslashes doubled, and the form with an E in
\* front when there is a backslash.
PQescapeLiteral(str) ==
  (IF Backslash \in ToSet(str) THEN <<Space, LetterE>> ELSE <<>>)
    \o <<Quote>> \o Marked(str, {Quote, Backslash}, LAMBDA ch : ch) \o <<Quote>>

\* strcat() appends the literal to what the new buffer holds, even past the end
\* of the buffer; the NUL stored after it, at len + 1, cuts a text that is longer.
Escape(str) ==
  LET escaped == PQescapeLiteral(str)
      cut(s) == IF Len(s) > Len(escaped) + 1 THEN SubSeq(s, 1, Len(escaped) + 1) ELSE s
  IN  {cut(rest \o escaped) : rest \in Residue}

\* new char[len+4], for the literal of PQescapeLiteral().
Room(str) == Len(PQescapeLiteral(str)) + 4

UnixtimeToSql(val) == SqlTime(val)
=============================================================================
