------------------------------- MODULE Values -------------------------------
(***************************************************************************)
(* One way of a row through the library: a client builds a statement from  *)
(* values (with the stream manipulators qstr and unixtime of db.h), the    *)
(* server reads it and stores a row, and the client finds the columns of   *)
(* that row by name and reads them with the getters of a driver.           *)
(***************************************************************************)
EXTENDS SqlReader, FiniteSetsExt

CONSTANTS
  Drivers,       \* among "sqlite3", "pq", "mysql" and "odbc"
  Strings,       \* texts, instants and numbers that clients write
  Times,
  Numbers,
  Names,         \* column names, and the headings that queries have of them
  Headings,
  Residue,       \* see PqFields
  LongNames,     \* see OdbcFields
  OdbcBackslash  \* the ODBC data source gives backslashes a meaning

Width == 2   \* columns of the table

ASSUME ValuesAssumption ==
  /\ Drivers \subseteq {"sqlite3", "pq", "mysql", "odbc"}
  /\ Strings \cup Residue \subseteq Seq(Int)
  /\ Times \subseteq Int
  /\ \A t \in Times : t \div 86400 \in DaysTo(1000, 1, 1) .. DaysTo(9999, 12, 31)   \* see Strftime
  /\ Numbers \subseteq Int /\ \A n \in Numbers : Abs(n) < 100000   \* see Decimal
  /\ Headings \subseteq [1 .. Width -> Names]
  /\ OdbcBackslash \in BOOLEAN

VARIABLES
  driver,   \* the driver of the connection
  put,      \* the values written into the statement: kind, value and literal
  sql,      \* the statement
  row,      \* the row stored; none before, or when the statement is refused
  state,    \* "building", "executed"
  got       \* the last read: heading, name, index found, getter and result

vars == <<driver, put, sql, row, state, got>>

S == INSTANCE Sqlite3Fields
P == INSTANCE PqFields
M == INSTANCE MysqlFields
O == INSTANCE OdbcFields

NumberGetters == {"Integer", "Long", "Short", "Double", "Float"}

Getters ==
  [string |-> {"String", "UnixTime"}, time |-> {"UnixTime"}, bool |-> {"Bool"}, number |-> NumberGetters]

Nothing == [as |-> "nothing"]

----------------------------------------------------------------------------
(* The virtual calls. *)

Escape(str) ==
  CASE driver = "sqlite3" -> {S!Escape(str)} [] driver = "pq"   -> P!Escape(str)
    [] driver = "mysql"   -> {M!Escape(str)} [] driver = "odbc" -> {O!Escape(str)}

Room(str) ==
  CASE driver = "sqlite3" -> S!Room(str) [] driver = "pq"   -> P!Room(str)
    [] driver = "mysql"   -> M!Room(str) [] driver = "odbc" -> O!Room(str)

UnixtimeToSql(t) ==
  CASE driver = "sqlite3" -> S!UnixtimeToSql(t) [] driver = "pq"   -> P!UnixtimeToSql(t)
    [] driver = "mysql"   -> M!UnixtimeToSql(t) [] driver = "odbc" -> O!UnixtimeToSql(t)

FindColumn(names, fld) ==
  CASE driver = "sqlite3" -> S!FindColumn(names, fld) [] driver = "pq"   -> P!FindColumn(names, fld)
    [] driver = "mysql"   -> M!FindColumn(names, fld) [] driver = "odbc" -> O!FindColumn(names, fld)

Get(idx, as) ==
  CASE driver = "sqlite3" -> S!Get(row, idx, as) [] driver = "pq"   -> P!Get(row, idx, as)
    [] driver = "mysql"   -> M!Get(row, idx, as) [] driver = "odbc" -> O!Get(row, idx, as)

\* The server gives backslashes a meaning in every text.
Backslashes == driver = "mysql" \/ (driver = "odbc" /\ OdbcBackslash)

\* Indexes that stand for a column: from zero, as db.h has it, but in ODBC.
Indexes == IF driver = "odbc" THEN 1 .. Width ELSE 0 .. Width - 1

----------------------------------------------------------------------------
Init ==
  /\ driver \in Drivers
  /\ put = <<>>
  /\ sql = <<>>
  /\ row = <<>>
  /\ state = "building"
  /\ got = Nothing

\* The next value of the list, and the literal it is written as.
Put(kind, value, literal) ==
  /\ state = "building"
  /\ Len(put) < Width
  /\ put' = Append(put, [kind |-> kind, value |-> value, literal |-> literal])
  /\ sql' = IF put = <<>> THEN literal ELSE sql \o <<Comma>> \o literal
  /\ UNCHANGED <<driver, row, state, got>>

\* q << qstr(connection, str)
PutString == \E str \in Strings : \E literal \in Escape(str) : Put("string", str, literal)

\* q << unixtime(connection, t)
PutTime == \E t \in Times : Put("time", t, UnixtimeToSql(t))

\* q << n
PutNumber == \E n \in Numbers : Put("number", n, Decimal(n))

PutBool == \E b \in BOOLEAN : Put("bool", b, Decimal(IF b THEN 1 ELSE 0))

PutNull == \E kind \in DOMAIN Getters : Put(kind, NULL, WordNull)

\* execute(): each column gives its value back in the way of its type.
Execute ==
  /\ state = "building"
  /\ Len(put) = Width
  /\ state' = "executed"
  /\ LET values == ValuesOf(sql, Backslashes)
     IN  \E layout \in Layouts :
           row' = IF Len(values) # Width THEN <<>>
                  ELSE [i \in 1 .. Width |-> Stored(put[i].kind, values[i], layout, driver = "pq")]
  /\ UNCHANGED <<driver, put, sql, got>>

\* The columns of that name.
Named(names, name) == {i \in DOMAIN names : names[i] = name}

\* executeQuery() with a heading, a search for a name, and a getter that suits
\* the first column of that name.
Read ==
  /\ state = "executed"
  /\ row # <<>>
  /\ \E names \in Headings, name \in Names :
       LET idx == FindColumn(names, name)
           there == Named(names, name)
       IN  \E as \in IF there = {} THEN {"nothing"} ELSE Getters[put[Min(there)].kind] :
             got' = [as |-> as, names |-> names, name |-> name, idx |-> idx,
                     is |-> IF as # "nothing" /\ idx \in Indexes THEN Get(idx, as) ELSE NULL]
  /\ UNCHANGED <<driver, put, sql, row, state>>

Next ==
  \/ PutString
  \/ PutTime
  \/ PutNumber
  \/ PutBool
  \/ PutNull
  \/ Execute
  \/ Read

Spec == Init /\ [][Next]_vars

----------------------------------------------------------------------------
(* Properties. *)

IsText(p) == p.kind = "string" /\ p.value # NULL

\* The memory that the PostgreSQL driver appended the literal to began with NUL.
Clean(p) == driver = "pq" => p.literal = P!PQescapeLiteral(p.value)

\* No backslash goes to an ODBC data source that gives it a meaning.
Plain(p) == driver = "odbc" /\ OdbcBackslash => Backslash \notin ToSet(p.value)

Sound(p) == IsText(p) => Clean(p) /\ Plain(p)

AllSound == \A i \in DOMAIN put : Sound(put[i])

\* A statement of sound literals is accepted, and each text in it is stored as
\* the client gave it, whatever else stands in the text and beside it.
LiteralsReadBack ==
  state = "executed" /\ AllSound =>
    /\ Len(row) = Width
    /\ \A i \in 1 .. Width : (put[i].kind = "string" \/ put[i].value = NULL) => row[i] = put[i].value

\* A literal in clean memory and its NUL fit the buffer that escape() takes for
\* it, also when every character of the text needs another in front.
LiteralFits ==
  \A i \in DOMAIN put :
    IsText(put[i]) /\ Clean(put[i]) => Len(put[i].literal) < Room(put[i].value)

\* What a getter must return for a value: the value; zero for one that is missing,
\* and for a text that is no instant when it is read as one.
Promised(value, kind, as) ==
  IF value = NULL THEN (IF as = "Bool" THEN FALSE ELSE 0)
  ELSE IF kind = "string" /\ as = "UnixTime" THEN 0
  ELSE value

WasRead == got # Nothing /\ got.as # "nothing" /\ got.idx \in Indexes

\* A value that went through a sound literal, the server, the search for its
\* column and a getter is the value that was written, in all four drivers alike;
\* instants only where standard time is UTC, in which they are written but not
\* read.  A number too large for a short is not asked for as one, nor a text as
\* long as an instant for an instant.  getBool() and getUnixTime() return zero for
\* a column without a value.
ReadsBack ==
  WasRead /\ AllSound =>
    LET p == put[Min(Named(got.names, got.name))]
        fits == /\ got.as = "Short" => Short(p.value) = p.value
                /\ p.kind = "string" /\ got.as = "UnixTime" => Len(p.value) < S!TimeLength
                /\ p.kind = "time" => Zone = 0
    IN  (IF p.value = NULL THEN got.as \in {"Bool", "UnixTime"} ELSE fits)
          => got.is = Promised(p.value, p.kind, got.as)
=============================================================================
