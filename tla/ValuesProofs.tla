---------------------------- MODULE ValuesProofs ----------------------------
(*****************************************************************************)
(* What a client writes into a statement is what it reads back: for every    *)
(* text, of every length, every instant of the years that four digits can    *)
(* say and every number that Decimal writes.                                 *)
(*****************************************************************************)
EXTENDS Values, FieldsProofs

----------------------------------------------------------------------------
(* The functions that the drivers write out alike are the same.           *)

LEMMA DaysSame ==
  \A year, month, day :
    /\ S!DaysTo(year, month, day) = DaysTo(year, month, day)
    /\ P!DaysTo(year, month, day) = DaysTo(year, month, day)
    /\ M!DaysTo(year, month, day) = DaysTo(year, month, day)
    /\ O!DaysTo(year, month, day) = DaysTo(year, month, day)
<1>1. \A year, month, day : S!DaysTo(year, month, day) = DaysTo(year, month, day)
  BY DEF DaysTo, S!DaysTo
<1>2. \A year, month, day : P!DaysTo(year, month, day) = DaysTo(year, month, day)
  BY DEF DaysTo, P!DaysTo
<1>3. \A year, month, day : M!DaysTo(year, month, day) = DaysTo(year, month, day)
  BY DEF DaysTo, M!DaysTo
<1>4. \A year, month, day : O!DaysTo(year, month, day) = DaysTo(year, month, day)
  BY DEF DaysTo, O!DaysTo
<1>5. QED
  BY <1>1, <1>2, <1>3, <1>4

LEMMA YearSame ==
  \A days :
    /\ S!YearOf(days) = YearOf(days)
    /\ P!YearOf(days) = YearOf(days)
    /\ M!YearOf(days) = YearOf(days)
    /\ O!YearOf(days) = YearOf(days)
<1>1. \A days : S!YearOf(days) = YearOf(days)
  BY DEF YearOf, DaysTo, S!YearOf, S!DaysTo
<1>2. \A days : P!YearOf(days) = YearOf(days)
  BY DEF YearOf, DaysTo, P!YearOf, P!DaysTo
<1>3. \A days : M!YearOf(days) = YearOf(days)
  BY DEF YearOf, DaysTo, M!YearOf, M!DaysTo
<1>4. \A days : O!YearOf(days) = YearOf(days)
  BY DEF YearOf, DaysTo, O!YearOf, O!DaysTo
<1>5. QED
  BY <1>1, <1>2, <1>3, <1>4

LEMMA MonthSame ==
  \A days, year :
    /\ S!MonthOf(days, year) = MonthOf(days, year)
    /\ P!MonthOf(days, year) = MonthOf(days, year)
    /\ M!MonthOf(days, year) = MonthOf(days, year)
    /\ O!MonthOf(days, year) = MonthOf(days, year)
<1>1. \A days, year : S!MonthOf(days, year) = MonthOf(days, year)
  BY DEF MonthOf, DaysTo, S!MonthOf, S!DaysTo
<1>2. \A days, year : P!MonthOf(days, year) = MonthOf(days, year)
  BY DEF MonthOf, DaysTo, P!MonthOf, P!DaysTo
<1>3. \A days, year : M!MonthOf(days, year) = MonthOf(days, year)
  BY DEF MonthOf, DaysTo, M!MonthOf, M!DaysTo
<1>4. \A days, year : O!MonthOf(days, year) = MonthOf(days, year)
  BY DEF MonthOf, DaysTo, O!MonthOf, O!DaysTo
<1>5. QED
  BY <1>1, <1>2, <1>3, <1>4

LEMMA GmTimeSame ==
  \A t :
    /\ S!GmTime(t) = GmTime(t)
    /\ P!GmTime(t) = GmTime(t)
    /\ M!GmTime(t) = GmTime(t)
    /\ O!GmTime(t) = GmTime(t)
<1>1. \A t : S!GmTime(t) = GmTime(t)
  BY DaysSame, YearSame, MonthSame DEF GmTime, S!GmTime
<1>2. \A t : P!GmTime(t) = GmTime(t)
  BY DaysSame, YearSame, MonthSame DEF GmTime, P!GmTime
<1>3. \A t : M!GmTime(t) = GmTime(t)
  BY DaysSame, YearSame, MonthSame DEF GmTime, M!GmTime
<1>4. \A t : O!GmTime(t) = GmTime(t)
  BY DaysSame, YearSame, MonthSame DEF GmTime, O!GmTime
<1>5. QED
  BY <1>1, <1>2, <1>3, <1>4

LEMMA StrftimeSame ==
  \A tm :
    /\ S!Strftime(tm) = Strftime(tm)
    /\ P!Strftime(tm) = Strftime(tm)
    /\ M!Strftime(tm) = Strftime(tm)
    /\ O!Strftime(tm) = Strftime(tm)
<1>1. \A tm : S!Strftime(tm) = Strftime(tm)
  BY DEF Strftime, Digits, Digit0, Hyphen, Space, Colon, S!Strftime, S!Digits, S!Digit0, S!Hyphen, S!Space, S!Colon
<1>2. \A tm : P!Strftime(tm) = Strftime(tm)
  BY DEF Strftime, Digits, Digit0, Hyphen, Space, Colon, P!Strftime, P!Digits, P!Digit0, P!Hyphen, P!Space, P!Colon
<1>3. \A tm : M!Strftime(tm) = Strftime(tm)
  BY DEF Strftime, Digits, Digit0, Hyphen, Space, Colon, M!Strftime, M!Digits, M!Digit0, M!Hyphen, M!Space, M!Colon
<1>4. \A tm : O!Strftime(tm) = Strftime(tm)
  BY DEF Strftime, Digits, Digit0, Hyphen, Space, Colon, O!Strftime, O!Digits, O!Digit0, O!Hyphen, O!Space, O!Colon
<1>5. QED
  BY <1>1, <1>2, <1>3, <1>4

LEMMA MktimeSame ==
  \A tm :
    /\ S!Mktime(tm) = Mktime(tm)
    /\ P!Mktime(tm) = Mktime(tm)
    /\ M!Mktime(tm) = Mktime(tm)
    /\ O!Mktime(tm) = Mktime(tm)
<1>1. \A tm : S!Mktime(tm) = Mktime(tm)
  BY DaysSame DEF Mktime, SecondsTo, S!Mktime, S!SecondsTo
<1>2. \A tm : P!Mktime(tm) = Mktime(tm)
  BY DaysSame DEF Mktime, SecondsTo, P!Mktime, P!SecondsTo
<1>3. \A tm : M!Mktime(tm) = Mktime(tm)
  BY DaysSame DEF Mktime, SecondsTo, M!Mktime, M!SecondsTo
<1>4. \A tm : O!Mktime(tm) = Mktime(tm)
  BY DaysSame DEF Mktime, SecondsTo, O!Mktime, O!SecondsTo
<1>5. QED
  BY <1>1, <1>2, <1>3, <1>4

LEMMA TimeOfSame ==
  \A v :
    /\ S!TimeOf(v) = TimeOf(v)
    /\ P!TimeOf(v) = TimeOf(v)
    /\ M!TimeOf(v) = TimeOf(v)
    /\ O!TimeOf(v) = TimeOf(v)
<1>1. \A v : S!TimeOf(v) = TimeOf(v)
  BY MktimeSame DEF TimeOf, Hyphen, Digit0, ToSet, S!TimeOf, S!Hyphen, S!Digit0, S!ToSet
<1>2. \A v : P!TimeOf(v) = TimeOf(v)
  BY MktimeSame DEF TimeOf, Hyphen, Digit0, ToSet, P!TimeOf, P!Hyphen, P!Digit0, P!ToSet
<1>3. \A v : M!TimeOf(v) = TimeOf(v)
  BY MktimeSame DEF TimeOf, Hyphen, Digit0, ToSet, M!TimeOf, M!Hyphen, M!Digit0, M!ToSet
<1>4. \A v : O!TimeOf(v) = TimeOf(v)
  BY MktimeSame DEF TimeOf, Hyphen, Digit0, ToSet, O!TimeOf, O!Hyphen, O!Digit0, O!ToSet
<1>5. QED
  BY <1>1, <1>2, <1>3, <1>4

LEMMA UnixTimeSame ==
  \A v :
    /\ S!UnixTimeOf(v) = UnixTimeOf(v)
    /\ P!UnixTimeOf(v) = UnixTimeOf(v)
    /\ M!UnixTimeOf(v) = UnixTimeOf(v)
    /\ O!UnixTimeOf(v) = UnixTimeOf(v)
<1>1. \A v : S!UnixTimeOf(v) = UnixTimeOf(v)
  BY TimeOfSame DEF UnixTimeOf, TimeLength, S!UnixTimeOf, S!TimeLength
<1>2. \A v : P!UnixTimeOf(v) = UnixTimeOf(v)
  BY TimeOfSame DEF UnixTimeOf, TimeLength, P!UnixTimeOf, P!TimeLength
<1>3. \A v : M!UnixTimeOf(v) = UnixTimeOf(v)
  BY TimeOfSame DEF UnixTimeOf, TimeLength, M!UnixTimeOf, M!TimeLength
<1>4. \A v : O!UnixTimeOf(v) = UnixTimeOf(v)
  BY TimeOfSame DEF UnixTimeOf, TimeLength, O!UnixTimeOf, O!TimeLength
<1>5. QED
  BY <1>1, <1>2, <1>3, <1>4

LEMMA PastSame ==
  \A s, first :
    /\ S!PastDigits(s, first) = PastDigits(s, first)
    /\ P!PastDigits(s, first) = PastDigits(s, first)
    /\ M!PastDigits(s, first) = PastDigits(s, first)
    /\ O!PastDigits(s, first) = PastDigits(s, first)
<1>1. \A s, first : S!PastDigits(s, first) = PastDigits(s, first)
  BY DEF PastDigits, IsDigit, Digit0, S!PastDigits, S!IsDigit, S!Digit0
<1>2. \A s, first : P!PastDigits(s, first) = PastDigits(s, first)
  BY DEF PastDigits, IsDigit, Digit0, P!PastDigits, P!IsDigit, P!Digit0
<1>3. \A s, first : M!PastDigits(s, first) = PastDigits(s, first)
  BY DEF PastDigits, IsDigit, Digit0, M!PastDigits, M!IsDigit, M!Digit0
<1>4. \A s, first : O!PastDigits(s, first) = PastDigits(s, first)
  BY DEF PastDigits, IsDigit, Digit0, O!PastDigits, O!IsDigit, O!Digit0
<1>5. QED
  BY <1>1, <1>2, <1>3, <1>4

LEMMA SaidSame ==
  \A digits :
    /\ S!Said(digits) = Said(digits)
    /\ P!Said(digits) = Said(digits)
    /\ M!Said(digits) = Said(digits)
    /\ O!Said(digits) = Said(digits)
<1>1. \A digits : S!Said(digits) = Said(digits)
  BY DEF Said, Digit0, FoldLeft, MapThenFoldSet, Max, S!Said, S!Digit0, S!FoldLeft, S!MapThenFoldSet, S!Max
<1>2. \A digits : P!Said(digits) = Said(digits)
  BY DEF Said, Digit0, FoldLeft, MapThenFoldSet, Max, P!Said, P!Digit0, P!FoldLeft, P!MapThenFoldSet, P!Max
<1>3. \A digits : M!Said(digits) = Said(digits)
  BY DEF Said, Digit0, FoldLeft, MapThenFoldSet, Max, M!Said, M!Digit0, M!FoldLeft, M!MapThenFoldSet, M!Max
<1>4. \A digits : O!Said(digits) = Said(digits)
  BY DEF Said, Digit0, FoldLeft, MapThenFoldSet, Max, O!Said, O!Digit0, O!FoldLeft, O!MapThenFoldSet, O!Max
<1>5. QED
  BY <1>1, <1>2, <1>3, <1>4

LEMMA AtoiSame ==
  \A s :
    /\ S!Atoi(s) = Atoi(s)
    /\ P!Atoi(s) = Atoi(s)
    /\ M!Atoi(s) = Atoi(s)
    /\ O!Atoi(s) = Atoi(s)
<1>1. \A s : S!Atoi(s) = Atoi(s)
  BY PastSame, SaidSame DEF Atoi, Hyphen, S!Atoi, S!Hyphen
<1>2. \A s : P!Atoi(s) = Atoi(s)
  BY PastSame, SaidSame DEF Atoi, Hyphen, P!Atoi, P!Hyphen
<1>3. \A s : M!Atoi(s) = Atoi(s)
  BY PastSame, SaidSame DEF Atoi, Hyphen, M!Atoi, M!Hyphen
<1>4. \A s : O!Atoi(s) = Atoi(s)
  BY PastSame, SaidSame DEF Atoi, Hyphen, O!Atoi, O!Hyphen
<1>5. QED
  BY <1>1, <1>2, <1>3, <1>4

LEMMA IndexSame ==
  \A names, fld, first :
    /\ S!IndexOf(names, fld, first) = IndexOf(names, fld, first)
    /\ P!IndexOf(names, fld, first) = IndexOf(names, fld, first)
    /\ M!IndexOf(names, fld, first) = IndexOf(names, fld, first)
    /\ O!IndexOf(names, fld, first) = IndexOf(names, fld, first)
<1>1. \A names, fld, first : S!IndexOf(names, fld, first) = IndexOf(names, fld, first)
  BY DEF IndexOf, S!IndexOf
<1>2. \A names, fld, first : P!IndexOf(names, fld, first) = IndexOf(names, fld, first)
  BY DEF IndexOf, P!IndexOf
<1>3. \A names, fld, first : M!IndexOf(names, fld, first) = IndexOf(names, fld, first)
  BY DEF IndexOf, M!IndexOf
<1>4. \A names, fld, first : O!IndexOf(names, fld, first) = IndexOf(names, fld, first)
  BY DEF IndexOf, O!IndexOf
<1>5. QED
  BY <1>1, <1>2, <1>3, <1>4

LEMMA SqlTimes ==
  ASSUME NEW t, driver \in {"sqlite3", "pq", "mysql", "odbc"}
  PROVE  UnixtimeToSql(t) = SqlTime(t)
<1>1. S!UnixtimeToSql(t) = SqlTime(t)
  BY GmTimeSame, StrftimeSame DEF S!UnixtimeToSql, S!SqlTime, S!Quote, SqlTime, Quote
<1>2. P!UnixtimeToSql(t) = SqlTime(t)
  BY GmTimeSame, StrftimeSame DEF P!UnixtimeToSql, P!SqlTime, P!Quote, SqlTime, Quote
<1>3. M!UnixtimeToSql(t) = SqlTime(t)
  BY GmTimeSame, StrftimeSame DEF M!UnixtimeToSql, M!SqlTime, M!Quote, SqlTime, Quote
<1>4. O!UnixtimeToSql(t) = SqlTime(t)
  BY GmTimeSame, StrftimeSame DEF O!UnixtimeToSql, O!SqlTime, O!Quote, SqlTime, Quote
<1>5. QED
  BY <1>1, <1>2, <1>3, <1>4 DEF UnixtimeToSql

\* escape() of each driver, by the two ways to escape a text.
LEMMA Escapes ==
  ASSUME NEW str
  PROVE  /\ S!Escape(str) = <<Quote>> \o Doubled(str, {Quote}) \o <<Quote>>
         /\ O!Escape(str) = <<Quote>> \o Doubled(str, {Quote}) \o <<Quote>>
         /\ M!Escape(str) = <<Quote>> \o Backslashed(str, {Quote, Backslash}) \o <<Quote>>
         /\ P!PQescapeLiteral(str) =
              (IF Backslash \in ToSet(str) THEN <<Space, LetterE>> ELSE <<>>)
                \o <<Quote>> \o Doubled(str, {Quote, Backslash}) \o <<Quote>>
<1>1. S!Escape(str) = <<Quote>> \o Doubled(str, {Quote}) \o <<Quote>>
  BY DEF S!Escape, S!Marked, S!FoldLeft, S!MapThenFoldSet, S!Max, S!Quote, Quote,
         Doubled, DoubleTurn, Doubling!Folded, Doubling!FoldLeft, Doubling!MapThenFoldSet, Doubling!Max
<1>2. O!Escape(str) = <<Quote>> \o Doubled(str, {Quote}) \o <<Quote>>
  BY DEF O!Escape, O!Marked, O!FoldLeft, O!MapThenFoldSet, O!Max, O!Quote, Quote,
         Doubled, DoubleTurn, Doubling!Folded, Doubling!FoldLeft, Doubling!MapThenFoldSet, Doubling!Max
<1>3. M!Escape(str) = <<Quote>> \o Backslashed(str, {Quote, Backslash}) \o <<Quote>>
  BY DEF M!Escape, M!Marked, M!FoldLeft, M!MapThenFoldSet, M!Max, M!Quote, Quote, M!Backslash, Backslash,
         Backslashed, BackslashTurn, Backslashing!Folded, Backslashing!FoldLeft, Backslashing!MapThenFoldSet, Backslashing!Max
<1>4. P!PQescapeLiteral(str) = (IF Backslash \in ToSet(str) THEN <<Space, LetterE>> ELSE <<>>)
                               \o <<Quote>> \o Doubled(str, {Quote, Backslash}) \o <<Quote>>
  BY DEF P!PQescapeLiteral, P!Marked, P!FoldLeft, P!MapThenFoldSet, P!Max, P!Quote, Quote, P!Backslash, Backslash,
         P!ToSet, ToSet, P!Space, Space, P!LetterE, LetterE,
         Doubled, DoubleTurn, Doubling!Folded, Doubling!FoldLeft, Doubling!MapThenFoldSet, Doubling!Max
<1>5. QED
  BY <1>1, <1>2, <1>3, <1>4

----------------------------------------------------------------------------
(* The search for a column.                                               *)

Kinds == {"string", "time", "bool", "number"}

\* What clients put into a statement.
ValuesOfKind(kind) ==
  IF kind = "string" THEN Strings ELSE IF kind = "time" THEN Times
  ELSE IF kind = "bool" THEN BOOLEAN ELSE Numbers

Item(kind, value, literal) == [kind |-> kind, value |-> value, literal |-> literal]

\* What they are written as.
Literals ==
  (UNION {P!Escape(str) \cup {S!Escape(str), M!Escape(str), O!Escape(str)} : str \in Strings})
    \cup {SqlTime(t) : t \in Times} \cup {Decimal(n) : n \in Numbers \cup {0, 1}} \cup {WordNull}

Items == {p \in [kind : Kinds, value : Strings \cup Times \cup BOOLEAN \cup Numbers \cup {NULL}, literal : Literals] :
            p.value = NULL \/ p.value \in ValuesOfKind(p.kind)}

\* Every step but the values themselves.
Typed ==
  /\ driver \in Drivers
  /\ put \in Seq(Items)
  /\ Len(put) <= Width
  /\ state \in {"building", "executed"}
  /\ state = "executed" => Len(put) = Width

\* Texts are written as escape() has them.
Written ==
  \A i \in 1 .. Len(put) : IsText(put[i]) => put[i].literal \in Escape(put[i].value)

Sought ==
  got # Nothing =>
    LET there == Named(got.names, got.name)
    IN  /\ state = "executed"
        /\ got.names \in Headings
        /\ got.idx = FindColumn(got.names, got.name)
        /\ IF there = {} THEN got.as = "nothing" ELSE got.as \in Getters[put[Min(there)].kind]
        /\ got.as # "nothing" /\ got.idx \in Indexes => got.is = Get(got.idx, got.as)

SearchInv == Typed /\ Written /\ Sought

\* Every kind has its getters.
LEMMA GetterKinds == DOMAIN Getters = Kinds
BY DEF Getters, Kinds

\* There are four drivers.
LEMMA TheDrivers == Typed => driver \in {"sqlite3", "pq", "mysql", "odbc"}
BY ValuesAssumption DEF Typed

\* The steps before a search keep the kinds of the values.
LEMMA SearchInit == Init => SearchInv
<1> SUFFICES ASSUME Init PROVE SearchInv
  OBVIOUS
<1>1. put \in Seq(Items) /\ Len(put) = 0
  BY EmptySeq DEF Init
<1>2. Typed
  BY <1>1 DEF Init, Typed, Width
<1>3. Written
  BY <1>1 DEF Written
<1>4. QED
  BY <1>2, <1>3 DEF Init, SearchInv, Sought

LEMMA PutTyped ==
  ASSUME Typed, Sought, NEW kind \in Kinds, NEW value, value = NULL \/ value \in ValuesOfKind(kind),
         NEW literal \in Literals, Put(kind, value, literal),
         Written, kind = "string" /\ value # NULL => literal \in Escape(value)
  PROVE  Typed' /\ Written' /\ Sought'
<1>1. Item(kind, value, literal) \in Items
  BY DEF Item, Items, ValuesOfKind, Kinds
<1> DEFINE e == Item(kind, value, literal)
           n == Len(put)
<1>2. put' = Append(put, e) /\ state = "building" /\ Len(put) < Width
  BY DEF Put, Item
<1>3. e \in Items
  BY <1>1
<1>0. e.kind = kind /\ e.value = value /\ e.literal = literal
  BY DEF Item
<1> HIDE DEF e
<1>4. put' \in Seq(Items) /\ Len(put') = Len(put) + 1 /\ Len(put) \in Nat
  BY <1>2, <1>3, AppendProperties, LenProperties DEF Typed
<1>5. Typed'
  BY <1>2, <1>4 DEF Typed, Put, Width
<1>6. Sought'
  BY <1>2 DEF Sought, Put
<1>7. (\A i \in 1 .. n : put'[i] = put[i]) /\ put'[n + 1] = e
  BY <1>2, <1>3, AppendProperties DEF Typed
<1>8. driver' = driver
  BY DEF Put
<1>9. Written'
  <2>1. \A str : Escape(str)' = Escape(str)
    BY <1>8 DEF Escape
  <2>2. ASSUME NEW i \in 1 .. n + 1, IsText(put'[i]) PROVE put'[i].literal \in Escape(put'[i].value)
    <3>1. CASE i = n + 1
      BY <1>0, <1>7, <2>2, <3>1 DEF IsText
    <3>2. CASE i # n + 1
      <4>1. i \in 1 .. n
        BY <1>4, <3>2
      <4>2. QED
        BY <1>7, <2>2, <4>1 DEF Written
    <3>3. QED
      BY <3>1, <3>2
  <2>3. Len(put') = n + 1
    BY <1>4
  <2> HIDE DEF n
  <2>4. QED
    BY <2>1, <2>2, <2>3 DEF Written
<1>10. QED
  BY <1>5, <1>6, <1>9

\* What drivers write is a literal.
LEMMA EscapeIsLiteral ==
  ASSUME driver \in {"sqlite3", "pq", "mysql", "odbc"}, NEW str \in Strings, NEW literal \in Escape(str)
  PROVE  literal \in Literals
<1>1. literal \in P!Escape(str) \cup {S!Escape(str), M!Escape(str), O!Escape(str)}
  BY DEF Escape
<1>2. QED
  BY <1>1 DEF Literals

\* The getters depend on the driver and the row.
LEMMA GettersStay ==
  ASSUME UNCHANGED <<driver, row>>
  PROVE  /\ \A idx, as : Get(idx, as)' = Get(idx, as)
         /\ \A names, name : FindColumn(names, name)' = FindColumn(names, name)
         /\ Indexes' = Indexes
         /\ Backslashes' = Backslashes
BY DEF Get, FindColumn, Indexes, Backslashes

\* The search and the getter are those of the driver, in every step.
LEMMA SearchStep == SearchInv /\ [Next]_vars => SearchInv'
<1> SUFFICES ASSUME SearchInv, [Next]_vars PROVE SearchInv'
  OBVIOUS
<1> USE DEF SearchInv
<1>0. driver \in {"sqlite3", "pq", "mysql", "odbc"}
  BY TheDrivers
<1>1. CASE PutString
  <2>1. PICK str \in Strings : \E literal \in Escape(str) : Put("string", str, literal)
    BY <1>1 DEF PutString
  <2>2. PICK literal \in Escape(str) : Put("string", str, literal)
    BY <2>1
  <2>3. literal \in Literals
    BY <1>0, EscapeIsLiteral
  <2>4. "string" \in Kinds /\ str \in ValuesOfKind("string")
    BY DEF Kinds, ValuesOfKind
  <2>5. QED
    BY <2>2, <2>3, <2>4, PutTyped
<1>2. CASE PutTime
  <2>1. PICK t \in Times : Put("time", t, UnixtimeToSql(t))
    BY <1>2 DEF PutTime
  <2>2. UnixtimeToSql(t) \in Literals
    BY <1>0, SqlTimes DEF Literals
  <2>3. QED
    BY <2>1, <2>2, PutTyped DEF Kinds, ValuesOfKind
<1>3. CASE PutNumber
  <2>1. PICK n \in Numbers : Put("number", n, Decimal(n))
    BY <1>3 DEF PutNumber
  <2>2. Decimal(n) \in Literals
    BY DEF Literals
  <2>3. QED
    BY <2>1, <2>2, PutTyped DEF Kinds, ValuesOfKind
<1>4. CASE PutBool
  <2>1. PICK bit \in BOOLEAN : Put("bool", bit, Decimal(IF bit THEN 1 ELSE 0))
    BY <1>4 DEF PutBool
  <2>2. Decimal(IF bit THEN 1 ELSE 0) \in Literals
    BY DEF Literals
  <2>3. QED
    BY <2>1, <2>2, PutTyped DEF Kinds, ValuesOfKind
<1>5. CASE PutNull
  <2>1. PICK kind \in Kinds : Put(kind, NULL, WordNull)
    BY <1>5, GetterKinds DEF PutNull
  <2>2. WordNull \in Literals
    BY DEF Literals
  <2>3. QED
    BY <2>1, <2>2, PutTyped
<1>6. CASE Execute
  <2>1. Typed' /\ Written'
    BY <1>6 DEF Execute, Typed, Written, Escape
  <2>2. Sought'
    BY <1>6 DEF Execute, Sought
  <2>3. QED
    BY <2>1, <2>2
<1>7. CASE Read
  <2>1. UNCHANGED <<driver, put, sql, row, state>> /\ state = "executed"
    BY <1>7 DEF Read
  <2>2. PICK names \in Headings, name \in Names :
          LET idx == FindColumn(names, name)
              there == Named(names, name)
          IN  \E as \in IF there = {} THEN {"nothing"} ELSE Getters[put[Min(there)].kind] :
                got' = [as |-> as, names |-> names, name |-> name, idx |-> idx,
                        is |-> IF as # "nothing" /\ idx \in Indexes THEN Get(idx, as) ELSE NULL]
    BY <1>7 DEF Read
  <2> DEFINE idx == FindColumn(names, name)
             there == Named(names, name)
             suits == IF there = {} THEN {"nothing"} ELSE Getters[put[Min(there)].kind]
             found(as) == IF as # "nothing" /\ idx \in Indexes THEN Get(idx, as) ELSE NULL
  <2>3. PICK as \in suits :
          got' = [as |-> as, names |-> names, name |-> name, idx |-> idx, is |-> found(as)]
    BY <2>2
  <2>4. Typed' /\ Written'
    BY <2>1 DEF Typed, Written, Escape
  <2>5. /\ got'.as = as /\ got'.names = names /\ got'.name = name /\ got'.idx = idx /\ got'.is = found(as)
    BY <2>3
  <2>6. /\ got'.idx = FindColumn(got'.names, got'.name)
        /\ IF Named(got'.names, got'.name) = {} THEN got'.as = "nothing"
           ELSE got'.as \in Getters[put[Min(Named(got'.names, got'.name))].kind]
        /\ got'.as # "nothing" /\ got'.idx \in Indexes => got'.is = Get(got'.idx, got'.as)
    <3> HIDE DEF idx, there
    <3>1. IF there = {} THEN as = "nothing" ELSE as \in Getters[put[Min(there)].kind]
      BY DEF suits
    <3> HIDE DEF suits
    <3>2. as # "nothing" /\ idx \in Indexes => found(as) = Get(idx, as)
      OBVIOUS
    <3> HIDE DEF found
    <3>3. QED
      BY <2>5, <3>1, <3>2 DEF idx, there
  <2> HIDE DEF idx, there, suits, found
  <2>7. Sought'
    BY <2>1, <2>5, <2>6, GettersStay DEF Sought
  <2>8. QED
    BY <2>4, <2>7
<1>8. CASE UNCHANGED vars
  BY <1>8, GettersStay DEF vars, Typed, Written, Escape, Sought
<1>9. QED
  BY <1>1, <1>2, <1>3, <1>4, <1>5, <1>6, <1>7, <1>8 DEF Next

\* The first of some columns.
LEMMA FirstColumn ==
  ASSUME NEW hits \in SUBSET (1 .. 2), hits # {}
  PROVE  Min(hits) \in hits /\ Min(hits) \in 1 .. 2 /\ \A j \in hits : Min(hits) <= j
<1> DEFINE Least(i) == \A j \in hits : i <= j
<1>1. \E i \in hits : Least(i)
  <2>1. CASE 1 \in hits
    <3>1. Least(1)
      OBVIOUS
    <3>2. QED
      BY <2>1, <3>1
  <2>2. CASE 1 \notin hits
    <3>1. \A j \in hits : j = 2
      BY <2>2
    <3>2. PICK k : k \in hits
      OBVIOUS
    <3>3. k = 2
      BY <3>1, <3>2
    <3>4. Least(k)
      BY <3>1, <3>3
    <3>5. QED
      BY <3>2, <3>4
  <2>3. QED
    BY <2>1, <2>2
<1>2. Min(hits) = CHOOSE i \in hits : Least(i)
  BY DEF Min
<1> HIDE DEF Least
<1>3. Min(hits) \in hits /\ Least(Min(hits))
  BY <1>1, <1>2
<1>4. QED
  BY <1>3 DEF Least

\* The loop of findColumn() over two columns, and that of the ODBC driver.
LEMMA LoopEnds ==
  ASSUME NEW names, Len(names) = 2, NEW fld, NEW first \in Int
  PROVE  IndexOf(names, fld, first) = first - 1 + (IF names[1] = fld THEN 1 ELSE IF names[2] = fld THEN 2 ELSE 3)
<1> DEFINE from[k \in 1 .. Len(names) + 1] ==
             IF k > Len(names) \/ names[k] = fld THEN k ELSE from[k + 1]
           step(f) == [k \in 1 .. 3 |-> IF k > 2 \/ names[k] = fld THEN k ELSE f[k + 1]]
           g == [k \in 1 .. 3 |-> IF k = 3 THEN 3 ELSE IF k = 2 THEN IF names[2] = fld THEN 2 ELSE 3
                                   ELSE IF names[1] = fld THEN 1 ELSE IF names[2] = fld THEN 2 ELSE 3]
           Solves(f) == f = step(f)
<1>1. IndexOf(names, fld, first) = first - 1 + from[1]
  BY DEF IndexOf
<1>2. from = CHOOSE f : Solves(f)
  BY DEF from
<1>3. Solves(g)
  OBVIOUS
<1> HIDE DEF g, from, Solves
<1>4. Solves(from)
  BY <1>2, <1>3
<1>5. /\ from[3] = 3
      /\ from[2] = (IF names[2] = fld THEN 2 ELSE from[3])
      /\ from[1] = (IF names[1] = fld THEN 1 ELSE from[2])
  BY <1>4 DEF Solves
<1>6. QED
  BY <1>1, <1>5

LEMMA OdbcLoopEnds ==
  ASSUME NEW names, Len(names) = 2, NEW fld
  PROVE  O!FindColumn(names, fld) =
           IF names[1] \in LongNames THEN 0 ELSE IF names[1] = fld THEN 1
           ELSE IF names[2] \in LongNames THEN 0 ELSE IF names[2] = fld THEN 2 ELSE 3
<1> DEFINE from[k \in 1 .. Len(names) + 1] ==
             IF k > Len(names) THEN k
             ELSE IF names[k] \in LongNames THEN 0
             ELSE IF names[k] = fld THEN k ELSE from[k + 1]
           step(f) == [k \in 1 .. 3 |-> IF k > 2 THEN k ELSE IF names[k] \in LongNames THEN 0
                                         ELSE IF names[k] = fld THEN k ELSE f[k + 1]]
           two == IF names[2] \in LongNames THEN 0 ELSE IF names[2] = fld THEN 2 ELSE 3
           g == [k \in 1 .. 3 |-> IF k = 3 THEN 3 ELSE IF k = 2 THEN two
                                   ELSE IF names[1] \in LongNames THEN 0 ELSE IF names[1] = fld THEN 1 ELSE two]
           Solves(f) == f = step(f)
<1>1. O!FindColumn(names, fld) = from[1]
  BY DEF O!FindColumn
<1>2. from = CHOOSE f : Solves(f)
  BY DEF from
<1>3. Solves(g)
  OBVIOUS
<1> HIDE DEF g, from, Solves
<1>4. Solves(from)
  BY <1>2, <1>3
<1>5. /\ from[3] = 3
      /\ from[2] = (IF names[2] \in LongNames THEN 0 ELSE IF names[2] = fld THEN 2 ELSE from[3])
      /\ from[1] = (IF names[1] \in LongNames THEN 0 ELSE IF names[1] = fld THEN 1 ELSE from[2])
  BY <1>4 DEF Solves
<1>6. QED
  BY <1>1, <1>5

\* The index that a search returns, counted from first.
LEMMA IndexOfColumn ==
  ASSUME NEW names \in Headings, NEW name, NEW first \in {0, 1}
  PROVE  /\ Named(names, name) \in SUBSET (1 .. 2)
         /\ Named(names, name) = {} => IndexOf(names, name, first) = first + 2
         /\ Named(names, name) # {} => IndexOf(names, name, first) = first + Min(Named(names, name)) - 1
<1>1. DOMAIN names = 1 .. 2 /\ Len(names) = 2
  BY ValuesAssumption DEF Width
<1> DEFINE hits == Named(names, name)
<1>2. hits \in SUBSET (1 .. 2)
  BY <1>1 DEF Named
<1>3. IndexOf(names, name, first)
        = first - 1 + (IF names[1] = name THEN 1 ELSE IF names[2] = name THEN 2 ELSE 3)
  BY <1>1, LoopEnds
<1>4. (1 \in hits <=> names[1] = name) /\ (2 \in hits <=> names[2] = name)
  BY <1>1 DEF Named
<1> HIDE DEF hits
<1>5. hits # {} => Min(hits) \in hits /\ Min(hits) \in 1 .. 2 /\ \A j \in hits : Min(hits) <= j
  BY <1>2, FirstColumn
<1>6. CASE 1 \in hits
  <2>1. Min(hits) = 1
    BY <1>5, <1>6
  <2>2. QED
    BY <1>2, <1>3, <1>4, <1>6, <2>1 DEF hits
<1>7. CASE 1 \notin hits /\ 2 \in hits
  <2>1. Min(hits) = 2
    BY <1>5, <1>7
  <2>2. QED
    BY <1>2, <1>3, <1>4, <1>7, <2>1 DEF hits
<1>8. CASE 1 \notin hits /\ 2 \notin hits
  <2>1. hits = {}
    BY <1>2, <1>8
  <2>2. QED
    BY <1>2, <1>3, <1>4, <1>8, <2>1 DEF hits
<1>9. QED
  BY <1>6, <1>7, <1>8

\* The indexes that a driver has for columns.
LEMMA IndexRange ==
  ASSUME driver \in {"sqlite3", "pq", "mysql", "odbc"}
  PROVE  /\ driver # "odbc" => Indexes = {0, 1} /\ Min(Indexes) = 0
         /\ driver = "odbc" => Indexes = {1, 2} /\ Min(Indexes) = 1
<1>1. Min({0, 1}) = 0 /\ Min({1, 2}) = 1
  BY DEF Min
<1>2. CASE driver # "odbc"
  <2>1. Indexes = {0, 1}
    BY <1>2 DEF Indexes, Width
  <2>2. QED
    BY <1>1, <1>2, <2>1
<1>3. CASE driver = "odbc"
  <2>1. Indexes = {1, 2}
    BY <1>3 DEF Indexes, Width
  <2>2. QED
    BY <1>1, <1>3, <2>1
<1>4. QED
  BY <1>2, <1>3

\* The search of each driver.
LEMMA Columns ==
  ASSUME driver \in {"sqlite3", "pq", "mysql", "odbc"}, NEW names \in Headings, NEW name
  PROVE  /\ driver # "odbc" => FindColumn(names, name) = IndexOf(names, name, 0)
         /\ driver = "odbc" =>
              \/ FindColumn(names, name) = IndexOf(names, name, 1)
              \/ FindColumn(names, name) = 0 /\ \E i \in DOMAIN names : names[i] \in LongNames
<1>1. CASE driver = "sqlite3"
  BY <1>1, IndexSame DEF FindColumn, S!FindColumn
<1>2. CASE driver = "pq"
  BY <1>2, IndexSame DEF FindColumn, P!FindColumn
<1>3. CASE driver = "mysql"
  BY <1>3, IndexSame DEF FindColumn, M!FindColumn
<1>4. CASE driver = "odbc"
  <2>1. FindColumn(names, name) = O!FindColumn(names, name)
    BY <1>4 DEF FindColumn
  <2>2. \/ O!FindColumn(names, name) = IndexOf(names, name, 1)
        \/ O!FindColumn(names, name) = 0 /\ \E i \in DOMAIN names : names[i] \in LongNames
    <3>1. DOMAIN names = 1 .. 2 /\ Len(names) = 2
      BY ValuesAssumption DEF Width
    <3>2. IndexOf(names, name, 1) = IF names[1] = name THEN 1 ELSE IF names[2] = name THEN 2 ELSE 3
      BY <3>1, LoopEnds
    <3>3. O!FindColumn(names, name) =
            IF names[1] \in LongNames THEN 0 ELSE IF names[1] = name THEN 1
            ELSE IF names[2] \in LongNames THEN 0 ELSE IF names[2] = name THEN 2 ELSE 3
      BY <3>1, OdbcLoopEnds
    <3>4. QED
      BY <3>1, <3>2, <3>3
  <2>3. QED
    BY <1>4, <2>1, <2>2
<1>5. QED
  BY <1>1, <1>2, <1>3, <1>4

\* findColumn() finds the first column of a name, and no column for a name that
\* the row does not have; an ODBC name too long for its buffer hides the columns
\* from there on, but never makes another column be found.
FoundIsNamed ==
  got # Nothing =>
    LET there == Named(got.names, got.name)
        origin == Min(Indexes)
    IN  \/ there = {} /\ got.idx \notin Indexes
        \/ there # {} /\ got.idx = origin + Min(there) - 1
        \/ /\ driver = "odbc"
           /\ \E i \in DOMAIN got.names : got.names[i] \in LongNames
           /\ got.idx \notin Indexes

LEMMA SearchFinds == SearchInv => FoundIsNamed
<1> SUFFICES ASSUME SearchInv, got # Nothing PROVE FoundIsNamed
  BY DEF FoundIsNamed
<1> DEFINE names == got.names
           name == got.name
           there == Named(names, name)
           idx == got.idx
<1>1. names \in Headings /\ idx = FindColumn(names, name)
  BY DEF SearchInv, Sought
<1>2. driver \in {"sqlite3", "pq", "mysql", "odbc"}
  BY TheDrivers DEF SearchInv
<1>3. FoundIsNamed <=>
        \/ there = {} /\ idx \notin Indexes
        \/ there # {} /\ idx = Min(Indexes) + Min(there) - 1
        \/ /\ driver = "odbc"
           /\ \E i \in DOMAIN names : names[i] \in LongNames
           /\ idx \notin Indexes
  BY DEF FoundIsNamed
<1> HIDE DEF names, name, idx
<1>4. \A first \in {0, 1} :
        /\ there \in SUBSET (1 .. 2)
        /\ there = {} => IndexOf(names, name, first) = first + 2
        /\ there # {} => IndexOf(names, name, first) = first + Min(there) - 1
  BY <1>1, IndexOfColumn
<1> HIDE DEF there
<1>5. CASE driver # "odbc"
  <2>1. idx = IndexOf(names, name, 0) /\ Indexes = {0, 1} /\ Min(Indexes) = 0
    BY <1>1, <1>2, <1>5, Columns, IndexRange
  <2>2. CASE there = {}
    BY <1>3, <1>4, <2>1, <2>2
  <2>3. CASE there # {}
    BY <1>3, <1>4, <2>1, <2>3
  <2>4. QED
    BY <2>2, <2>3
<1>6. CASE driver = "odbc"
  <2>1. Indexes = {1, 2} /\ Min(Indexes) = 1
    BY <1>2, <1>6, IndexRange
  <2>2. \/ idx = IndexOf(names, name, 1)
        \/ idx = 0 /\ \E i \in DOMAIN names : names[i] \in LongNames
    BY <1>1, <1>2, <1>6, Columns
  <2>3. CASE idx = IndexOf(names, name, 1) /\ there = {}
    BY <1>3, <1>4, <2>1, <2>3
  <2>4. CASE idx = IndexOf(names, name, 1) /\ there # {}
    BY <1>3, <1>4, <2>1, <2>4
  <2>5. CASE idx = 0 /\ \E i \in DOMAIN names : names[i] \in LongNames
    <3>1. idx \notin Indexes
      BY <2>1, <2>5
    <3>2. QED
      BY <1>3, <1>6, <2>5, <3>1
  <2>6. QED
    BY <2>2, <2>3, <2>4, <2>5
<1>7. QED
  BY <1>5, <1>6

----------------------------------------------------------------------------
(* The room for a literal.                                                *)

\* The literals of each driver fit the room for them.
LEMMA SqliteFits ==
  ASSUME NEW str \in Seq(Int)
  PROVE  S!Escape(str) \in Seq(Int) /\ Len(S!Escape(str)) < S!Room(str)
<1>1. Doubled(str, {Quote}) \in Seq(Int)
  BY DoubledType
<1>2. S!Escape(str) \in Seq(Int)
  BY <1>1, Escapes, LiteralLength
<1>3. Len(S!Escape(str)) \in Nat
  BY <1>2, LenProperties
<1>4. QED
  BY <1>2, <1>3 DEF S!Room

LEMMA OdbcFits ==
  ASSUME NEW str \in Seq(Int)
  PROVE  O!Escape(str) \in Seq(Int) /\ Len(O!Escape(str)) < O!Room(str)
<1> DEFINE d == Doubled(str, {Quote})
<1>1. d \in Seq(Int) /\ Len(d) <= 2 * Len(str)
  BY DoubledType
<1>2. O!Escape(str) \in Seq(Int) /\ Len(O!Escape(str)) = Len(d) + 2
  BY <1>1, Escapes, LiteralLength
<1> HIDE DEF d
<1>3. Len(d) \in Nat /\ Len(str) \in Nat
  BY <1>1, LenProperties
<1>4. QED
  BY <1>1, <1>2, <1>3 DEF O!Room

LEMMA MysqlFits ==
  ASSUME NEW str \in Seq(Int)
  PROVE  M!Escape(str) \in Seq(Int) /\ Len(M!Escape(str)) < M!Room(str)
<1> DEFINE d == Backslashed(str, {Quote, Backslash})
<1>1. d \in Seq(Int) /\ Len(d) <= 2 * Len(str)
  BY BackslashedType
<1>2. M!Escape(str) \in Seq(Int) /\ Len(M!Escape(str)) = Len(d) + 2
  BY <1>1, Escapes, LiteralLength
<1> HIDE DEF d
<1>3. Len(d) \in Nat /\ Len(str) \in Nat
  BY <1>1, LenProperties
<1>4. QED
  BY <1>1, <1>2, <1>3 DEF M!Room

\* The length of a PostgreSQL literal.
LEMMA PqEscape ==
  ASSUME NEW str, NEW front, front = IF Backslash \in ToSet(str) THEN <<Space, LetterE>> ELSE <<>>,
         front \in Seq(Int), Doubled(str, {Quote, Backslash}) \in Seq(Int)
  PROVE  P!PQescapeLiteral(str) = front \o (<<Quote>> \o Doubled(str, {Quote, Backslash}) \o <<Quote>>)
<1> DEFINE q == <<Quote>>
           d == Doubled(str, {Quote, Backslash})
<1>1. q \in Seq(Int) /\ d \in Seq(Int)
  BY DEF Quote
<1>2. P!PQescapeLiteral(str) = ((front \o q) \o d) \o q
  BY Escapes
<1> HIDE DEF q, d
<1> DEFINE mid == q \o d
<1>3. mid \in Seq(Int)
  BY <1>1, ConcatProperties
<1>4. (front \o q) \o d = front \o mid
  BY <1>1, Assoc
<1> HIDE DEF mid
<1>0. front \in Seq(Int) /\ mid \in Seq(Int) /\ q \in Seq(Int)
  BY <1>1, <1>3
<1>5. (front \o mid) \o q = front \o (mid \o q)
  BY <1>0, Assoc
<1>6. P!PQescapeLiteral(str) = front \o (mid \o q)
  BY <1>2, <1>4, <1>5
<1>7. QED
  BY <1>6 DEF q, d, mid

LEMMA PqFits ==
  ASSUME NEW str \in Seq(Int)
  PROVE  P!PQescapeLiteral(str) \in Seq(Int) /\ Len(P!PQescapeLiteral(str)) < P!Room(str)
<1> DEFINE escaped == P!PQescapeLiteral(str)
           body == <<Quote>> \o Doubled(str, {Quote, Backslash}) \o <<Quote>>
           front == IF Backslash \in ToSet(str) THEN <<Space, LetterE>> ELSE <<>>
<1>1. front \in Seq(Int)
  BY EmptySeq DEF Space, LetterE
<1>2. Doubled(str, {Quote, Backslash}) \in Seq(Int)
  BY DoubledType
<1>3. body \in Seq(Int)
  BY <1>2, LiteralLength
<1>4. escaped = front \o body
  BY <1>1, <1>2, PqEscape
<1>5. P!Room(str) = Len(escaped) + 4
  BY DEF P!Room
<1> HIDE DEF escaped, front, body
<1>6. escaped \in Seq(Int)
  BY <1>1, <1>3, <1>4, ConcatProperties
<1>7. Len(escaped) \in Nat
  BY <1>6, LenProperties
<1>8. QED
  BY <1>5, <1>6, <1>7 DEF escaped

\* So do all the literals of a statement.
LEMMA SearchFits == SearchInv => LiteralFits
<1> SUFFICES ASSUME SearchInv, NEW i \in DOMAIN put, IsText(put[i]), Clean(put[i])
             PROVE  Len(put[i].literal) < Room(put[i].value)
  BY DEF LiteralFits
<1> DEFINE str == put[i].value
           literal == put[i].literal
<1>1. put[i] \in Items /\ i \in 1 .. Len(put)
  BY ElementOfSeq, LenProperties DEF SearchInv, Typed
<1>2. str \in Strings
  BY <1>1 DEF Items, ValuesOfKind, IsText
<1>5. literal \in Escape(str) /\ (driver = "pq" => literal = P!PQescapeLiteral(str))
  BY <1>1 DEF SearchInv, Written, Clean
<1>11. Len(literal) < Room(str) => Len(put[i].literal) < Room(put[i].value)
  OBVIOUS
<1> HIDE DEF str, literal
<1>3. str \in Seq(Int)
  BY <1>2, ValuesAssumption
<1>4. driver \in {"sqlite3", "pq", "mysql", "odbc"}
  BY TheDrivers DEF SearchInv
<1>6. CASE driver = "sqlite3"
  BY <1>3, <1>5, <1>6, <1>11, SqliteFits DEF Escape, Room
<1>7. CASE driver = "pq"
  BY <1>3, <1>5, <1>7, <1>11, PqFits DEF Room
<1>8. CASE driver = "mysql"
  BY <1>3, <1>5, <1>8, <1>11, MysqlFits DEF Escape, Room
<1>9. CASE driver = "odbc"
  BY <1>3, <1>5, <1>9, <1>11, OdbcFits DEF Escape, Room
<1>10. QED
  BY <1>4, <1>6, <1>7, <1>8, <1>9

\* Every literal in clean memory and its NUL fit the buffer that escape() takes
\* for it, for texts of every length, in all four drivers.
THEOREM LiteralsFit == Spec => []LiteralFits
<1>1. Spec => []SearchInv
  BY SearchInit, SearchStep, PTL DEF Spec
<1>2. QED
  BY <1>1, SearchFits, PTL

----------------------------------------------------------------------------
(* Literals in a statement.                                               *)

\* A literal that the server reads as one value, wherever it stands.
Writes(literal, b, text) ==
  /\ literal \in Seq(Int)
  /\ \A p \in Seq(Int) : \A values : Begins(p, b, values) => Ends(p \o literal, b, Append(values, text))

\* The literals of each driver, read by its server.
LEMMA SqliteWrites ==
  ASSUME NEW b \in Flags, Off(b), NEW str \in Seq(Int)
  PROVE  Writes(S!Escape(str), b, str) /\ Writes(O!Escape(str), b, str)
<1> DEFINE literal == <<Quote>> \o Doubled(str, {Quote}) \o <<Quote>>
<1>1. S!Escape(str) = literal /\ O!Escape(str) = literal
  BY Escapes
<1>2. literal \in Seq(Int)
  BY <1>1, SqliteFits
<1>3. \A p \in Seq(Int) : \A values : Begins(p, b, values) => Ends(p \o literal, b, Append(values, str))
  BY QuotesDoubled
<1> HIDE DEF literal
<1>4. QED
  BY <1>1, <1>2, <1>3 DEF Writes

LEMMA MysqlWrites ==
  ASSUME NEW b \in Flags, On(b), NEW str \in Seq(Int)
  PROVE  Writes(M!Escape(str), b, str)
<1> DEFINE literal == <<Quote>> \o Backslashed(str, {Quote, Backslash}) \o <<Quote>>
<1>1. M!Escape(str) = literal
  BY Escapes
<1>2. literal \in Seq(Int)
  BY <1>1, MysqlFits
<1>3. \A p \in Seq(Int) : \A values : Begins(p, b, values) => Ends(p \o literal, b, Append(values, str))
  BY QuotesBackslashed
<1> HIDE DEF literal
<1>4. QED
  BY <1>1, <1>2, <1>3 DEF Writes

\* A text without backslashes.
LEMMA PlainWrites ==
  ASSUME NEW b \in Flags, NEW str \in Seq(Int \ {Backslash}), str \in Seq(Int)
  PROVE  Writes(O!Escape(str), b, str)
<1> DEFINE literal == <<Quote>> \o Doubled(str, {Quote}) \o <<Quote>>
<1>1. O!Escape(str) = literal
  BY Escapes
<1>2. literal \in Seq(Int)
  BY <1>1, OdbcFits
<1>3. \A p \in Seq(Int) : \A values : Begins(p, b, values) => Ends(p \o literal, b, Append(values, str))
  BY QuotesNoBackslash
<1> HIDE DEF literal
<1>4. QED
  BY <1>1, <1>2, <1>3 DEF Writes

LEMMA WithoutBackslash ==
  ASSUME NEW str \in Seq(Int), Backslash \notin ToSet(str)
  PROVE  str \in Seq(Int \ {Backslash})
<1>1. \A i \in 1 .. Len(str) : str[i] \in Int /\ str[i] # Backslash
  BY ElementOfSeq DEF ToSet
<1> DEFINE C == Int \ {Backslash}
<1>2. \A i \in 1 .. Len(str) : str[i] \in C
  BY <1>1
<1> HIDE DEF C
<1>3. str \in Seq(C)
  BY <1>2
<1>4. QED
  BY <1>3 DEF C

LEMMA PqWrites ==
  ASSUME NEW b \in Flags, Off(b), NEW str \in Seq(Int)
  PROVE  Writes(P!PQescapeLiteral(str), b, str)
<1> DEFINE body == <<Quote>> \o Doubled(str, {Quote, Backslash}) \o <<Quote>>
           literal == P!PQescapeLiteral(str)
           E == <<Space, LetterE>>
           none == <<>>
           front == IF Backslash \in ToSet(str) THEN E ELSE none
<1>1. literal \in Seq(Int)
  BY PqFits
<1>2. E \in Seq(Int) /\ none \in Seq(Int)
  BY EmptySeq DEF Space, LetterE
<1>3. literal = front \o body
  <2>1. Doubled(str, {Quote, Backslash}) \in Seq(Int)
    BY DoubledType
  <2>2. front \in Seq(Int)
    BY <1>2
  <2>3. QED
    BY <2>1, <2>2, PqEscape
<1>4. \A p \in Seq(Int) : \A values : Begins(p, b, values) => Ends(p \o (E \o body), b, Append(values, str))
  BY QuotesAfterE
<1>5. ASSUME str \in Seq(Int \ {Backslash})
      PROVE  \A p \in Seq(Int) : \A values : Begins(p, b, values) => Ends(p \o body, b, Append(values, str))
  BY <1>5, QuotesWithoutE
<1>6. body \in Seq(Int)
  BY DoubledType, LiteralLength
<1>7. none \o body = body
  BY <1>6, ConcatEmptySeq
<1> HIDE DEF body, literal, E, none
<1>8. CASE Backslash \in ToSet(str)
  BY <1>1, <1>3, <1>4, <1>8 DEF Writes, literal
<1>9. CASE Backslash \notin ToSet(str)
  <2>1. str \in Seq(Int \ {Backslash})
    BY <1>9, WithoutBackslash
  <2>2. \A p \in Seq(Int) : \A values : Begins(p, b, values) => Ends(p \o body, b, Append(values, str))
    BY <1>5, <2>1
  <2>3. literal = body
    BY <1>3, <1>7, <1>9
  <2>4. QED
    BY <1>1, <2>2, <2>3 DEF Writes, literal
<1>10. QED
  BY <1>8, <1>9

\* MySQL gives backslashes a meaning everywhere, an ODBC data source may.
LEMMA BackslashesAre ==
  ASSUME driver \in Drivers
  PROVE  /\ Backslashes \in Flags
         /\ driver = "mysql" => On(Backslashes)
         /\ driver \in {"sqlite3", "pq"} => Off(Backslashes)
         /\ driver = "odbc" /\ ~OdbcBackslash => Off(Backslashes)
<1>1. driver \in {"sqlite3", "pq", "mysql", "odbc"}
  BY ValuesAssumption
<1>2. CASE driver = "odbc"
  BY <1>2, ValuesAssumption DEF Backslashes, Flags, On, Off
<1>3. CASE driver = "mysql"
  BY <1>3 DEF Backslashes, Flags, On, Off
<1>4. CASE driver \in {"sqlite3", "pq"}
  BY <1>4 DEF Backslashes, Flags, On, Off
<1>5. QED
  BY <1>1, <1>2, <1>3, <1>4

\* What escape() returns is read by the server of the driver as one value, the
\* text itself, wherever in a statement it stands: for pq_db.cpp if the memory it
\* was appended to was clean, for odbc_db.cpp if the text has no backslash or the
\* data source gives backslashes no meaning.
THEOREM StringWrites ==
  ASSUME driver \in Drivers, NEW str \in Seq(Int), NEW literal \in Escape(str),
         driver = "pq" => literal = P!PQescapeLiteral(str),
         driver = "odbc" /\ OdbcBackslash => Backslash \notin ToSet(str)
  PROVE  Writes(literal, Backslashes, str)
<1>0. driver \in {"sqlite3", "pq", "mysql", "odbc"}
  BY ValuesAssumption
<1> DEFINE b == Backslashes
<1>1. /\ b \in Flags /\ (driver = "mysql" => On(b)) /\ (driver \in {"sqlite3", "pq"} => Off(b))
      /\ driver = "odbc" /\ ~OdbcBackslash => Off(b)
  BY BackslashesAre
<1> HIDE DEF b
<1>2. CASE driver = "sqlite3"
  <2>1. literal = S!Escape(str)
    BY <1>2 DEF Escape
  <2>2. QED
    BY <1>1, <1>2, <2>1, SqliteWrites DEF b
<1>3. CASE driver = "pq"
  BY <1>1, <1>3, PqWrites DEF b
<1>4. CASE driver = "mysql"
  <2>1. literal = M!Escape(str)
    BY <1>4 DEF Escape
  <2>2. QED
    BY <1>1, <1>4, <2>1, MysqlWrites DEF b
<1>5. CASE driver = "odbc"
  <2>1. literal = O!Escape(str)
    BY <1>5 DEF Escape
  <2>2. CASE ~OdbcBackslash
    BY <1>1, <1>5, <2>1, <2>2, SqliteWrites DEF b
  <2>3. CASE OdbcBackslash
    <3>1. str \in Seq(Int \ {Backslash})
      BY <1>5, <2>3, WithoutBackslash
    <3>2. QED
      BY <1>1, <2>1, <3>1, PlainWrites DEF b
  <2>4. QED
    BY <2>2, <2>3
<1>6. QED
  BY <1>0, <1>2, <1>3, <1>4, <1>5

\* So is an instant, a bare word, and the word NULL.
LEMMA TimeWrites ==
  ASSUME NEW b \in Flags, NEW t \in Int, FourDigits(t \div 86400)
  PROVE  Writes(SqlTime(t), b, Strftime(GmTime(t)))
<1> DEFINE text == Strftime(GmTime(t))
<1>1. text \in Seq(Int) /\ SqlTime(t) = Quoted(text)
  BY TimeText
<1> HIDE DEF text
<1>2. SqlTime(t) \in Seq(Int)
  BY <1>1, LiteralLength DEF Quoted
<1>3. \A p \in Seq(Int) : \A values :
        Begins(p, b, values) => Ends(p \o SqlTime(t), b, Append(values, text))
  BY QuotesTime DEF text
<1>4. QED
  BY <1>2, <1>3 DEF Writes, text

LEMMA BareWrites ==
  ASSUME NEW b \in Flags, NEW text, Bare(text)
  PROVE  Writes(text, b, text)
<1>1. text \in Seq(Int \ {Quote, Comma}) /\ text # WordNull /\ text \in Seq(Int)
  BY DEF Bare
<1>2. \A p \in Seq(Int) : \A values :
        Begins(p, b, values) => Ends(p \o text, b, Append(values, IF text = WordNull THEN NULL ELSE text))
  BY <1>1, BareLiteral
<1>3. \A p \in Seq(Int) : \A values : Begins(p, b, values) => Ends(p \o text, b, Append(values, text))
  BY <1>1, <1>2
<1>4. QED
  BY <1>1, <1>3 DEF Writes

LEMMA NullWrites ==
  ASSUME NEW b \in Flags
  PROVE  Writes(WordNull, b, NULL)
<1>1. WordNull \in Seq(Int \ {Quote, Comma}) /\ WordNull \in Seq(Int)
  BY DEF WordNull, Quote, Comma
<1>2. \A p \in Seq(Int) : \A values :
        Begins(p, b, values) => Ends(p \o WordNull, b, Append(values, IF WordNull = WordNull THEN NULL ELSE WordNull))
  BY <1>1, BareLiteral
<1>3. \A p \in Seq(Int) : \A values : Begins(p, b, values) => Ends(p \o WordNull, b, Append(values, NULL))
  BY <1>2
<1>4. QED
  BY <1>1, <1>3 DEF Writes

----------------------------------------------------------------------------
(* The statement and the row.                                             *)

\* The text that the server reads for a value.
TextOf(p) ==
  IF p.value = NULL THEN NULL
  ELSE IF p.kind = "string" THEN p.value
  ELSE IF p.kind = "time" THEN Strftime(GmTime(p.value))
  ELSE IF p.kind = "bool" THEN Decimal(IF p.value THEN 1 ELSE 0)
  ELSE Decimal(p.value)

TextsOf(items) == [i \in 1 .. Len(items) |-> TextOf(items[i])]

\* The statement so far, for the server.
Readable ==
  /\ sql \in Seq(Int)
  /\ put # <<>> => Ends(sql, Backslashes, TextsOf(put))

Statement ==
  /\ put = <<>> => sql = <<>>
  /\ AllSound => Readable

RowOf(items, layout, drv) ==
  [i \in 1 .. Width |-> Stored(items[i].kind, TextOf(items[i]), layout, drv = "pq")]

RowRight == state = "executed" /\ AllSound => \E layout \in Layouts : row = RowOf(put, layout, driver)

ValuesInv == SearchInv /\ Statement /\ RowRight

\* The texts of a list that grows.
LEMMA TextsAppend ==
  /\ TextsOf(<<>>) = <<>>
  /\ \A items \in Seq(Items), e \in Items : TextsOf(Append(items, e)) = Append(TextsOf(items), TextOf(e))
<1>1. TextsOf(<<>>) = <<>>
  BY DEF TextsOf
<1>2. ASSUME NEW items \in Seq(Items), NEW e \in Items
      PROVE  TextsOf(Append(items, e)) = Append(TextsOf(items), TextOf(e))
  <2> DEFINE T == {TextOf(p) : p \in Items}
             n == Len(items)
             a == TextsOf(Append(items, e))
             s == TextsOf(items)
             t == TextOf(e)
  <2>1. /\ n \in Nat /\ Append(items, e) \in Seq(Items) /\ Len(Append(items, e)) = n + 1
        /\ \A i \in 1 .. n : Append(items, e)[i] = items[i]
        /\ Append(items, e)[n + 1] = e
    BY AppendProperties, LenProperties
  <2>2. \A i \in 1 .. n : items[i] \in Items
    BY ElementOfSeq
  <2>3. s \in Seq(T) /\ Len(s) = n /\ \A i \in 1 .. n : s[i] = TextOf(items[i])
    BY <2>1, <2>2 DEF TextsOf
  <2>4. a \in Seq(T) /\ Len(a) = n + 1 /\ (\A i \in 1 .. n : a[i] = TextOf(items[i])) /\ a[n + 1] = t
    <3> DEFINE z == Append(items, e)
    <3>1. Len(z) = n + 1 /\ (\A i \in 1 .. n : z[i] = items[i]) /\ z[n + 1] = e
      BY <2>1
    <3> HIDE DEF z, n
    <3>2. \A i \in 1 .. n + 1 : z[i] \in Items
      BY <2>1, <2>2, <3>1
    <3>3. TextsOf(z) \in Seq(T) /\ Len(TextsOf(z)) = n + 1
      BY <2>1, <3>1, <3>2 DEF TextsOf
    <3>4. \A i \in 1 .. n + 1 : TextsOf(z)[i] = TextOf(z[i])
      BY <3>1 DEF TextsOf
    <3>5. QED
      BY <2>1, <3>1, <3>3, <3>4 DEF z
  <2>5. t \in T
    OBVIOUS
  <2> HIDE DEF T, n, a, s, t
  <2> DEFINE c == Append(s, t)
  <2>6. c \in Seq(T) /\ Len(c) = n + 1 /\ (\A i \in 1 .. n : c[i] = s[i]) /\ c[n + 1] = t
    BY <2>3, <2>5, AppendProperties
  <2> HIDE DEF c
  <2>7. \A i \in 1 .. n + 1 : a[i] = c[i]
    BY <2>1, <2>3, <2>4, <2>6
  <2>8. a = c
    BY <2>4, <2>6, <2>7, SeqEqual
  <2>9. QED
    BY <2>8 DEF a, c, s, t
<1>3. QED
  BY <1>1, <1>2

\* The values of a statement that may end.
LEMMA EndsAre ==
  ASSUME NEW text, NEW b, NEW values, Ends(text, b, values)
  PROVE  ValuesOf(text, b) = values
<1> DEFINE lex == Lexed(text, b)
<1>1. ValuesOf(text, b) = IF lex.mode \in {"bare", "quote"} THEN Complete(lex).values ELSE <<>>
  BY DEF ValuesOf, FoldLeft, MapThenFoldSet, Max, Lexed, Lexing!Folded, Lexing!FoldLeft,
         Lexing!MapThenFoldSet, Lexing!Max
<1>2. lex.mode \in {"bare", "quote"} /\ Complete(lex).values = values
  BY DEF Ends
<1> HIDE DEF lex
<1>3. QED
  BY <1>1, <1>2

\* A value begins where the statement does.
LEMMA BeginsFirst == \A b : Begins(<<>>, b, <<>>)
<1>0. PICK e \in Flags : Off(e)
  BY DEF Off, Flags
<1>1. \A b : Lexed(<<>>, b) = At("bare", <<>>, e, <<>>)
  BY <1>0, LexedEmpty DEF Off
<1>2. QED
  BY <1>1 DEF Begins

\* If all literals are sound with one more, they were before, and so is that one.
LEMMA SoundBefore ==
  ASSUME Typed, NEW e \in Items, put' = Append(put, e), driver' = driver, AllSound'
  PROVE  AllSound /\ Sound(e)
<1> DEFINE n == Len(put)
<1>1. /\ n \in Nat /\ DOMAIN put = 1 .. n /\ DOMAIN put' = 1 .. n + 1
      /\ (\A i \in 1 .. n : put'[i] = put[i]) /\ put'[n + 1] = e
  BY AppendProperties, LenProperties DEF Typed
<1>2. \A p : Sound(p)' = Sound(p)
  BY DEF Sound, Clean, Plain, IsText
<1> HIDE DEF n
<1>3. \A i \in 1 .. n + 1 : Sound(put'[i])
  BY <1>1, <1>2 DEF AllSound
<1>4. \A i \in 1 .. n : i \in 1 .. n + 1
  BY <1>1
<1>5. n + 1 \in 1 .. n + 1
  BY <1>1
<1>6. QED
  BY <1>1, <1>3, <1>4, <1>5 DEF AllSound

\* One value more in the statement.
LEMMA PutStatement ==
  ASSUME Typed, Statement, NEW kind \in Kinds, NEW value, value = NULL \/ value \in ValuesOfKind(kind),
         NEW literal \in Literals, Put(kind, value, literal),
         LET e == Item(kind, value, literal)
         IN  Sound(e) => Writes(literal, Backslashes, TextOf(e))
  PROVE  Statement'
<1> DEFINE e == Item(kind, value, literal)
           b == Backslashes
           text == TextOf(e)
<1>1. put' = Append(put, e) /\ sql' = (IF put = <<>> THEN literal ELSE sql \o <<Comma>> \o literal)
  BY DEF Put, Item
<1>2. e \in Items
  BY DEF Item, Items, ValuesOfKind, Kinds
<1>9. put \in Seq(Items) /\ put' # <<>>
  BY <1>1, <1>2, AppendProperties DEF Typed
<1> SUFFICES ASSUME AllSound' PROVE Readable'
  BY <1>9 DEF Statement
<1>10. AllSound /\ Sound(e)
  BY <1>1, <1>2, SoundBefore DEF Put
<1>11. Readable /\ Writes(literal, b, text)
  BY <1>10 DEF Statement
<1>3. b' = b
  BY DEF Put, Backslashes
<1>4. put \in Seq(Items) /\ put' \in Seq(Items) /\ put' # <<>> /\ TextsOf(put') = Append(TextsOf(put), text)
  BY <1>1, <1>2, TextsAppend, AppendProperties DEF Typed
<1>5. /\ literal \in Seq(Int)
      /\ \A p \in Seq(Int) : \A values : Begins(p, b, values) => Ends(p \o literal, b, Append(values, text))
  BY <1>11 DEF Writes
<1> HIDE DEF e, b, text
<1> DEFINE none == <<>>
<1>6. CASE put = none
  <2>1. TextsOf(put) = none
    BY <1>6, TextsAppend
  <2>2. none \in Seq(Int) /\ Begins(none, b, none) /\ none \o literal = literal
    BY <1>5, BeginsFirst, EmptySeq, ConcatEmptySeq
  <2>3. sql' = literal
    BY <1>1, <1>6
  <2> HIDE DEF none
  <2>4. Ends(none \o literal, b, Append(none, text))
    BY <1>5, <2>2
  <2>5. Ends(literal, b, TextsOf(put'))
    BY <1>4, <2>1, <2>2, <2>4
  <2>6. QED
    BY <1>3, <1>4, <1>5, <2>3, <2>5 DEF Readable, b
<1>7. CASE put # none
  <2> DEFINE comma == <<Comma>>
             p == sql \o comma
  <2>1. sql \in Seq(Int) /\ Ends(sql, b, TextsOf(put))
    BY <1>7, <1>11 DEF Readable, b
  <2>2. comma \in Seq(Int)
    BY DEF Comma
  <2>3. p \in Seq(Int) /\ Begins(p, b, TextsOf(put))
    BY <2>1, <2>2, EndsComma, ConcatProperties
  <2>4. sql' = p \o literal
    BY <1>1, <1>7
  <2> HIDE DEF p
  <2>5. Ends(p \o literal, b, TextsOf(put'))
    BY <1>4, <1>5, <2>3
  <2>6. p \o literal \in Seq(Int)
    BY <1>5, <2>3, ConcatProperties
  <2>7. QED
    BY <1>3, <1>4, <2>4, <2>5, <2>6 DEF Readable, b
<1>8. QED
  BY <1>6, <1>7

\* No row is stored before the statement is executed.
LEMMA PutRow ==
  ASSUME NEW kind, NEW value, NEW literal, Put(kind, value, literal)
  PROVE  RowRight'
BY DEF Put, RowRight

\* The invariant holds in the beginning, and every step keeps it.
LEMMA ValuesInit == Init => ValuesInv
<1> SUFFICES ASSUME Init PROVE ValuesInv
  OBVIOUS
<1>1. SearchInv
  BY SearchInit
<1>2. Statement
  BY EmptySeq DEF Init, Statement, Readable
<1>3. RowRight
  BY DEF Init, RowRight
<1>4. QED
  BY <1>1, <1>2, <1>3 DEF ValuesInv

LEMMA ValuesStep == ValuesInv /\ [Next]_vars => ValuesInv'
<1> SUFFICES ASSUME ValuesInv, [Next]_vars PROVE ValuesInv'
  OBVIOUS
<1>1. SearchInv'
  BY SearchStep DEF ValuesInv
<1>2. /\ Typed /\ Statement /\ RowRight
      /\ driver \in Drivers /\ driver \in {"sqlite3", "pq", "mysql", "odbc"} /\ Backslashes \in Flags
  BY TheDrivers, BackslashesAre DEF ValuesInv, SearchInv, Typed
<1>3. CASE PutString
  <2>1. PICK str \in Strings : \E literal \in Escape(str) : Put("string", str, literal)
    BY <1>3 DEF PutString
  <2>2. PICK literal \in Escape(str) : Put("string", str, literal)
    BY <2>1
  <2>3. str \in Seq(Int) /\ str # NULL
    <3>1. str \in Seq(Int)
      BY ValuesAssumption
    <3>2. QED
      BY <3>1, NullAssumption
  <2>4. TextOf(Item("string", str, literal)) = str
    BY <2>3 DEF TextOf, Item
  <2>5. Sound(Item("string", str, literal)) => Writes(literal, Backslashes, str)
    <3>1. Sound(Item("string", str, literal)) =>
            /\ driver = "pq" => literal = P!PQescapeLiteral(str)
            /\ driver = "odbc" /\ OdbcBackslash => Backslash \notin ToSet(str)
      BY <2>3 DEF Sound, IsText, Clean, Plain, Item
    <3>2. QED
      BY <1>2, <2>3, <3>1, StringWrites
  <2>6. "string" \in Kinds /\ str \in ValuesOfKind("string") /\ literal \in Literals
    BY <1>2, EscapeIsLiteral DEF Kinds, ValuesOfKind
  <2>7. QED
    BY <1>1, <1>2, <2>2, <2>4, <2>5, <2>6, PutStatement, PutRow DEF ValuesInv
<1>4. CASE PutTime
  <2>1. PICK t \in Times : Put("time", t, UnixtimeToSql(t))
    BY <1>4 DEF PutTime
  <2>2. t \in Int /\ FourDigits(t \div 86400) /\ t # NULL
    BY ValuesAssumption, NullAssumption DEF FourDigits
  <2>3. \A literal : TextOf(Item("time", t, literal)) = Strftime(GmTime(t))
    BY <2>2 DEF TextOf, Item
  <2>4. UnixtimeToSql(t) = SqlTime(t)
    BY <1>2, SqlTimes
  <2>5. Writes(SqlTime(t), Backslashes, Strftime(GmTime(t)))
    BY <1>2, <2>2, TimeWrites
  <2>6. "time" \in Kinds /\ t \in ValuesOfKind("time") /\ SqlTime(t) \in Literals
    BY DEF Kinds, ValuesOfKind, Literals
  <2>7. QED
    BY <1>1, <1>2, <2>1, <2>3, <2>4, <2>5, <2>6, PutStatement, PutRow DEF ValuesInv
<1>5. CASE PutNumber
  <2>1. PICK n \in Numbers : Put("number", n, Decimal(n))
    BY <1>5 DEF PutNumber
  <2>2. n \in Int /\ Abs(n) < 100000 /\ n # NULL
    BY ValuesAssumption, NullAssumption
  <2>3. \A literal : TextOf(Item("number", n, literal)) = Decimal(n)
    BY <2>2 DEF TextOf, Item
  <2>4. Writes(Decimal(n), Backslashes, Decimal(n))
    BY <1>2, <2>2, DecimalReads, BareWrites
  <2>5. "number" \in Kinds /\ n \in ValuesOfKind("number") /\ Decimal(n) \in Literals
    BY DEF Kinds, ValuesOfKind, Literals
  <2>6. QED
    BY <1>1, <1>2, <2>1, <2>3, <2>4, <2>5, PutStatement, PutRow DEF ValuesInv
<1>6. CASE PutBool
  <2>1. PICK bit \in BOOLEAN : Put("bool", bit, Decimal(IF bit THEN 1 ELSE 0))
    BY <1>6 DEF PutBool
  <2>2. bit # NULL
    BY NullAssumption
  <2>3. \A literal : TextOf(Item("bool", bit, literal)) = Decimal(IF bit THEN 1 ELSE 0)
    BY <2>2 DEF TextOf, Item
  <2>4. Writes(Decimal(IF bit THEN 1 ELSE 0), Backslashes, Decimal(IF bit THEN 1 ELSE 0))
    BY <1>2, BitReads, BareWrites
  <2>5. "bool" \in Kinds /\ bit \in ValuesOfKind("bool") /\ Decimal(IF bit THEN 1 ELSE 0) \in Literals
    BY DEF Kinds, ValuesOfKind, Literals
  <2>6. QED
    BY <1>1, <1>2, <2>1, <2>3, <2>4, <2>5, PutStatement, PutRow DEF ValuesInv
<1>7. CASE PutNull
  <2>1. PICK kind \in Kinds : Put(kind, NULL, WordNull)
    BY <1>7, GetterKinds DEF PutNull
  <2>2. (\A literal : TextOf(Item(kind, NULL, literal)) = NULL) /\ WordNull \in Literals
    BY DEF TextOf, Item, Literals
  <2>3. Writes(WordNull, Backslashes, NULL)
    BY <1>2, NullWrites
  <2>4. QED
    BY <1>1, <1>2, <2>1, <2>2, <2>3, PutStatement, PutRow DEF ValuesInv
<1>8. CASE Execute
  <2>1. /\ Len(put) = Width /\ UNCHANGED <<driver, put, sql, got>>
        /\ \E layout \in Layouts :
             row' = IF Len(ValuesOf(sql, Backslashes)) # Width THEN <<>>
                    ELSE [i \in 1 .. Width |->
                            Stored(put[i].kind, ValuesOf(sql, Backslashes)[i], layout, driver = "pq")]
    BY <1>8 DEF Execute
  <2>2. put # <<>>
    BY <2>1 DEF Width
  <2>10. AllSound' <=> AllSound
    BY <2>1 DEF AllSound, Sound, Clean, Plain, IsText
  <2>8. Statement'
    BY <1>2, <2>1, <2>10 DEF Statement, Readable, Backslashes
  <2>7. RowRight'
    <3> SUFFICES ASSUME AllSound PROVE \E layout \in Layouts : row' = RowOf(put, layout, driver)
      BY <2>1, <2>10 DEF RowRight
    <3>3. ValuesOf(sql, Backslashes) = TextsOf(put)
      BY <1>2, <2>2, EndsAre DEF Statement, Readable
    <3>4. Len(TextsOf(put)) = Width /\ \A i \in 1 .. Width : TextsOf(put)[i] = TextOf(put[i])
      BY <2>1 DEF TextsOf, Width
    <3>5. PICK layout \in Layouts :
            row' = [i \in 1 .. Width |-> Stored(put[i].kind, TextsOf(put)[i], layout, driver = "pq")]
      BY <2>1, <3>3, <3>4
    <3>6. row' = RowOf(put, layout, driver)
      BY <3>4, <3>5 DEF RowOf
    <3>7. QED
      BY <3>6
  <2>9. QED
    BY <1>1, <2>7, <2>8 DEF ValuesInv
<1>9. CASE Read
  <2>1. UNCHANGED <<driver, put, sql, row, state>>
    BY <1>9 DEF Read
  <2>2. QED
    BY <1>1, <1>2, <2>1 DEF ValuesInv, Statement, Readable, RowRight, Backslashes, AllSound, Sound, Clean, Plain
<1>10. CASE UNCHANGED vars
  BY <1>1, <1>2, <1>10
     DEF vars, ValuesInv, Statement, Readable, RowRight, Backslashes, AllSound, Sound, Clean, Plain
<1>11. QED
  BY <1>3, <1>4, <1>5, <1>6, <1>7, <1>8, <1>9, <1>10 DEF Next

----------------------------------------------------------------------------
(* What the getters return.                                               *)

Answers(result, as, v) ==
  /\ as = "String" => result = v
  /\ as = "Bool" => result = BoolOf(v)
  /\ as = "UnixTime" => result = UnixTimeOf(v)
  /\ as \in {"Integer", "Long", "Double", "Float"} => result = Atoi(v)
  /\ as = "Short" => result = Short(Atoi(v))

LEMMA BoolSame ==
  \A v :
    /\ S!BoolOf(v) = BoolOf(v)
    /\ P!BoolOf(v) = BoolOf(v)
    /\ M!BoolOf(v) = BoolOf(v)
    /\ O!BoolOf(v) = BoolOf(v)
BY DEF BoolOf, S!BoolOf, P!BoolOf, M!BoolOf, O!BoolOf, Digit0, LetterT, S!Digit0, S!LetterT,
       P!Digit0, P!LetterT, M!Digit0, M!LetterT, O!Digit0, O!LetterT

LEMMA ShortSame ==
  \A n :
    /\ S!Short(n) = Short(n)
    /\ P!Short(n) = Short(n)
    /\ M!Short(n) = Short(n)
    /\ O!Short(n) = Short(n)
BY DEF Short, S!Short, P!Short, M!Short, O!Short

\* The getters of each driver, for a column with a text.
LEMMA SqliteAnswers ==
  ASSUME NEW r, NEW idx, NEW v, r[idx + 1] = v, v # NULL, NEW as
  PROVE  Answers(S!Get(r, idx, as), as, v)
<1> DEFINE g(a) == S!Get(r, idx, a)
<1>1. g("String") = v
  BY DEF S!Get
<1>2. g("Integer") = Atoi(v)
  BY AtoiSame DEF S!Get
<1>3. g("Bool") = BoolOf(v)
  BY BoolSame DEF S!Get
<1>4. g("UnixTime") = UnixTimeOf(v)
  BY UnixTimeSame DEF S!Get
<1>5. g("Double") = Atoi(v)
  BY AtoiSame DEF S!Get
<1>6. g("Float") = Atoi(v)
  BY AtoiSame DEF S!Get
<1>7. g("Long") = Atoi(v)
  BY AtoiSame DEF S!Get
<1>8. g("Short") = Short(Atoi(v))
  BY AtoiSame, ShortSame DEF S!Get
<1> HIDE DEF g
<1>9. Answers(g(as), as, v)
  BY <1>1, <1>2, <1>3, <1>4, <1>5, <1>6, <1>7, <1>8 DEF Answers
<1>10. QED
  BY <1>9 DEF g

LEMMA PqAnswers ==
  ASSUME NEW r, NEW idx, NEW v, r[idx + 1] = v, v # NULL, NEW as
  PROVE  Answers(P!Get(r, idx, as), as, v)
<1> DEFINE g(a) == P!Get(r, idx, a)
<1>1. g("String") = v
  BY DEF P!Get
<1>2. g("Integer") = Atoi(v)
  BY AtoiSame DEF P!Get
<1>3. g("Bool") = BoolOf(v)
  BY BoolSame DEF P!Get
<1>4. g("UnixTime") = UnixTimeOf(v)
  BY UnixTimeSame DEF P!Get
<1>5. g("Double") = Atoi(v)
  BY AtoiSame DEF P!Get, P!NumberOf
<1>6. g("Float") = Atoi(v)
  BY AtoiSame DEF P!Get, P!NumberOf
<1>7. g("Long") = Atoi(v)
  BY AtoiSame DEF P!Get, P!NumberOf
<1>8. g("Short") = Short(Atoi(v))
  BY AtoiSame, ShortSame DEF P!Get, P!NumberOf
<1> HIDE DEF g
<1>9. Answers(g(as), as, v)
  BY <1>1, <1>2, <1>3, <1>4, <1>5, <1>6, <1>7, <1>8 DEF Answers
<1>10. QED
  BY <1>9 DEF g

LEMMA MysqlAnswers ==
  ASSUME NEW r, NEW idx, NEW v, r[idx + 1] = v, v # NULL, NEW as
  PROVE  Answers(M!Get(r, idx, as), as, v)
<1> DEFINE g(a) == M!Get(r, idx, a)
<1>1. g("String") = v
  BY DEF M!Get
<1>2. g("Integer") = Atoi(v)
  BY AtoiSame DEF M!Get
<1>3. g("Bool") = BoolOf(v)
  BY BoolSame DEF M!Get
<1>4. g("UnixTime") = UnixTimeOf(v)
  BY UnixTimeSame DEF M!Get
<1>5. g("Double") = Atoi(v)
  BY AtoiSame DEF M!Get, M!NumberOf
<1>6. g("Float") = Atoi(v)
  BY AtoiSame DEF M!Get, M!NumberOf
<1>7. g("Long") = Atoi(v)
  BY AtoiSame DEF M!Get, M!NumberOf
<1>8. g("Short") = Short(Atoi(v))
  BY AtoiSame, ShortSame DEF M!Get, M!NumberOf
<1> HIDE DEF g
<1>9. Answers(g(as), as, v)
  BY <1>1, <1>2, <1>3, <1>4, <1>5, <1>6, <1>7, <1>8 DEF Answers
<1>10. QED
  BY <1>9 DEF g

LEMMA OdbcAnswers ==
  ASSUME NEW r, NEW idx, NEW v, idx \in DOMAIN r, r[idx] = v, v # NULL, NEW as
  PROVE  Answers(O!Get(r, idx, as), as, v)
<1> DEFINE g(a) == O!Get(r, idx, a)
<1>1. g("String") = v
  BY DEF O!Get
<1>2. g("Integer") = Atoi(v)
  BY AtoiSame DEF O!Get
<1>3. g("Bool") = BoolOf(v)
  BY BoolSame DEF O!Get
<1>4. g("UnixTime") = UnixTimeOf(v)
  BY UnixTimeSame DEF O!Get
<1>5. g("Double") = Atoi(v)
  BY AtoiSame DEF O!Get, O!NumberOf
<1>6. g("Float") = Atoi(v)
  BY AtoiSame DEF O!Get, O!NumberOf
<1>7. g("Long") = Atoi(v)
  BY AtoiSame DEF O!Get, O!NumberOf
<1>8. g("Short") = Short(Atoi(v))
  BY AtoiSame, ShortSame DEF O!Get, O!NumberOf
<1> HIDE DEF g
<1>9. Answers(g(as), as, v)
  BY <1>1, <1>2, <1>3, <1>4, <1>5, <1>6, <1>7, <1>8 DEF Answers
<1>10. QED
  BY <1>9 DEF g

\* The getter of the driver, for the index of a column.
LEMMA RowAnswers ==
  ASSUME driver \in {"sqlite3", "pq", "mysql", "odbc"}, NEW i \in {1, 2}, DOMAIN row = 1 .. 2, row[i] # NULL,
         NEW idx, idx = Min(Indexes) + i - 1, NEW as
  PROVE  Answers(Get(idx, as), as, row[i])
<1>1. (driver # "odbc" => idx + 1 = i) /\ (driver = "odbc" => idx = i)
  BY IndexRange
<1>2. i \in DOMAIN row
  OBVIOUS
<1>3. CASE driver = "sqlite3"
  BY <1>1, <1>3, SqliteAnswers DEF Get
<1>4. CASE driver = "pq"
  BY <1>1, <1>4, PqAnswers DEF Get
<1>5. CASE driver = "mysql"
  BY <1>1, <1>5, MysqlAnswers DEF Get
<1>6. CASE driver = "odbc"
  BY <1>1, <1>2, <1>6, OdbcAnswers DEF Get
<1>7. QED
  BY <1>3, <1>4, <1>5, <1>6

\* A column without a value is false and zero.
LEMMA NoneIsNothing ==
  \A v : v = NULL \/ v = <<>> => BoolOf(v) = FALSE /\ UnixTimeOf(v) = 0
BY EmptySeq DEF BoolOf, UnixTimeOf, TimeLength

LEMMA RowHasNone ==
  ASSUME driver \in {"sqlite3", "pq", "mysql", "odbc"}, NEW i \in {1, 2}, DOMAIN row = 1 .. 2, row[i] = NULL,
         NEW idx, idx = Min(Indexes) + i - 1
  PROVE  Get(idx, "Bool") = FALSE /\ Get(idx, "UnixTime") = 0
<1>1. (driver # "odbc" => idx + 1 = i) /\ (driver = "odbc" => idx = i)
  BY IndexRange
<1>2. CASE driver = "sqlite3"
  BY <1>1, <1>2, BoolSame, UnixTimeSame, NoneIsNothing DEF Get, S!Get
<1>3. CASE driver = "pq"
  BY <1>1, <1>3, BoolSame, UnixTimeSame, NoneIsNothing DEF Get, P!Get
<1>4. CASE driver = "mysql"
  BY <1>1, <1>4, BoolSame, UnixTimeSame, NoneIsNothing DEF Get, M!Get
<1>5. CASE driver = "odbc"
  BY <1>1, <1>5, BoolSame, UnixTimeSame, NoneIsNothing DEF Get, O!Get
<1>6. QED
  BY <1>2, <1>3, <1>4, <1>5

\* A column stores a text or nothing.
LEMMA StoredNone == \A kind, layout, letters : Stored(kind, NULL, layout, letters) = NULL
BY DEF Stored

LEMMA StoredIs ==
  ASSUME NEW text, NEW layout \in Layouts, NEW letters
  PROVE  text # NULL =>
           /\ Stored("string", text, layout, letters) = text
           /\ Stored("number", text, layout, letters) = text
           /\ Stored("time", text, layout, letters) \in {text, DigitsOf(text)}
           /\ Stored("bool", text, layout, letters)
                \in {text, IF Atoi(text) = 0 THEN <<LetterF>> ELSE <<LetterT>>}
<1>2. ASSUME text # NULL PROVE Stored("string", text, layout, letters) = text
  BY <1>2 DEF Stored
<1>3. ASSUME text # NULL PROVE Stored("number", text, layout, letters) = text
  BY <1>3 DEF Stored
<1>4. ASSUME text # NULL PROVE Stored("time", text, layout, letters) \in {text, DigitsOf(text)}
  <2>1. CASE layout = "digits"
    BY <1>4, <2>1 DEF Stored
  <2>2. CASE layout = "punctuated"
    BY <1>4, <2>2 DEF Stored
  <2>3. QED
    BY <2>1, <2>2 DEF Layouts
<1>5. ASSUME text # NULL
      PROVE  Stored("bool", text, layout, letters) \in {text, IF Atoi(text) = 0 THEN <<LetterF>> ELSE <<LetterT>>}
  <2>1. CASE letters
    BY <1>5, <2>1 DEF Stored
  <2>2. CASE ~ letters
    BY <1>5, <2>2 DEF Stored
  <2>3. QED
    BY <2>1, <2>2
<1>6. QED
  BY <1>2, <1>3, <1>4, <1>5

\* A row that was stored, and the item of each column.
LEMMA RowItems ==
  ASSUME ValuesInv, state = "executed", AllSound
  PROVE  /\ Len(row) = 2 /\ DOMAIN row = 1 .. 2
         /\ \A i \in {1, 2} :
              /\ put[i] \in Items
              /\ \E layout \in Layouts : \E letters : row[i] = Stored(put[i].kind, TextOf(put[i]), layout, letters)
<1>1. PICK layout \in Layouts : row = RowOf(put, layout, driver)
  BY DEF ValuesInv, RowRight
<1>2. put \in Seq(Items) /\ Len(put) = 2
  BY DEF ValuesInv, SearchInv, Typed, Width
<1>3. \A i \in {1, 2} : put[i] \in Items
  BY <1>2, ElementOfSeq
<1>4. row = [i \in 1 .. 2 |-> Stored(put[i].kind, TextOf(put[i]), layout, driver = "pq")]
  BY <1>1 DEF RowOf, Width
<1>5. DOMAIN row = 1 .. 2
  BY <1>4
<1>6. Len(row) = 2
  BY <1>4
<1>7. ASSUME NEW i \in {1, 2}
      PROVE  \E letters : row[i] = Stored(put[i].kind, TextOf(put[i]), layout, letters)
  <2> DEFINE letters == driver = "pq"
  <2>1. row[i] = Stored(put[i].kind, TextOf(put[i]), layout, letters)
    BY <1>4
  <2> HIDE DEF letters
  <2>2. QED
    BY <2>1
<1>8. QED
  BY <1>3, <1>5, <1>6, <1>7

\* No value of a client is the null pointer.
LEMMA NotNull ==
  /\ \A str \in Strings : str \in Seq(Int) /\ str # NULL
  /\ \A t \in Times : t \in Int /\ FourDigits(t \div 86400) /\ t # NULL
  /\ \A bit \in BOOLEAN : bit # NULL
  /\ \A n \in Numbers : n \in Int /\ Abs(n) < 100000 /\ n # NULL
<1>1. \A str \in Strings : str \in Seq(Int) /\ str # NULL
  <2>1. \A str \in Strings : str \in Seq(Int)
    BY ValuesAssumption
  <2>2. QED
    BY <2>1, NullAssumption
<1>2. \A t \in Times : t \in Int /\ FourDigits(t \div 86400) /\ t # NULL
  BY ValuesAssumption, NullAssumption DEF FourDigits
<1>3. \A bit \in BOOLEAN : bit # NULL
  BY NullAssumption
<1>4. \A n \in Numbers : n \in Int /\ Abs(n) < 100000 /\ n # NULL
  BY ValuesAssumption, NullAssumption
<1>5. QED
  BY <1>1, <1>2, <1>3, <1>4

\* Texts and missing values are stored as they were given.
LEMMA RowReads ==
  ASSUME ValuesInv, state = "executed", AllSound
  PROVE  LiteralsReadBack
<1>1. ASSUME NEW i \in {1, 2}, put[i].kind = "string" \/ put[i].value = NULL
      PROVE  row[i] = put[i].value
  <2> DEFINE p == put[i]
  <2>0. PICK layout \in Layouts : \E letters : row[i] = Stored(p.kind, TextOf(p), layout, letters)
    BY RowItems
  <2>1. PICK letters : row[i] = Stored(p.kind, TextOf(p), layout, letters)
    BY <2>0
  <2>2. p \in Items
    BY RowItems
  <2> HIDE DEF p
  <2>3. CASE p.value = NULL
    <3>1. TextOf(p) = NULL
      BY <2>3 DEF TextOf
    <3>2. QED
      BY <2>1, <2>3, <3>1, StoredNone DEF p
  <2>4. CASE p.value # NULL
    <3>1. p.kind = "string" /\ TextOf(p) = p.value
      BY <1>1, <2>4 DEF p, TextOf
    <3> DEFINE text == TextOf(p)
    <3>2. text # NULL
      BY <2>4, <3>1
    <3> HIDE DEF text
    <3>3. Stored("string", text, layout, letters) = text
      BY <3>2, StoredIs
    <3>4. row[i] = p.value
      BY <2>1, <3>1, <3>3 DEF text
    <3>5. QED
      BY <3>4 DEF p
  <2>5. QED
    BY <2>3, <2>4
<1>2. QED
  BY <1>1, RowItems DEF LiteralsReadBack, Width

\* A text, and what each kind of value makes of it.
LEMMA ItemReads ==
  ASSUME NEW p \in Items, p.value # NULL, NEW layout \in Layouts, NEW letters,
         NEW v, v = Stored(p.kind, TextOf(p), layout, letters)
  PROVE  /\ v # NULL
         /\ p.kind = "string" => v = p.value /\ p.value \in Seq(Int)
         /\ p.kind = "time" => UnixTimeOf(v) = p.value - Zone /\ p.value \in Int
         /\ p.kind = "bool" => BoolOf(v) = p.value
         /\ p.kind = "number" => Atoi(v) = p.value /\ p.value \in Int
<1> DEFINE value == p.value
           text == TextOf(p)
<1>0. value # NULL
  OBVIOUS
<1>1. p.kind \in Kinds /\ value \in ValuesOfKind(p.kind)
  BY DEF Items
<1>2. CASE p.kind = "string"
  <2>1. value \in Strings /\ text = value
    BY <1>1, <1>2 DEF ValuesOfKind, TextOf
  <2>2. value \in Seq(Int)
    BY <2>1, NotNull
  <2> HIDE DEF value, text
  <2>3. Stored("string", text, layout, letters) = text
    BY <1>0, <2>1, StoredIs
  <2>4. v = value
    BY <1>2, <2>1, <2>3 DEF text
  <2>5. QED
    BY <1>0, <1>2, <2>2, <2>4 DEF value
<1>3. CASE p.kind = "time"
  <2>1. value \in Times /\ text = Strftime(GmTime(value))
    BY <1>1, <1>3 DEF ValuesOfKind, TextOf
  <2>2. value \in Int /\ FourDigits(value \div 86400)
    BY <2>1, NotNull
  <2> HIDE DEF value, text
  <2>3. text # NULL
    BY <2>1, <2>2, InstantsReadBack
  <2>4. v \in {Strftime(GmTime(value)), DigitsOf(Strftime(GmTime(value)))}
    <3>1. Stored("time", text, layout, letters) \in {text, DigitsOf(text)}
      BY <2>3, StoredIs
    <3>2. QED
      BY <1>3, <2>1, <3>1 DEF text
  <2>5. v # NULL /\ UnixTimeOf(v) = value - Zone
    BY <2>2, <2>4, InstantsReadBack
  <2>6. QED
    BY <1>3, <2>2, <2>5 DEF value
<1>4. CASE p.kind = "bool"
  <2>1. value \in BOOLEAN /\ text = Decimal(IF value THEN 1 ELSE 0)
    BY <1>1, <1>4 DEF ValuesOfKind, TextOf
  <2> HIDE DEF value, text
  <2> DEFINE letter == IF Atoi(text) = 0 THEN <<LetterF>> ELSE <<LetterT>>
  <2>2. text \in Seq(Int) /\ BoolOf(text) = value /\ BoolOf(letter) = value
    BY <2>1, BitReads DEF Bare
  <2>3. text # NULL /\ letter # NULL
    <3>1. letter \in Seq(Int)
      BY DEF LetterF, LetterT
    <3> HIDE DEF letter
    <3>2. QED
      BY <2>2, <3>1, NullAssumption
  <2>4. v \in {text, letter}
    <3>1. Stored("bool", text, layout, letters) \in {text, letter}
      BY <2>3, StoredIs
    <3> HIDE DEF letter
    <3>2. QED
      BY <1>4, <3>1 DEF text
  <2> HIDE DEF letter
  <2>5. v # NULL /\ BoolOf(v) = value
    BY <2>2, <2>3, <2>4
  <2>6. QED
    BY <1>4, <2>5 DEF value
<1>5. CASE p.kind = "number"
  <2>1. value \in Numbers /\ text = Decimal(value)
    BY <1>1, <1>5 DEF ValuesOfKind, TextOf
  <2>2. value \in Int /\ Abs(value) < 100000
    BY <2>1, NotNull
  <2> HIDE DEF value, text
  <2>3. text \in Seq(Int) /\ Atoi(text) = value
    BY <2>1, <2>2, DecimalReads DEF Bare
  <2>4. text # NULL
    BY <2>3, NullAssumption
  <2>5. v = text
    <3>1. Stored("number", text, layout, letters) = text
      BY <2>4, StoredIs
    <3>2. QED
      BY <1>5, <3>1 DEF text
  <2>6. QED
    BY <1>5, <2>2, <2>3, <2>4, <2>5 DEF value
<1>6. QED
  BY <1>1, <1>2, <1>3, <1>4, <1>5 DEF Kinds

\* The getters of each kind.
LEMMA GettersOf ==
  /\ Getters["string"] = {"String", "UnixTime"}
  /\ Getters["time"] = {"UnixTime"}
  /\ Getters["bool"] = {"Bool"}
  /\ Getters["number"] = NumberGetters
BY DEF Getters

\* A getter returns what was written.
LEMMA ReadRight ==
  ASSUME ValuesInv
  PROVE  ReadsBack
<1> SUFFICES ASSUME WasRead, AllSound PROVE ReadsBack
  BY DEF ReadsBack
<1> DEFINE there == Named(got.names, got.name)
           i == Min(there)
           p == put[i]
           as == got.as
           v == row[i]
<1>1. /\ got # Nothing /\ as # "nothing" /\ got.idx \in Indexes
      /\ state = "executed"
      /\ got.names \in Headings
      /\ there # {} /\ as \in Getters[p.kind]
      /\ got.is = Get(got.idx, as)
  BY DEF WasRead, ValuesInv, SearchInv, Sought
<1>2. driver \in {"sqlite3", "pq", "mysql", "odbc"}
  BY TheDrivers DEF ValuesInv, SearchInv
<1>3. i \in {1, 2}
  <2>1. there \in SUBSET (1 .. 2)
    BY <1>1, IndexOfColumn
  <2> HIDE DEF there
  <2>2. i \in 1 .. 2
    BY <1>1, <2>1, FirstColumn
  <2> HIDE DEF i
  <2>3. QED
    BY <2>2
<1>4. got.idx = Min(Indexes) + i - 1
  <2>1. FoundIsNamed
    BY SearchFinds DEF ValuesInv
  <2>2. QED
    BY <1>1, <2>1 DEF FoundIsNamed
<1>5. /\ DOMAIN row = 1 .. 2 /\ p \in Items
      /\ \E layout \in Layouts : \E letters : v = Stored(p.kind, TextOf(p), layout, letters)
  <2> HIDE DEF there, i
  <2>1. QED
    BY <1>1, <1>3, RowItems
<1>0. PICK layout \in Layouts : \E letters : v = Stored(p.kind, TextOf(p), layout, letters)
  BY <1>5
<1>6. PICK letters : v = Stored(p.kind, TextOf(p), layout, letters)
  BY <1>0
<1>7. ReadsBack <=>
        ((IF p.value = NULL THEN as \in {"Bool", "UnixTime"}
          ELSE /\ as = "Short" => Short(p.value) = p.value
               /\ p.kind = "string" /\ as = "UnixTime" => Len(p.value) < S!TimeLength
               /\ p.kind = "time" => Zone = 0)
         => got.is = Promised(p.value, p.kind, as))
  BY DEF ReadsBack, WasRead
<1> DEFINE idx == got.idx
<1> HIDE DEF there, i, p, as, v, idx
<1>8. CASE p.value = NULL
  <2> SUFFICES ASSUME as \in {"Bool", "UnixTime"} PROVE got.is = Promised(p.value, p.kind, as)
    BY <1>7, <1>8
  <2>1. v = NULL
    <3>1. TextOf(p) = NULL
      BY <1>8 DEF TextOf
    <3>2. QED
      BY <1>6, <3>1, StoredNone
  <2>2. Get(idx, "Bool") = FALSE /\ Get(idx, "UnixTime") = 0
    BY <1>2, <1>3, <1>4, <1>5, <2>1, RowHasNone DEF v, idx
  <2>3. \A kind : Promised(NULL, kind, "Bool") = FALSE /\ Promised(NULL, kind, "UnixTime") = 0
    BY DEF Promised
  <2>4. QED
    BY <1>1, <1>8, <2>2, <2>3 DEF idx
<1>9. CASE p.value # NULL
  <2> SUFFICES ASSUME as = "Short" => Short(p.value) = p.value,
                      p.kind = "string" /\ as = "UnixTime" => Len(p.value) < S!TimeLength,
                      p.kind = "time" => Zone = 0
               PROVE  got.is = Promised(p.value, p.kind, as)
    BY <1>7, <1>9
  <2>1. /\ v # NULL
        /\ p.kind = "string" => v = p.value /\ p.value \in Seq(Int)
        /\ p.kind = "time" => UnixTimeOf(v) = p.value - Zone /\ p.value \in Int
        /\ p.kind = "bool" => BoolOf(v) = p.value
        /\ p.kind = "number" => Atoi(v) = p.value /\ p.value \in Int
    <3>1. p \in Items
      BY <1>5
    <3> DEFINE w == Stored(p.kind, TextOf(p), layout, letters)
    <3> HIDE DEF w
    <3>2. /\ w # NULL
          /\ p.kind = "string" => w = p.value /\ p.value \in Seq(Int)
          /\ p.kind = "time" => UnixTimeOf(w) = p.value - Zone /\ p.value \in Int
          /\ p.kind = "bool" => BoolOf(w) = p.value
          /\ p.kind = "number" => Atoi(w) = p.value /\ p.value \in Int
      BY <3>1, <1>9, ItemReads DEF w
    <3>3. v = w
      BY <1>6 DEF w
    <3>4. QED
      BY <3>2, <3>3
  <2>2. Answers(got.is, as, v)
    <3>1. Answers(Get(idx, as), as, row[i])
      BY <1>2, <1>3, <1>4, <1>5, <2>1, RowAnswers DEF v, idx
    <3>2. QED
      BY <1>1, <3>1 DEF v, idx
  <2>3. p.kind \in Kinds
    BY <1>5 DEF Items
  <2>4. CASE p.kind = "string"
    <3>1. as \in {"String", "UnixTime"}
      BY <1>1, <2>4, GettersOf
    <3>2. CASE as = "String"
      <4>1. got.is = p.value
        BY <2>1, <2>2, <2>4, <3>2 DEF Answers
      <4>2. Promised(p.value, "string", "String") = p.value
        BY <1>9 DEF Promised
      <4>3. QED
        BY <2>4, <3>2, <4>1, <4>2
    <3>3. CASE as = "UnixTime"
      <4>1. Len(p.value) < 14
        BY <2>4, <3>3 DEF S!TimeLength
      <4>2. UnixTimeOf(v) = 0
        <5>1. Len(p.value) \in Nat
          BY <2>1, <2>4, LenProperties
        <5>2. QED
          BY <2>1, <2>4, <4>1, <5>1 DEF UnixTimeOf, TimeLength
      <4>3. Promised(p.value, "string", "UnixTime") = 0
        BY <1>9 DEF Promised
      <4>4. QED
        BY <2>2, <2>4, <3>3, <4>2, <4>3 DEF Answers
    <3>4. QED
      BY <3>1, <3>2, <3>3
  <2>5. CASE p.kind = "time"
    <3>1. as = "UnixTime"
      BY <1>1, <2>5, GettersOf
    <3>2. Promised(p.value, "time", "UnixTime") = p.value
      BY <1>9 DEF Promised
    <3>3. p.value - Zone = p.value
      BY <2>1, <2>5
    <3>4. QED
      BY <2>1, <2>2, <2>5, <3>1, <3>2, <3>3 DEF Answers
  <2>6. CASE p.kind = "bool"
    <3>1. as = "Bool"
      BY <1>1, <2>6, GettersOf
    <3>2. Promised(p.value, "bool", "Bool") = p.value
      BY <1>9 DEF Promised
    <3>3. QED
      BY <2>1, <2>2, <2>6, <3>1, <3>2 DEF Answers
  <2>7. CASE p.kind = "number"
    <3>1. as \in NumberGetters
      BY <1>1, <2>7, GettersOf
    <3>2. got.is = p.value
      <4>1. CASE as = "Short"
        BY <2>1, <2>2, <2>7, <4>1 DEF Answers
      <4>2. CASE as # "Short"
        BY <2>1, <2>2, <2>7, <3>1, <4>2 DEF Answers, NumberGetters
      <4>3. QED
        BY <4>1, <4>2
    <3>3. Promised(p.value, "number", as) = p.value
      BY <1>9 DEF Promised
    <3>4. QED
      BY <2>7, <3>2, <3>3
  <2>8. QED
    BY <2>3, <2>4, <2>5, <2>6, <2>7 DEF Kinds
<1>10. QED
  BY <1>8, <1>9

\* The invariant holds always.
LEMMA ValuesAlways == Spec => []ValuesInv
<1>1. Init => ValuesInv
  BY ValuesInit
<1>2. ValuesInv /\ [Next]_vars => ValuesInv'
  BY ValuesStep
<1>3. QED
  BY <1>1, <1>2, PTL DEF Spec

\* A statement that was built from sound literals is accepted, and every text in
\* it is stored as the client gave it: for every text and for every driver.
THEOREM LiteralsAreReadBack == Spec => []LiteralsReadBack
<1>1. ValuesInv => LiteralsReadBack
  BY RowReads DEF LiteralsReadBack
<1>2. QED
  BY <1>1, ValuesAlways, PTL

\* A value that went through a sound literal, the server, the search for its
\* column and a getter of its type is the value that was written: for every text,
\* every instant of a year with four digits, if standard time is UTC, and every
\* number that Decimal writes.
THEOREM ValuesReadBack == Spec => []ReadsBack
<1>1. ValuesInv => ReadsBack
  BY ReadRight DEF ReadsBack
<1>2. QED
  BY <1>1, ValuesAlways, PTL

=============================================================================
