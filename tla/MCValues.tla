------------------------------ MODULE MCValues ------------------------------
(* Instances of Values for TLC. *)
EXTENDS Values

AllDrivers == {"sqlite3", "pq", "mysql", "odbc"}

\* A quote, a backslash, a comma and a letter, up to two of them.
ShortStrings == UNION {[1 .. n -> {Quote, Backslash, Comma, LetterT}] : n \in 0 .. 2}

\* The epoch and its eve, a leap day, the ends of a year and of a century's
\* February, the instant of the tests and one in the last hour of 32 bits.
Instants == {-1, 0, 951782400, 951868799, 978307199, 1414965631, 2147480000}

Integers5 == {-32769, -1, 0, 7, 10, 32768, 65535}

\* One heading has a name twice, and one an overlong name in front.
TwoColumns == {<<"a", "b">>, <<"a", "a">>, <<"long", "b">>, <<"b", "long">>}

\* What a new buffer may hold up to its first NUL: nothing, a character, and
\* more than the buffer of an empty text.
Memory == {<<>>, <<LetterT>>, [i \in 1 .. 7 |-> Quote]}
=============================================================================
