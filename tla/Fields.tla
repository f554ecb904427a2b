------------------------------- MODULE Fields -------------------------------
(***************************************************************************)
(* The conversions that the four drivers write out alike.  A row is the    *)
(* sequence of the texts of its columns, NULL for one without a value.     *)
(***************************************************************************)
EXTENDS CLibrary

\* The smallest text that getUnixTime() looks into.
TimeLength == 14

\* getUnixTime() of a text long enough: the positions of the fields, which a
\* hyphen moves, and mktime() of what stands there.
TimeOf(v) ==
  LET hyphens == Hyphen \in ToSet(v)
      at == IF hyphens THEN [Y |-> 0, M |-> 5, D |-> 8, h |-> 11, m |-> 14, s |-> 17]
                       ELSE [Y |-> 0, M |-> 4, D |-> 6, h |-> 8, m |-> 10, s |-> 12]
      digit(i) == v[i + 1] - Digit0
      two(i) == digit(i) * 10 + digit(i + 1)
  IN  IF at.s + 2 > Len(v) THEN UNDEFINED   \* positions behind the text are read
      ELSE Mktime([year |-> 100 * two(at.Y) + two(at.Y + 2) - 1900, mon |-> two(at.M) - 1,
                   mday |-> two(at.D), hour |-> two(at.h), min |-> two(at.m), sec |-> two(at.s)])

\* getUnixTime(), for the text its column has in the driver.
UnixTimeOf(v) == IF v # NULL /\ Len(v) >= TimeLength THEN TimeOf(v) ELSE 0

\* getBool().
BoolOf(v) == v # NULL /\ v # <<>> /\ v[1] \in {Digit0 + 1, LetterT}

\* The getters of a number that ask for a text first, and those that do not.
NumberOf(v) == IF v = NULL THEN 0 ELSE Atoi(v)

\* unixtimeToSql(): 19 characters of UTC between quotes.
SqlTime(t) == <<Quote>> \o SubSeq(Strftime(GmTime(t)), 1, 19) \o <<Quote>>

\* Variant: the search goes on to the last column.
LastIndexOf(names, fld, first) ==
  LET from[k \in 0 .. Len(names)] ==
        IF k = 0 THEN Len(names) + 1 ELSE IF names[k] = fld THEN k ELSE from[k - 1]
  IN  first - 1 + from[Len(names)]

\* findColumn(): the columns from the first on, which has the index first, up to
\* one of that name, or past the last.
IndexOf(names, fld, first) ==
  LET from[k \in 1 .. Len(names) + 1] ==
        IF k > Len(names) \/ names[k] = fld THEN k ELSE from[k + 1]
  IN  first - 1 + from[1]
=============================================================================
