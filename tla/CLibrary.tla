------------------------------ MODULE CLibrary ------------------------------
(***************************************************************************)
(* The C library as the getters and the escaping functions of the drivers  *)
(* use it.  A text is a sequence of character codes, without its           *)
(* terminating NUL.                                                        *)
(***************************************************************************)
EXTENDS Integers, SequencesExt

CONSTANTS
  NULL,        \* the null pointer: what a column without a value has for text
  UNDEFINED,   \* what a call returns that C gives no meaning to
  Zone         \* seconds by which local standard time is ahead of UTC

ASSUME ZoneAssumption == Zone \in Int

ASSUME NullAssumption == NULL \notin Int \cup BOOLEAN \cup Seq(Int)

Space == 32
Quote == 39
Comma == 44
Hyphen == 45
Digit0 == 48
Colon == 58
Backslash == 92
LetterE == 69
LetterF == 102
LetterT == 116

IsDigit(ch) == ch \in Digit0 .. Digit0 + 9

Abs(n) == IF n < 0 THEN -n ELSE n

\* The last k decimal digits of n.
Digits(n, k) == [i \in 1 .. k |-> Digit0 + ((n \div 10 ^ (k - i)) % 10)]

\* An integer as operator<< writes it, up to five digits.
Decimal(n) ==
  LET size == CHOOSE k \in 1 .. 5 : (k = 5 \/ Abs(n) < 10 ^ k) /\ (k = 1 \/ Abs(n) >= 10 ^ (k - 1))
  IN  (IF n < 0 THEN <<Hyphen>> ELSE <<>>) \o Digits(Abs(n), size)

\* The place after the digits that stand from first on, and what digits say.
PastDigits(s, first) ==
  CHOOSE i \in first .. Len(s) + 1 :
    /\ \A j \in first .. i - 1 : IsDigit(s[j])
    /\ i = Len(s) + 1 \/ ~IsDigit(s[i])

Said(digits) == FoldLeft(LAMBDA acc, ch : acc * 10 + ch - Digit0, 0, digits)

\* atoi(), atol(), atof() and strtod() of a text with no fraction: an optional
\* sign and the digits after it.
Atoi(s) ==
  IF s = NULL THEN UNDEFINED
  ELSE IF s # <<>> /\ s[1] = Hyphen THEN -Said(SubSeq(s, 2, PastDigits(s, 2) - 1))
  ELSE Said(SubSeq(s, 1, PastDigits(s, 1) - 1))

\* The conversion of an integer to a short.
Short(n) == ((n + 32768) % 65536) - 32768

\* Days from 1970-01-01 to a date of the Gregorian calendar.
DaysTo(year, month, day) ==
  LET y == IF month <= 2 THEN year - 1 ELSE year
      dayOfYear == (153 * ((month + 9) % 12) + 2) \div 5 + day - 1   \* from 1 March
  IN  365 * y + y \div 4 - y \div 100 + y \div 400 + dayOfYear - 719468

SecondsTo(tm) ==
  86400 * DaysTo(tm.year + 1900, tm.mon + 1, tm.mday) + 3600 * tm.hour + 60 * tm.min + tm.sec

\* mktime() with tm_isdst = 0: the fields are local standard time.
Mktime(tm) == SecondsTo(tm) - Zone

\* The year of a day, and the month in that year.
YearOf(days) ==
  LET around == 1970 + (400 * days) \div 146097   \* by years of average length
  IN  CHOOSE y \in around - 1 .. around + 1 : DaysTo(y, 1, 1) <= days /\ days < DaysTo(y + 1, 1, 1)

MonthOf(days, year) ==
  CHOOSE m \in 1 .. 12 : DaysTo(year, m, 1) <= days /\ (m = 12 \/ days < DaysTo(year, m + 1, 1))

\* gmtime_r(): the fields are UTC.
GmTime(t) ==
  LET days == t \div 86400
      secs == t % 86400
      year == YearOf(days)
      month == MonthOf(days, year)
  IN  [year |-> year - 1900, mon |-> month - 1, mday |-> days - DaysTo(year, month, 1) + 1,
       hour |-> secs \div 3600, min |-> (secs \div 60) % 60, sec |-> secs % 60]

\* strftime() for "%Y-%m-%d %H:%M:%S".
Strftime(tm) ==
  Digits(tm.year + 1900, 4) \o <<Hyphen>> \o Digits(tm.mon + 1, 2) \o <<Hyphen>> \o Digits(tm.mday, 2)
    \o <<Space>> \o Digits(tm.hour, 2) \o <<Colon>> \o Digits(tm.min, 2) \o <<Colon>> \o Digits(tm.sec, 2)

\* The text with mark(character) in front of each character of chars.
Marked(s, chars, mark(_)) ==
  FoldLeft(LAMBDA done, ch : done \o (IF ch \in chars THEN <<mark(ch), ch>> ELSE <<ch>>), <<>>, s)
=============================================================================
