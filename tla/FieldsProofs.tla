---------------------------- MODULE FieldsProofs ----------------------------
(*****************************************************************************)
(* What the conversions of Fields, the literals of the drivers and the       *)
(* server that reads them make of every text, instant and number, by         *)
(* induction on the characters of a text and on the digits of a number.      *)
(* Induction is over sets: FoldLemmas says why.                              *)
(*****************************************************************************)
EXTENDS SqlReader, Fields, SequenceTheorems, TLAPS

DoubleTurn(done, ch, chars) == done \o (IF ch \in chars THEN <<ch, ch>> ELSE <<ch>>)

BackslashTurn(done, ch, chars) == done \o (IF ch \in chars THEN <<Backslash, ch>> ELSE <<ch>>)

Doubling == INSTANCE FoldLemmas WITH Op <- DoubleTurn

Backslashing == INSTANCE FoldLemmas WITH Op <- BackslashTurn

Lexing == INSTANCE FoldLemmas WITH Op <- Lex

Doubled(s, chars) == Doubling!Folded(s, chars, <<>>)

Backslashed(s, chars) == Backslashing!Folded(s, chars, <<>>)

Lexed(text, backslashes) == Lexing!Folded(text, backslashes, LexStart)

----------------------------------------------------------------------------
(* The server in the course of a text. *)

\* Before a statement, and after one character more.
LEMMA LexedEmpty == \A b : Lexed(<<>>, b) = At("bare", <<>>, FALSE, <<>>)
BY Lexing!FoldedEmpty DEF Lexed, LexStart, At

LEMMA LexedAppend ==
  ASSUME NEW s \in Seq(Int), NEW ch \in Int, NEW b
  PROVE  Lexed(Append(s, ch), b) = Lex(Lexed(s, b), ch, b)
BY Lexing!FoldedAppend DEF Lexed

\* A sequence, and another with one element more.
LEMMA ConcatOne ==
  ASSUME NEW s \in Seq(Int), NEW t \in Seq(Int), NEW ch \in Int
  PROVE  /\ s \o <<ch>> = Append(s, ch)
         /\ s \o Append(t, ch) = Append(s \o t, ch)
         /\ s \o t \in Seq(Int)
         /\ Append(s, ch) \in Seq(Int)
<1>1. s \o t \in Seq(Int)
  BY ConcatProperties
<1>2. <<ch>> \in Seq(Int)
  OBVIOUS
<1>3. Append(t, ch) = t \o <<ch>> /\ Append(s, ch) = s \o <<ch>> /\ Append(s \o t, ch) = (s \o t) \o <<ch>>
  BY <1>1, AppendIsConcat
<1>4. s \o (t \o <<ch>>) = (s \o t) \o <<ch>>
  BY <1>2, ConcatAssociative
<1>5. Append(s, ch) \in Seq(Int)
  BY AppendProperties
<1>6. QED
  BY <1>1, <1>3, <1>4, <1>5

\* Truth values as terms, and whether they give backslashes a meaning.
Flags == BOOLEAN
On(b) == b = TRUE
Off(b) == b = FALSE
HasMeaning(e, b) == On(e) \/ On(b)

\* One character, by where the server is.
LEMMA TurnText ==
  ASSUME NEW word, NEW e \in Flags, NEW values, NEW b \in Flags, NEW ch \in Int
  PROVE  Lex(At("text", word, e, values), ch, b) =
           IF ch = Quote THEN At("quote", word, e, values)
           ELSE IF ch = Backslash /\ HasMeaning(e, b) THEN At("escape", word, e, values)
           ELSE At("text", Append(word, ch), e, values)
BY DEF Lex, LexText, At, Longer, Turned, Flags, HasMeaning, On

LEMMA TurnEscape ==
  ASSUME NEW word, NEW e \in Flags, NEW values, NEW b \in Flags, NEW ch \in Int
  PROVE  Lex(At("escape", word, e, values), ch, b) = At("text", Append(word, ch), e, values)
BY DEF Lex, At, Longer, Turned

LEMMA TurnQuote ==
  ASSUME NEW word, NEW e \in Flags, NEW values, NEW b \in Flags
  PROVE  /\ Lex(At("quote", word, e, values), Quote, b) = At("text", Append(word, Quote), e, values)
         /\ Lex(At("quote", word, e, values), Comma, b) = At("bare", <<>>, FALSE, Append(values, word))
BY DEF Lex, LexQuote, At, Longer, Turned, Complete, ValueOf, LexStart, Quote, Comma

LEMMA TurnBare ==
  ASSUME NEW word, NEW e \in Flags, NEW values, NEW b \in Flags, NEW ch \in Int, ch # Quote, ch # Comma
  PROVE  Lex(At("bare", word, e, values), ch, b) = At("bare", Append(word, ch), e, values)
BY DEF Lex, LexBare, At, Longer

LEMMA TurnFresh ==
  ASSUME NEW word, NEW e \in Flags, NEW values, NEW b \in Flags
  PROVE  /\ Lex(At("bare", word, e, values), Comma, b) =
              At("bare", <<>>, FALSE, Append(values, IF word = WordNull THEN NULL ELSE word))
         /\ Lex(At("bare", <<>>, e, values), Quote, b) = At("text", <<>>, FALSE, values)
         /\ Lex(At("bare", <<Space, LetterE>>, e, values), Quote, b) = At("text", <<>>, TRUE, values)
<1>0. Quote # Comma
  BY DEF Quote, Comma
<1>1. Lex(At("bare", word, e, values), Comma, b) =
        At("bare", <<>>, FALSE, Append(values, IF word = WordNull THEN NULL ELSE word))
  BY DEF Lex, LexBare, At, Complete, ValueOf
<1>2. Lex(At("bare", <<>>, e, values), Quote, b) = At("text", <<>>, FALSE, values)
  BY <1>0 DEF Lex, LexBare, At
<1>3. Lex(At("bare", <<Space, LetterE>>, e, values), Quote, b) = At("text", <<>>, TRUE, values)
  <2>1. <<Space, LetterE>> # <<>>
    OBVIOUS
  <2>2. QED
    BY <1>0, <2>1 DEF Lex, LexBare, At
<1>4. QED
  BY <1>1, <1>2, <1>3

----------------------------------------------------------------------------
(* Texts between quotes. *)

\* Concatenation is associative, and a pair is two sequences of one.
LEMMA Assoc == \A p, s, t \in Seq(Int) : p \o (s \o t) = (p \o s) \o t
BY ConcatAssociative

LEMMA Pair ==
  ASSUME NEW a \in Int, NEW ch \in Int
  PROVE  <<a, ch>> = <<a>> \o <<ch>> /\ <<a>> \in Seq(Int) /\ <<ch>> \in Seq(Int) /\ <<a, ch>> \in Seq(Int)
<1>1. <<a>> \in Seq(Int) /\ <<ch>> \in Seq(Int) /\ <<a, ch>> \in Seq(Int)
  OBVIOUS
<1>2. Len(<<a>>) = 1 /\ Len(<<ch>>) = 1 /\ Len(<<a, ch>>) = 2
  OBVIOUS
<1>3. <<a>> \o <<ch>> \in Seq(Int) /\ Len(<<a>> \o <<ch>>) = 2
  BY <1>1, <1>2, ConcatProperties
<1>4. (<<a>> \o <<ch>>)[1] = a /\ (<<a>> \o <<ch>>)[2] = ch
  BY <1>1, <1>2, ConcatProperties
<1>5. \A i \in 1 .. 2 : (<<a>> \o <<ch>>)[i] = <<a, ch>>[i]
  BY <1>4
<1>6. <<a>> \o <<ch>> = <<a, ch>>
  BY <1>1, <1>2, <1>3, <1>5, SeqEqual
<1>7. QED
  BY <1>1, <1>6

\* The server after one character more, and after two.
LEMMA LexedOne ==
  ASSUME NEW s \in Seq(Int), NEW ch \in Int, NEW b
  PROVE  Lexed(s \o <<ch>>, b) = Lex(Lexed(s, b), ch, b)
<1>1. s \o <<ch>> = Append(s, ch)
  BY AppendIsConcat
<1>2. QED
  BY <1>1, LexedAppend

LEMMA LexedTwo ==
  ASSUME NEW s \in Seq(Int), NEW a \in Int, NEW ch \in Int, NEW b
  PROVE  Lexed(s \o <<a, ch>>, b) = Lex(Lex(Lexed(s, b), a, b), ch, b)
<1>1. s \o <<a, ch>> = (s \o <<a>>) \o <<ch>>
  <2>1. <<a, ch>> = <<a>> \o <<ch>> /\ <<a>> \in Seq(Int) /\ <<ch>> \in Seq(Int)
    BY Pair
  <2>2. s \o (<<a>> \o <<ch>>) = (s \o <<a>>) \o <<ch>>
    BY <2>1, Assoc
  <2>3. QED
    BY <2>1, <2>2
<1>2. s \o <<a>> \in Seq(Int)
  BY Pair, ConcatProperties
<1>3. Lexed((s \o <<a>>) \o <<ch>>, b) = Lex(Lexed(s \o <<a>>, b), ch, b)
  BY <1>2, LexedOne
<1>4. Lexed(s \o <<a>>, b) = Lex(Lexed(s, b), a, b)
  BY LexedOne
<1>5. QED
  BY <1>1, <1>3, <1>4

\* The turn of an escaping function puts one character or two.
LEMMA OneOrTwo ==
  ASSUME NEW s \in Seq(Int), NEW a \in Int, NEW ch \in Int
  PROVE  /\ s \o <<ch>> \in Seq(Int) /\ Len(s \o <<ch>>) = Len(s) + 1
         /\ s \o <<a, ch>> \in Seq(Int) /\ Len(s \o <<a, ch>>) = Len(s) + 2
<1>1. Len(<<ch>>) = 1 /\ Len(<<a, ch>>) = 2
  OBVIOUS
<1>2. QED
  BY <1>1, Pair, ConcatProperties

\* What a text may consist of, and the characters to be doubled: the quote, and
\* the backslash if the text may have one just when it has a meaning.
Doubles(C, chars, e, b) ==
  /\ C \subseteq Int /\ e \in Flags /\ b \in Flags
  /\ chars \subseteq {Quote, Backslash} /\ Quote \in chars
  /\ Backslash \in C => (Backslash \in chars <=> HasMeaning(e, b))

\* Where a backslash goes before quotes and backslashes, it has a meaning.
Marks(C, chars, e, b) ==
  C \subseteq Int /\ chars = {Quote, Backslash} /\ e \in Flags /\ b \in Flags /\ HasMeaning(e, b)

\* A text with its quotes doubled, and its backslashes where they have a
\* meaning, is read as that text, and is at most twice as long.
LEMMA DoubledReads ==
  ASSUME NEW C, NEW chars, NEW e, NEW b, Doubles(C, chars, e, b),
         NEW p \in Seq(Int), NEW values, Lexed(p, b) = At("text", <<>>, e, values)
  PROVE  \A s \in Seq(C) :
           /\ Doubled(s, chars) \in Seq(Int)
           /\ Len(Doubled(s, chars)) <= 2 * Len(s)
           /\ Lexed(p \o Doubled(s, chars), b) = At("text", s, e, values)
<1> DEFINE Good(s) == /\ Doubled(s, chars) \in Seq(Int)
                      /\ Len(Doubled(s, chars)) <= 2 * Len(s)
                      /\ Lexed(p \o Doubled(s, chars), b) = At("text", s, e, values)
           T == {s \in Seq(C) : Good(s)}
<1>0. /\ C \subseteq Int /\ e \in Flags /\ b \in Flags
      /\ \A ch \in C : ch \in chars => ch = Quote \/ (ch = Backslash /\ HasMeaning(e, b))
      /\ \A ch \in C : ch \notin chars => ch # Quote /\ ~ (ch = Backslash /\ HasMeaning(e, b))
  BY DEF Doubles
<1>1. <<>> \in T
  <2>1. Doubled(<<>>, chars) = <<>>
    BY Doubling!FoldedEmpty DEF Doubled
  <2>2. p \o <<>> = p
    BY ConcatEmptySeq
  <2>3. <<>> \in Seq(C) /\ <<>> \in Seq(Int) /\ Len(<<>>) <= 2 * Len(<<>>)
    BY EmptySeq
  <2>4. QED
    BY <2>1, <2>2, <2>3
<1>2. ASSUME NEW s \in Seq(C), NEW ch \in C, s \in T PROVE Append(s, ch) \in T
  <2> DEFINE d == Doubled(s, chars)
             z == Append(s, ch)
  <2>1. d \in Seq(Int) /\ Len(d) <= 2 * Len(s) /\ Lexed(p \o d, b) = At("text", s, e, values)
    BY <1>2
  <2>2. z \in Seq(C) /\ Len(z) = Len(s) + 1
    BY AppendProperties
  <2>3. Doubled(z, chars) = d \o (IF ch \in chars THEN <<ch, ch>> ELSE <<ch>>)
    BY Doubling!FoldedAppend DEF Doubled, DoubleTurn
  <2>4. ch \in Int /\ p \o d \in Seq(Int) /\ Len(s) \in Nat /\ Len(d) \in Nat
    BY <1>0, <2>1, ConcatProperties, LenProperties
  <2> HIDE DEF d, z
  <2>5. CASE ch \in chars
    <3>1. Doubled(z, chars) = d \o <<ch, ch>>
      BY <2>3, <2>5
    <3>2. Lexed(p \o Doubled(z, chars), b) = Lex(Lex(At("text", s, e, values), ch, b), ch, b)
      <4>1. p \o (d \o <<ch, ch>>) = (p \o d) \o <<ch, ch>>
        BY <2>1, <2>4, Pair, Assoc
      <4>2. Lexed((p \o d) \o <<ch, ch>>, b) = Lex(Lex(Lexed(p \o d, b), ch, b), ch, b)
        BY <2>4, LexedTwo
      <4>3. QED
        BY <2>1, <3>1, <4>1, <4>2
    <3>3. Lex(Lex(At("text", s, e, values), ch, b), ch, b) = At("text", z, e, values)
      <4>1. CASE ch = Quote
        <5>1. Lex(At("text", s, e, values), ch, b) = At("quote", s, e, values)
          BY <1>0, <2>4, <4>1, TurnText
        <5>2. Lex(At("quote", s, e, values), Quote, b) = At("text", Append(s, Quote), e, values)
          BY <1>0, TurnQuote
        <5>3. QED
          BY <4>1, <5>1, <5>2 DEF z
      <4>2. CASE ch = Backslash
        <5>1. ch # Quote /\ HasMeaning(e, b)
          BY <1>0, <2>5, <4>2 DEF Quote, Backslash
        <5>2. Lex(At("text", s, e, values), ch, b) = At("escape", s, e, values)
          BY <1>0, <2>4, <4>2, <5>1, TurnText
        <5>3. QED
          BY <1>0, <2>4, <5>2, TurnEscape DEF z
      <4>3. QED
        BY <1>0, <2>5, <4>1, <4>2
    <3>4. Doubled(z, chars) \in Seq(Int) /\ Len(Doubled(z, chars)) = Len(d) + 2
      BY <2>1, <2>4, <3>1, OneOrTwo
    <3>5. QED
      BY <2>1, <2>2, <2>4, <3>2, <3>3, <3>4 DEF z
  <2>6. CASE ch \notin chars
    <3>1. Doubled(z, chars) = d \o <<ch>>
      BY <2>3, <2>6
    <3>2. Lexed(p \o Doubled(z, chars), b) = Lex(At("text", s, e, values), ch, b)
      <4>1. p \o (d \o <<ch>>) = (p \o d) \o <<ch>>
        BY <2>1, <2>4, Pair, Assoc
      <4>2. Lexed((p \o d) \o <<ch>>, b) = Lex(Lexed(p \o d, b), ch, b)
        BY <2>4, LexedOne
      <4>3. QED
        BY <2>1, <3>1, <4>1, <4>2
    <3>3. ch # Quote /\ ~ (ch = Backslash /\ HasMeaning(e, b))
      BY <1>0, <2>6
    <3>4. Lex(At("text", s, e, values), ch, b) = At("text", z, e, values)
      BY <1>0, <2>4, <3>3, TurnText DEF z
    <3>5. Doubled(z, chars) \in Seq(Int) /\ Len(Doubled(z, chars)) = Len(d) + 1
      BY <2>1, <2>4, <3>1, OneOrTwo
    <3>6. QED
      BY <2>1, <2>2, <2>4, <3>2, <3>4, <3>5 DEF z
  <2>7. QED
    BY <2>5, <2>6
<1> HIDE DEF T
<1>3. \A s \in Seq(C) : s \in T
  BY <1>1, <1>2, Doubling!SequencesByAppend
<1>4. QED
  BY <1>3 DEF T

\* A text with a backslash before its quotes and backslashes is read as that
\* text by a server to which backslashes mean that.
LEMMA BackslashedReads ==
  ASSUME NEW C, NEW chars, NEW e, NEW b, Marks(C, chars, e, b),
         NEW p \in Seq(Int), NEW values, Lexed(p, b) = At("text", <<>>, e, values)
  PROVE  \A s \in Seq(C) :
           /\ Backslashed(s, chars) \in Seq(Int)
           /\ Len(Backslashed(s, chars)) <= 2 * Len(s)
           /\ Lexed(p \o Backslashed(s, chars), b) = At("text", s, e, values)
<1> DEFINE Good(s) == /\ Backslashed(s, chars) \in Seq(Int)
                      /\ Len(Backslashed(s, chars)) <= 2 * Len(s)
                      /\ Lexed(p \o Backslashed(s, chars), b) = At("text", s, e, values)
           T == {s \in Seq(C) : Good(s)}
<1>9. Backslash \in Int
  BY DEF Backslash
<1>0. Quote # Backslash /\ e \in Flags /\ b \in Flags /\ HasMeaning(e, b) /\ chars = {Quote, Backslash} /\ C \subseteq Int
  BY DEF Quote, Backslash, Marks
<1>1. <<>> \in T
  <2>1. Backslashed(<<>>, chars) = <<>>
    BY Backslashing!FoldedEmpty DEF Backslashed
  <2>2. p \o <<>> = p
    BY ConcatEmptySeq
  <2>3. <<>> \in Seq(C) /\ <<>> \in Seq(Int) /\ Len(<<>>) <= 2 * Len(<<>>)
    BY EmptySeq
  <2>4. QED
    BY <2>1, <2>2, <2>3
<1>2. ASSUME NEW s \in Seq(C), NEW ch \in C, s \in T PROVE Append(s, ch) \in T
  <2> DEFINE d == Backslashed(s, chars)
             z == Append(s, ch)
  <2>1. d \in Seq(Int) /\ Len(d) <= 2 * Len(s) /\ Lexed(p \o d, b) = At("text", s, e, values)
    BY <1>2
  <2>2. z \in Seq(C) /\ Len(z) = Len(s) + 1
    BY AppendProperties
  <2>3. Backslashed(z, chars) = d \o (IF ch \in chars THEN <<Backslash, ch>> ELSE <<ch>>)
    BY Backslashing!FoldedAppend DEF Backslashed, BackslashTurn
  <2>4. ch \in Int /\ p \o d \in Seq(Int) /\ Len(s) \in Nat /\ Len(d) \in Nat
    BY <1>0, <2>1, ConcatProperties, LenProperties
  <2> HIDE DEF d, z
  <2>5. CASE ch \in chars
    <3>1. Backslashed(z, chars) = d \o <<Backslash, ch>>
      BY <2>3, <2>5
    <3>2. Lexed(p \o Backslashed(z, chars), b) = Lex(Lex(At("text", s, e, values), Backslash, b), ch, b)
      <4>1. p \o (d \o <<Backslash, ch>>) = (p \o d) \o <<Backslash, ch>>
        BY <1>9, <2>1, <2>4, Pair, Assoc
      <4>2. Lexed((p \o d) \o <<Backslash, ch>>, b) = Lex(Lex(Lexed(p \o d, b), Backslash, b), ch, b)
        BY <1>9, <2>4, LexedTwo
      <4>3. QED
        BY <2>1, <3>1, <4>1, <4>2
    <3>3. Lex(At("text", s, e, values), Backslash, b) = At("escape", s, e, values)
      BY <1>0, <1>9, TurnText
    <3>4. Lex(At("escape", s, e, values), ch, b) = At("text", z, e, values)
      BY <1>0, <2>4, TurnEscape DEF z
    <3>5. Backslashed(z, chars) \in Seq(Int) /\ Len(Backslashed(z, chars)) = Len(d) + 2
      BY <1>9, <2>1, <2>4, <3>1, OneOrTwo
    <3>6. QED
      BY <2>1, <2>2, <2>4, <3>2, <3>3, <3>4, <3>5 DEF z
  <2>6. CASE ch \notin chars
    <3>1. Backslashed(z, chars) = d \o <<ch>>
      BY <2>3, <2>6
    <3>2. Lexed(p \o Backslashed(z, chars), b) = Lex(At("text", s, e, values), ch, b)
      <4>1. p \o (d \o <<ch>>) = (p \o d) \o <<ch>>
        BY <2>1, <2>4, Pair, Assoc
      <4>2. Lexed((p \o d) \o <<ch>>, b) = Lex(Lexed(p \o d, b), ch, b)
        BY <2>4, LexedOne
      <4>3. QED
        BY <2>1, <3>1, <4>1, <4>2
    <3>3. Lex(At("text", s, e, values), ch, b) = At("text", z, e, values)
      <4>1. ch # Quote /\ ch # Backslash
        BY <1>0, <2>6
      <4>2. QED
        BY <1>0, <2>4, <4>1, TurnText DEF z
    <3>4. Backslashed(z, chars) \in Seq(Int) /\ Len(Backslashed(z, chars)) = Len(d) + 1
      BY <2>1, <2>4, <3>1, OneOrTwo
    <3>5. QED
      BY <2>1, <2>2, <2>4, <3>2, <3>3, <3>4 DEF z
  <2>7. QED
    BY <2>5, <2>6
<1> HIDE DEF T
<1>3. \A s \in Seq(C) : s \in T
  BY <1>1, <1>2, Backslashing!SequencesByAppend
<1>4. QED
  BY <1>3 DEF T

\* A text without quotes and backslashes is read as it stands.
LEMMA PlainReads ==
  ASSUME NEW C \in SUBSET Int, Quote \notin C, Backslash \notin C, NEW b \in Flags, NEW e \in Flags,
         NEW p \in Seq(Int), NEW values, Lexed(p, b) = At("text", <<>>, e, values)
  PROVE  \A s \in Seq(C) : Lexed(p \o s, b) = At("text", s, e, values)
<1> DEFINE T == {s \in Seq(C) : Lexed(p \o s, b) = At("text", s, e, values)}
<1>1. <<>> \in T
  BY EmptySeq, ConcatEmptySeq
<1>2. ASSUME NEW s \in Seq(C), NEW ch \in C, s \in T PROVE Append(s, ch) \in T
  <2>1. s \in Seq(Int) /\ Append(s, ch) \in Seq(C)
    BY SeqMonotonic, AppendProperties
  <2>2. p \o Append(s, ch) = Append(p \o s, ch) /\ p \o s \in Seq(Int)
    BY <2>1, ConcatOne
  <2>3. Lexed(Append(p \o s, ch), b) = Lex(At("text", s, e, values), ch, b)
    <3>1. p \o s \in Seq(Int) /\ ch \in Int /\ Lexed(p \o s, b) = At("text", s, e, values)
      BY <1>2, <2>2
    <3>2. Lexed(Append(p \o s, ch), b) = Lex(Lexed(p \o s, b), ch, b)
      BY <3>1, LexedAppend
    <3>3. QED
      BY <3>1, <3>2
  <2>4. Lex(At("text", s, e, values), ch, b) = At("text", Append(s, ch), e, values)
    <3>1. ch \in Int /\ ch # Quote /\ ch # Backslash
      OBVIOUS
    <3>2. QED
      BY <3>1, TurnText
  <2>5. QED
    BY <2>1, <2>2, <2>3, <2>4
<1> HIDE DEF T
<1>3. \A s \in Seq(C) : s \in T
  BY <1>1, <1>2, Doubling!SequencesByAppend
<1>4. QED
  BY <1>3 DEF T

\* A bare word without quotes and commas is read as it stands.
LEMMA BareReads ==
  ASSUME NEW C \in SUBSET Int, Quote \notin C, Comma \notin C, NEW b \in Flags, NEW e \in Flags,
         NEW p \in Seq(Int), NEW values, Lexed(p, b) = At("bare", <<>>, e, values)
  PROVE  \A s \in Seq(C) : Lexed(p \o s, b) = At("bare", s, e, values)
<1> DEFINE T == {s \in Seq(C) : Lexed(p \o s, b) = At("bare", s, e, values)}
<1>1. <<>> \in T
  BY EmptySeq, ConcatEmptySeq
<1>2. ASSUME NEW s \in Seq(C), NEW ch \in C, s \in T PROVE Append(s, ch) \in T
  <2>1. s \in Seq(Int) /\ Append(s, ch) \in Seq(C)
    BY SeqMonotonic, AppendProperties
  <2>2. p \o Append(s, ch) = Append(p \o s, ch) /\ p \o s \in Seq(Int)
    BY <2>1, ConcatOne
  <2>3. Lexed(Append(p \o s, ch), b) = Lex(At("bare", s, e, values), ch, b)
    <3>1. p \o s \in Seq(Int) /\ ch \in Int /\ Lexed(p \o s, b) = At("bare", s, e, values)
      BY <1>2, <2>2
    <3>2. Lexed(Append(p \o s, ch), b) = Lex(Lexed(p \o s, b), ch, b)
      BY <3>1, LexedAppend
    <3>3. QED
      BY <3>1, <3>2
  <2>4. Lex(At("bare", s, e, values), ch, b) = At("bare", Append(s, ch), e, values)
    <3>1. ch \in Int /\ ch # Quote /\ ch # Comma
      OBVIOUS
    <3>2. QED
      BY <3>1, TurnBare
  <2>5. QED
    BY <2>1, <2>2, <2>3, <2>4
<1> HIDE DEF T
<1>3. \A s \in Seq(C) : s \in T
  BY <1>1, <1>2, Doubling!SequencesByAppend
<1>4. QED
  BY <1>3 DEF T

\* What stands between quotes, after what opens it.
LEMMA QuotedReads ==
  ASSUME NEW p \in Seq(Int), NEW d \in Seq(Int), NEW b \in Flags, NEW e \in Flags, NEW word, NEW values,
         Lexed((p \o <<Quote>>) \o d, b) = At("text", word, e, values)
  PROVE  /\ <<Quote>> \o d \o <<Quote>> \in Seq(Int)
         /\ Len(<<Quote>> \o d \o <<Quote>>) = Len(d) + 2
         /\ Lexed(p \o (<<Quote>> \o d \o <<Quote>>), b) = At("quote", word, e, values)
<1>1. Quote \in Int /\ <<Quote>> \in Seq(Int) /\ Len(<<Quote>>) = 1
  BY DEF Quote
<1>2. /\ <<Quote>> \o d \in Seq(Int) /\ Len(<<Quote>> \o d) = Len(d) + 1
      /\ p \o <<Quote>> \in Seq(Int)
      /\ (p \o <<Quote>>) \o d \in Seq(Int)
  BY <1>1, ConcatProperties
<1>3. p \o (<<Quote>> \o d \o <<Quote>>) = (p \o <<Quote>>) \o d \o <<Quote>>
  <2>1. p \o (<<Quote>> \o d \o <<Quote>>) = (p \o (<<Quote>> \o d)) \o <<Quote>>
    BY <1>1, <1>2, Assoc
  <2>2. p \o (<<Quote>> \o d) = (p \o <<Quote>>) \o d
    BY <1>1, Assoc
  <2>3. QED
    BY <2>1, <2>2
<1>4. Lexed((p \o <<Quote>>) \o d \o <<Quote>>, b) = Lex(At("text", word, e, values), Quote, b)
  <2> DEFINE s == (p \o <<Quote>>) \o d
  <2>1. s \in Seq(Int) /\ Lexed(s, b) = At("text", word, e, values)
    BY <1>2
  <2> HIDE DEF s
  <2>2. Lexed(s \o <<Quote>>, b) = Lex(At("text", word, e, values), Quote, b)
    BY <1>1, <2>1, LexedOne
  <2>3. QED
    BY <2>2 DEF s
<1>5. Lex(At("text", word, e, values), Quote, b) = At("quote", word, e, values)
  BY <1>1, TurnText
<1>6. <<Quote>> \o d \o <<Quote>> \in Seq(Int) /\ Len(<<Quote>> \o d \o <<Quote>>) = Len(d) + 2
  BY <1>1, <1>2, ConcatProperties, LenProperties
<1>7. QED
  BY <1>3, <1>4, <1>5, <1>6

\* The same between quotes.
LEMMA DoubledLiteral ==
  ASSUME NEW C, NEW chars, NEW e, NEW b, Doubles(C, chars, e, b),
         NEW p \in Seq(Int), NEW values, Lexed(p \o <<Quote>>, b) = At("text", <<>>, e, values),
         NEW s \in Seq(C)
  PROVE  Lexed(p \o (<<Quote>> \o Doubled(s, chars) \o <<Quote>>), b) = At("quote", s, e, values)
<1> DEFINE q == p \o <<Quote>>
<1>1. q \in Seq(Int) /\ Lexed(q, b) = At("text", <<>>, e, values)
  <2>1. <<Quote>> \in Seq(Int)
    BY DEF Quote
  <2>2. QED
    BY <2>1, ConcatProperties
<1> HIDE DEF q
<1>2. \A t \in Seq(C) :
        /\ Doubled(t, chars) \in Seq(Int)
        /\ Len(Doubled(t, chars)) <= 2 * Len(t)
        /\ Lexed(q \o Doubled(t, chars), b) = At("text", t, e, values)
  BY <1>1, DoubledReads
<1> DEFINE d == Doubled(s, chars)
<1>3. d \in Seq(Int) /\ Lexed((p \o <<Quote>>) \o d, b) = At("text", s, e, values)
  BY <1>2 DEF q
<1> HIDE DEF d
<1>4. e \in Flags /\ b \in Flags
  BY DEF Doubles
<1>5. Lexed(p \o (<<Quote>> \o d \o <<Quote>>), b) = At("quote", s, e, values)
  BY <1>3, <1>4, QuotedReads, SMTT(60)
<1>6. QED
  BY <1>5 DEF d

\* The same between quotes.
LEMMA BackslashedLiteral ==
  ASSUME NEW C, NEW chars, NEW e, NEW b, Marks(C, chars, e, b),
         NEW p \in Seq(Int), NEW values, Lexed(p \o <<Quote>>, b) = At("text", <<>>, e, values),
         NEW s \in Seq(C)
  PROVE  Lexed(p \o (<<Quote>> \o Backslashed(s, chars) \o <<Quote>>), b) = At("quote", s, e, values)
<1> DEFINE q == p \o <<Quote>>
<1>1. q \in Seq(Int) /\ Lexed(q, b) = At("text", <<>>, e, values)
  <2>1. <<Quote>> \in Seq(Int)
    BY DEF Quote
  <2>2. QED
    BY <2>1, ConcatProperties
<1> HIDE DEF q
<1>2. \A t \in Seq(C) :
        /\ Backslashed(t, chars) \in Seq(Int)
        /\ Len(Backslashed(t, chars)) <= 2 * Len(t)
        /\ Lexed(q \o Backslashed(t, chars), b) = At("text", t, e, values)
  BY <1>1, BackslashedReads
<1> DEFINE d == Backslashed(s, chars)
<1>3. d \in Seq(Int) /\ Lexed((p \o <<Quote>>) \o d, b) = At("text", s, e, values)
  BY <1>2 DEF q
<1> HIDE DEF d
<1>4. e \in Flags /\ b \in Flags
  BY DEF Marks
<1>5. Lexed(p \o (<<Quote>> \o d \o <<Quote>>), b) = At("quote", s, e, values)
  BY <1>3, <1>4, QuotedReads, SMTT(60)
<1>6. QED
  BY <1>5 DEF d

\* An escaped text, of itself: characters, and at most two for each of the text.
LEMMA DoubledType ==
  ASSUME NEW chars, NEW C \in SUBSET Int
  PROVE  \A s \in Seq(C) : Doubled(s, chars) \in Seq(Int) /\ Len(Doubled(s, chars)) <= 2 * Len(s)
<1> DEFINE T == {s \in Seq(C) : Doubled(s, chars) \in Seq(Int) /\ Len(Doubled(s, chars)) <= 2 * Len(s)}
<1>1. <<>> \in T
  <2>1. Doubled(<<>>, chars) = <<>>
    BY Doubling!FoldedEmpty DEF Doubled
  <2>2. <<>> \in Seq(C) /\ <<>> \in Seq(Int) /\ Len(<<>>) <= 2 * Len(<<>>)
    BY EmptySeq
  <2>3. QED
    BY <2>1, <2>2
<1>2. ASSUME NEW s \in Seq(C), NEW ch \in C, s \in T PROVE Append(s, ch) \in T
  <2>1. Doubled(Append(s, ch), chars) = Doubled(s, chars) \o (IF ch \in chars THEN <<ch, ch>> ELSE <<ch>>)
    BY Doubling!FoldedAppend DEF Doubled, DoubleTurn
  <2>2. Append(s, ch) \in Seq(C) /\ Len(Append(s, ch)) = Len(s) + 1
    BY AppendProperties
  <2>3. ch \in Int /\ Doubled(s, chars) \in Seq(Int) /\ Len(Doubled(s, chars)) <= 2 * Len(s)
    BY <1>2
  <2>4. Len(s) \in Nat /\ Len(Doubled(s, chars)) \in Nat
    BY <2>3, LenProperties
  <2>5. /\ Doubled(s, chars) \o <<ch>> \in Seq(Int) /\ Len(Doubled(s, chars) \o <<ch>>) = Len(Doubled(s, chars)) + 1
        /\ Doubled(s, chars) \o <<ch, ch>> \in Seq(Int)
        /\ Len(Doubled(s, chars) \o <<ch, ch>>) = Len(Doubled(s, chars)) + 2
    BY <2>3, OneOrTwo
  <2> DEFINE d == Doubled(Append(s, ch), chars)
  <2>6. d \in Seq(Int) /\ Len(d) <= Len(Doubled(s, chars)) + 2
    <3>1. CASE ch \in chars
      BY <2>1, <2>4, <2>5, <3>1
    <3>2. CASE ch \notin chars
      BY <2>1, <2>4, <2>5, <3>2
    <3>3. QED
      BY <3>1, <3>2
  <2>7. QED
    BY <2>2, <2>3, <2>4, <2>6, LenProperties
<1> HIDE DEF T
<1>3. \A s \in Seq(C) : s \in T
  BY <1>1, <1>2, Doubling!SequencesByAppend
<1>4. QED
  BY <1>3 DEF T

----------------------------------------------------------------------------
(* Literals, whatever stands in front of them. *)

\* A statement that may end here, with these values.
Ends(text, b, values) ==
  /\ Lexed(text, b).mode \in {"bare", "quote"}
  /\ Complete(Lexed(text, b)).values = values

\* After the last quote of a text, and after a bare word, a statement may end.
LEMMA EndsQuote ==
  ASSUME NEW text, NEW b, NEW word, NEW e, NEW values, Lexed(text, b) = At("quote", word, e, values)
  PROVE  Ends(text, b, Append(values, word))
BY DEF Ends, Complete, ValueOf, At

LEMMA EndsBare ==
  ASSUME NEW text, NEW b, NEW word, NEW e, NEW values, Lexed(text, b) = At("bare", word, e, values)
  PROVE  Ends(text, b, Append(values, IF word = WordNull THEN NULL ELSE word))
BY DEF Ends, Complete, ValueOf, At

\* A value begins here, after these values.
Begins(text, b, values) == \E e \in Flags : Lexed(text, b) = At("bare", <<>>, e, values)

\* After a comma the next value begins.
LEMMA EndsComma ==
  ASSUME NEW text \in Seq(Int), NEW b, NEW values, Ends(text, b, values)
  PROVE  Begins(text \o <<Comma>>, b, values)
<1>1. Comma \in Int /\ Comma # Quote
  BY DEF Comma, Quote
<1>2. Lexed(text \o <<Comma>>, b) = Lex(Lexed(text, b), Comma, b)
  BY <1>1, LexedOne
<1>3. Lex(Lexed(text, b), Comma, b) = Complete(Lexed(text, b))
  BY <1>1 DEF Lex, LexBare, LexQuote, Ends
<1>4. Complete(Lexed(text, b)) = At("bare", <<>>, FALSE, values)
  BY DEF Ends, Complete, At
<1> DEFINE e == FALSE
<1>5. e \in Flags /\ Lexed(text \o <<Comma>>, b) = At("bare", <<>>, e, values)
  BY <1>2, <1>3, <1>4 DEF Flags
<1> HIDE DEF e
<1>6. QED
  BY <1>5 DEF Begins

\* The quote that opens a text.
LEMMA Opens ==
  ASSUME NEW p \in Seq(Int), NEW b \in Flags, NEW values, Begins(p, b, values), NEW v \in Flags
  PROVE  /\ Off(v) => Lexed(p \o <<Quote>>, b) = At("text", <<>>, v, values)
         /\ p \o <<Space, LetterE>> \in Seq(Int)
         /\ On(v) => Lexed((p \o <<Space, LetterE>>) \o <<Quote>>, b) = At("text", <<>>, v, values)
<1>0. PICK e \in Flags : Lexed(p, b) = At("bare", <<>>, e, values)
  BY DEF Begins
<1>1. {Quote, Space, LetterE} \subseteq Int /\ Quote \notin {Space, LetterE} /\ Comma \notin {Space, LetterE}
  BY DEF Quote, Space, LetterE, Comma
<1>2. Lexed(p \o <<Quote>>, b) = At("text", <<>>, FALSE, values)
  <2>1. Lexed(p \o <<Quote>>, b) = Lex(Lexed(p, b), Quote, b)
    BY <1>1, LexedOne
  <2>2. Lex(At("bare", <<>>, e, values), Quote, b) = At("text", <<>>, FALSE, values)
    BY TurnFresh
  <2>3. QED
    BY <1>0, <2>1, <2>2
<1> DEFINE q == p \o <<Space, LetterE>>
<1>3. q \in Seq(Int)
  BY <1>1, OneOrTwo
<1>4. Lexed(q, b) = Lex(Lex(At("bare", <<>>, e, values), Space, b), LetterE, b)
  BY <1>0, <1>1, LexedTwo
<1>5. Lex(At("bare", <<>>, e, values), Space, b) = At("bare", Append(<<>>, Space), e, values)
  <2>1. Space \in Int /\ Space # Quote /\ Space # Comma
    BY <1>1
  <2>2. \A word : Lex(At("bare", word, e, values), Space, b) = At("bare", Append(word, Space), e, values)
    BY <2>1, TurnBare
  <2>3. QED
    BY <2>2
<1>6. Lex(At("bare", Append(<<>>, Space), e, values), LetterE, b) =
        At("bare", Append(Append(<<>>, Space), LetterE), e, values)
  <2>1. LetterE \in Int /\ LetterE # Quote /\ LetterE # Comma
    BY <1>1
  <2>2. QED
    BY <2>1, TurnBare
<1>7. Append(Append(<<>>, Space), LetterE) = <<Space, LetterE>>
  <2>1. Append(<<>>, Space) = <<Space>>
    OBVIOUS
  <2>2. Append(<<Space>>, LetterE) = <<Space>> \o <<LetterE>>
    BY <1>1, Pair, AppendIsConcat
  <2>3. QED
    BY <1>1, <2>1, <2>2, Pair
<1>8. Lexed(q, b) = At("bare", <<Space, LetterE>>, e, values)
  BY <1>4, <1>5, <1>6, <1>7
<1> HIDE DEF q
<1>9. Lexed(q \o <<Quote>>, b) = Lex(At("bare", <<Space, LetterE>>, e, values), Quote, b)
  BY <1>1, <1>3, <1>8, LexedOne
<1>10. Lexed(q \o <<Quote>>, b) = At("text", <<>>, TRUE, values)
  BY <1>9, TurnFresh
<1>11. Off(v) => Lexed(p \o <<Quote>>, b) = At("text", <<>>, v, values)
  BY <1>2 DEF Off
<1>12. On(v) => Lexed((p \o <<Space, LetterE>>) \o <<Quote>>, b) = At("text", <<>>, v, values)
  BY <1>10 DEF On, q
<1>13. QED
  BY <1>3, <1>11, <1>12 DEF q

\* SQLite and ODBC, where backslashes have no meaning.
LEMMA QuotesDoubled ==
  ASSUME NEW b \in Flags, Off(b), NEW p \in Seq(Int), NEW values, Begins(p, b, values), NEW str \in Seq(Int)
  PROVE  Ends(p \o (<<Quote>> \o Doubled(str, {Quote}) \o <<Quote>>), b, Append(values, str))
<1>0. PICK e \in Flags : Off(e)
  BY DEF Off, Flags
<1> DEFINE C == Int
           chars == {Quote}
<1>2. Lexed(p \o <<Quote>>, b) = At("text", <<>>, e, values)
  BY <1>0, Opens
<1>3. Doubles(C, chars, e, b)
  BY <1>0 DEF Doubles, HasMeaning, On, Off, Quote, Backslash
<1> HIDE DEF C, chars
<1>5. \A s \in Seq(C) :
        Lexed(p \o (<<Quote>> \o Doubled(s, chars) \o <<Quote>>), b) = At("quote", s, e, values)
  BY <1>2, <1>3, DoubledLiteral
<1>6. Lexed(p \o (<<Quote>> \o Doubled(str, chars) \o <<Quote>>), b) = At("quote", str, e, values)
  BY <1>5 DEF C
<1>7. QED
  BY <1>6, EndsQuote DEF chars

\* MySQL, where backslashes have a meaning.
LEMMA QuotesBackslashed ==
  ASSUME NEW b \in Flags, On(b), NEW p \in Seq(Int), NEW values, Begins(p, b, values), NEW str \in Seq(Int)
  PROVE  Ends(p \o (<<Quote>> \o Backslashed(str, {Quote, Backslash}) \o <<Quote>>), b, Append(values, str))
<1>0. PICK e \in Flags : Off(e)
  BY DEF Off, Flags
<1> DEFINE C == Int
           chars == {Quote, Backslash}
<1>2. Lexed(p \o <<Quote>>, b) = At("text", <<>>, e, values)
  BY <1>0, Opens
<1>3. Marks(C, chars, e, b)
  BY DEF Marks, HasMeaning
<1> HIDE DEF C, chars
<1>5. \A s \in Seq(C) :
        Lexed(p \o (<<Quote>> \o Backslashed(s, chars) \o <<Quote>>), b) = At("quote", s, e, values)
  BY <1>2, <1>3, BackslashedLiteral
<1>6. Lexed(p \o (<<Quote>> \o Backslashed(str, chars) \o <<Quote>>), b) = At("quote", str, e, values)
  BY <1>5 DEF C
<1>7. QED
  BY <1>6, EndsQuote DEF chars

\* PostgreSQL, where an E in front gives them a meaning.
LEMMA QuotesAfterE ==
  ASSUME NEW b \in Flags, Off(b), NEW p \in Seq(Int), NEW values, Begins(p, b, values), NEW str \in Seq(Int)
  PROVE  Ends(p \o (<<Space, LetterE>> \o (<<Quote>> \o Doubled(str, {Quote, Backslash}) \o <<Quote>>)), b,
              Append(values, str))
<1>0. PICK e \in Flags : On(e)
  BY DEF On, Flags
<1> DEFINE C == Int
           chars == {Quote, Backslash}
           q == p \o <<Space, LetterE>>
<1>2. q \in Seq(Int) /\ Lexed(q \o <<Quote>>, b) = At("text", <<>>, e, values)
  BY <1>0, Opens
<1>3. Doubles(C, chars, e, b)
  BY <1>0 DEF Doubles, HasMeaning, On, Off
<1> DEFINE literal == <<Quote>> \o Doubled(str, chars) \o <<Quote>>
<1>4. literal \in Seq(Int) /\ <<Space, LetterE>> \in Seq(Int)
  <2>1. <<Quote>> \in Seq(Int) /\ <<Space, LetterE>> \in Seq(Int)
    BY DEF Quote, Space, LetterE
  <2>2. \A s \in Seq(Int) : Doubled(s, chars) \in Seq(Int) /\ Len(Doubled(s, chars)) <= 2 * Len(s)
    BY DoubledType
  <2>3. QED
    BY <2>1, <2>2, ConcatProperties
<1>5. p \o (<<Space, LetterE>> \o literal) = q \o literal
  BY <1>4, Assoc
<1>6. Lexed(q \o literal, b) = At("quote", str, e, values)
  <2> HIDE DEF C, chars, q, literal
  <2>1. \A s \in Seq(C) :
          Lexed(q \o (<<Quote>> \o Doubled(s, chars) \o <<Quote>>), b) = At("quote", s, e, values)
    BY <1>2, <1>3, DoubledLiteral
  <2>2. QED
    BY <2>1 DEF literal, C
<1> HIDE DEF C, chars, q, literal
<1>7. Ends(q \o literal, b, Append(values, str))
  BY <1>6, EndsQuote
<1>8. QED
  BY <1>5, <1>7 DEF literal, chars

\* PostgreSQL, for a text without backslashes.
LEMMA QuotesWithoutE ==
  ASSUME NEW b \in Flags, Off(b), NEW p \in Seq(Int), NEW values, Begins(p, b, values),
         NEW str \in Seq(Int \ {Backslash})
  PROVE  Ends(p \o (<<Quote>> \o Doubled(str, {Quote, Backslash}) \o <<Quote>>), b, Append(values, str))
<1>0. PICK e \in Flags : Off(e)
  BY DEF Off, Flags
<1> DEFINE chars == {Quote, Backslash}
           C == Int \ {Backslash}
<1>2. Lexed(p \o <<Quote>>, b) = At("text", <<>>, e, values)
  BY <1>0, Opens
<1>3. Doubles(C, chars, e, b)
  BY <1>0 DEF Doubles, HasMeaning, On, Off
<1>4. str \in Seq(C)
  OBVIOUS
<1> HIDE DEF chars, C
<1>5. \A s \in Seq(C) :
        Lexed(p \o (<<Quote>> \o Doubled(s, chars) \o <<Quote>>), b) = At("quote", s, e, values)
  BY <1>2, <1>3, DoubledLiteral
<1>6. Lexed(p \o (<<Quote>> \o Doubled(str, chars) \o <<Quote>>), b) = At("quote", str, e, values)
  BY <1>4, <1>5
<1>7. QED
  BY <1>6, EndsQuote DEF chars

\* A text without backslashes, wherever they have a meaning.
LEMMA QuotesNoBackslash ==
  ASSUME NEW b \in Flags, NEW p \in Seq(Int), NEW values, Begins(p, b, values),
         NEW str \in Seq(Int \ {Backslash})
  PROVE  Ends(p \o (<<Quote>> \o Doubled(str, {Quote}) \o <<Quote>>), b, Append(values, str))
<1>0. PICK e \in Flags : Off(e)
  BY DEF Off, Flags
<1> DEFINE chars == {Quote}
           C == Int \ {Backslash}
<1>2. Lexed(p \o <<Quote>>, b) = At("text", <<>>, e, values)
  BY <1>0, Opens
<1>3. Doubles(C, chars, e, b)
  BY <1>0 DEF Doubles
<1>4. str \in Seq(C)
  OBVIOUS
<1> HIDE DEF chars, C
<1>5. \A s \in Seq(C) :
        Lexed(p \o (<<Quote>> \o Doubled(s, chars) \o <<Quote>>), b) = At("quote", s, e, values)
  BY <1>2, <1>3, DoubledLiteral
<1>6. Lexed(p \o (<<Quote>> \o Doubled(str, chars) \o <<Quote>>), b) = At("quote", str, e, values)
  BY <1>4, <1>5
<1>7. QED
  BY <1>6, EndsQuote DEF chars

\* A text without quotes and backslashes, as SqlTime writes one.
LEMMA QuotesPlain ==
  ASSUME NEW b \in Flags, NEW p \in Seq(Int), NEW values, Begins(p, b, values),
         NEW text \in Seq(Int \ {Quote, Backslash})
  PROVE  Ends(p \o (<<Quote>> \o text \o <<Quote>>), b, Append(values, text))
<1>0. PICK e \in Flags : Off(e)
  BY DEF Off, Flags
<1> DEFINE C == Int \ {Quote, Backslash}
           q == p \o <<Quote>>
<1>1. e \in Flags /\ Quote \notin C /\ Backslash \notin C /\ C \in SUBSET Int
  OBVIOUS
<1>2. Lexed(q, b) = At("text", <<>>, e, values) /\ q \in Seq(Int)
  <2>1. <<Quote>> \in Seq(Int)
    BY DEF Quote
  <2>2. QED
    BY <2>1, <1>0, Opens, ConcatProperties
<1>3. text \in Seq(C)
  OBVIOUS
<1>4. text \in Seq(Int)
  BY <1>1, <1>3, SeqMonotonic
<1> HIDE DEF C, q
<1>5. \A s \in Seq(C) : Lexed(q \o s, b) = At("text", s, e, values)
  BY <1>1, <1>2, PlainReads
<1>6. Lexed((p \o <<Quote>>) \o text, b) = At("text", text, e, values)
  BY <1>3, <1>5 DEF q
<1>7. Lexed(p \o (<<Quote>> \o text \o <<Quote>>), b) = At("quote", text, e, values)
  BY <1>1, <1>4, <1>6, QuotedReads, SMTT(60)
<1>8. QED
  BY <1>7, EndsQuote

\* A bare word that is not the word NULL, and that word.
LEMMA BareLiteral ==
  ASSUME NEW b \in Flags, NEW p \in Seq(Int), NEW values, Begins(p, b, values),
         NEW text \in Seq(Int \ {Quote, Comma})
  PROVE  Ends(p \o text, b, Append(values, IF text = WordNull THEN NULL ELSE text))
<1>0. PICK e \in Flags : Lexed(p, b) = At("bare", <<>>, e, values)
  BY DEF Begins
<1> DEFINE C == Int \ {Quote, Comma}
<1>1. e \in Flags /\ Quote \notin C /\ Comma \notin C /\ C \in SUBSET Int
  OBVIOUS
<1>3. text \in Seq(C)
  OBVIOUS
<1> HIDE DEF C
<1>4. \A s \in Seq(C) : Lexed(p \o s, b) = At("bare", s, e, values)
  BY <1>0, <1>1, BareReads
<1>5. Lexed(p \o text, b) = At("bare", text, e, values)
  BY <1>3, <1>4
<1>6. QED
  BY <1>5, EndsBare

\* A text with its backslashes, of itself.
LEMMA BackslashedType ==
  ASSUME NEW str \in Seq(Int)
  PROVE  /\ Backslashed(str, {Quote, Backslash}) \in Seq(Int)
         /\ Len(Backslashed(str, {Quote, Backslash})) <= 2 * Len(str)
<1>0. PICK e \in Flags : Off(e)
  BY DEF Off, Flags
<1>1. PICK b \in Flags : On(b)
  BY DEF On, Flags
<1> DEFINE C == Int
           chars == {Quote, Backslash}
           none == <<>>
<1>2. none \in Seq(Int) /\ Begins(none, b, <<>>)
  BY <1>0, LexedEmpty, EmptySeq DEF Begins, Off
<1>3. Marks(C, chars, e, b)
  BY <1>1 DEF Marks, HasMeaning
<1> DEFINE q == none \o <<Quote>>
<1>4. q \in Seq(Int) /\ Lexed(q, b) = At("text", <<>>, e, <<>>)
  <2>1. <<Quote>> \in Seq(Int)
    BY DEF Quote
  <2>2. QED
    BY <1>0, <1>2, <2>1, Opens, ConcatProperties
<1> HIDE DEF C, chars, none, q
<1>5. \A t \in Seq(C) : Backslashed(t, chars) \in Seq(Int) /\ Len(Backslashed(t, chars)) <= 2 * Len(t)
  BY <1>3, <1>4, BackslashedReads
<1>6. QED
  BY <1>5 DEF C, chars

\* Quotes make a text longer by two.
LEMMA LiteralLength ==
  ASSUME NEW body \in Seq(Int)
  PROVE  /\ <<Quote>> \o body \o <<Quote>> \in Seq(Int)
         /\ Len(<<Quote>> \o body \o <<Quote>>) = Len(body) + 2
<1>1. <<Quote>> \in Seq(Int) /\ Len(<<Quote>>) = 1
  BY DEF Quote
<1> DEFINE q == <<Quote>> \o body
<1>2. q \in Seq(Int) /\ Len(q) = 1 + Len(body) /\ Len(body) \in Nat
  BY <1>1, ConcatProperties, LenProperties
<1> HIDE DEF q
<1>3. q \o <<Quote>> \in Seq(Int) /\ Len(q \o <<Quote>>) = Len(body) + 2
  BY <1>1, <1>2, ConcatProperties
<1>4. QED
  BY <1>3 DEF q

----------------------------------------------------------------------------
(* The calendar.                                                          *)

\* Division by a positive number.
LEMMA Quotient ==
  ASSUME NEW n \in Int, NEW k \in Nat, k > 0
  PROVE  /\ n \div k \in Int /\ n % k \in Nat /\ n % k < k /\ n = k * (n \div k) + (n % k)
         /\ n >= 0 => n \div k >= 0
BY SMT

\* The hours, minutes and seconds of a part of a day.
LEMMA ClockFields ==
  ASSUME NEW s \in Nat, s < 86400
  PROVE  /\ s \div 3600 \in Nat /\ s \div 3600 < 24
         /\ (s \div 60) % 60 \in Nat /\ (s \div 60) % 60 < 60 /\ s % 60 \in Nat /\ s % 60 < 60
         /\ 3600 * (s \div 3600) + 60 * ((s \div 60) % 60) + (s % 60) = s
<1> DEFINE m == s \div 60
           h == m \div 60
<1>1. m \in Nat /\ s % 60 \in Nat /\ s % 60 < 60 /\ s = 60 * m + (s % 60)
  BY Quotient
<1>2. h \in Nat /\ m % 60 \in Nat /\ m % 60 < 60 /\ m = 60 * h + (m % 60)
  BY <1>1, Quotient
<1>3. s \div 3600 = h
  BY SMT
<1>4. h < 24
  BY <1>1, <1>2, SMT
<1> HIDE DEF m, h
<1>5. 3600 * h + 60 * (m % 60) + (s % 60) = s
  BY <1>1, <1>2, SMT
<1>6. QED
  BY <1>1, <1>2, <1>3, <1>4, <1>5 DEF m

\* Leap days before a year, and by how much they grow.
LeapDays(y) == y \div 4 - y \div 100 + y \div 400

LEMMA LeapDaysGrow ==
  ASSUME NEW y \in Int
  PROVE  /\ LeapDays(y) \in Int
         /\ LeapDays(y - 1) - 1 <= LeapDays(y) /\ LeapDays(y) <= LeapDays(y - 1) + 2
<1>1. ASSUME NEW k \in Nat, k > 0
      PROVE  y \div k \in Int /\ (y - 1) \div k <= y \div k /\ y \div k <= (y - 1) \div k + 1
  <2> DEFINE a == y \div k
             b == (y - 1) \div k
  <2>1. a \in Int /\ b \in Int
    BY <1>1, Quotient
  <2>2. k * a <= y /\ y < k * a + k /\ k * b <= y - 1 /\ y - 1 < k * b + k
    BY <1>1, Quotient
  <2> HIDE DEF a, b
  <2>3. b <= a /\ a <= b + 1
    <3>1. CASE a + 1 <= b
      <4>1. k * (a + 1) <= k * b
        BY <1>1, <2>1, <3>1, SMT
      <4>2. QED
        BY <1>1, <2>1, <2>2, <4>1, SMT
    <3>2. CASE b + 2 <= a
      <4>1. k * (b + 2) <= k * a
        BY <1>1, <2>1, <3>2, SMT
      <4>2. QED
        BY <1>1, <2>1, <2>2, <4>1, SMT
    <3>3. QED
      BY <2>1, <3>1, <3>2
  <2>4. QED
    BY <2>1, <2>3 DEF a, b
<1>2. QED
  BY <1>1, SMT DEF LeapDays

\* The months in days from the first of March.
LEMMA DaysToMonth ==
  ASSUME NEW y \in Int
  PROVE  /\ DaysTo(y, 1, 1) = 365 * (y - 1) + LeapDays(y - 1) + 306 - 719468
         /\ DaysTo(y, 2, 1) = 365 * (y - 1) + LeapDays(y - 1) + 337 - 719468
         /\ DaysTo(y, 3, 1) = 365 * y + LeapDays(y) - 719468
         /\ DaysTo(y, 4, 1) = 365 * y + LeapDays(y) + 31 - 719468
         /\ DaysTo(y, 5, 1) = 365 * y + LeapDays(y) + 61 - 719468
         /\ DaysTo(y, 6, 1) = 365 * y + LeapDays(y) + 92 - 719468
         /\ DaysTo(y, 7, 1) = 365 * y + LeapDays(y) + 122 - 719468
         /\ DaysTo(y, 8, 1) = 365 * y + LeapDays(y) + 153 - 719468
         /\ DaysTo(y, 9, 1) = 365 * y + LeapDays(y) + 184 - 719468
         /\ DaysTo(y, 10, 1) = 365 * y + LeapDays(y) + 214 - 719468
         /\ DaysTo(y, 11, 1) = 365 * y + LeapDays(y) + 245 - 719468
         /\ DaysTo(y, 12, 1) = 365 * y + LeapDays(y) + 275 - 719468
BY SMT DEF DaysTo, LeapDays

\* The days of a month follow each other.
LEMMA DaysToDay ==
  ASSUME NEW y \in Int, NEW m \in 1 .. 12, NEW d \in Int
  PROVE  DaysTo(y, m, d) = DaysTo(y, m, 1) + d - 1
BY SMT DEF DaysTo

\* No month is longer than 31 days.
LEMMA MonthLength ==
  ASSUME NEW y \in Int, NEW m \in 1 .. 12
  PROVE  /\ DaysTo(y, m, 1) \in Int
         /\ m < 12 => DaysTo(y, m + 1, 1) <= DaysTo(y, m, 1) + 31
         /\ m = 12 => DaysTo(y + 1, 1, 1) = DaysTo(y, m, 1) + 31
<1>1. /\ LeapDays(y) \in Int /\ LeapDays(y - 1) \in Int
      /\ LeapDays(y) <= LeapDays(y - 1) + 2
  BY LeapDaysGrow
<1>2. DaysTo(y + 1, 1, 1) = 365 * y + LeapDays(y) + 306 - 719468
  BY DaysToMonth
<1>3. m \in {1, 2, 3, 4, 5, 6, 7, 8, 9, 10, 11, 12}
  BY SMT
<1> DEFINE D(k) == DaysTo(y, k, 1)
<1>4. /\ \A k \in 1 .. 12 : D(k) \in Int
      /\ D(2) <= D(1) + 31 /\ D(3) <= D(2) + 31 /\ D(4) <= D(3) + 31 /\ D(5) <= D(4) + 31
      /\ D(6) <= D(5) + 31 /\ D(7) <= D(6) + 31 /\ D(8) <= D(7) + 31 /\ D(9) <= D(8) + 31
      /\ D(10) <= D(9) + 31 /\ D(11) <= D(10) + 31 /\ D(12) <= D(11) + 31
      /\ DaysTo(y + 1, 1, 1) = D(12) + 31
  <2>1. \A k \in 1 .. 12 : D(k) \in Int
    BY <1>1, SMT DEF DaysTo
  <2> DEFINE a == LeapDays(y - 1)
             b == LeapDays(y)
  <2>2. /\ D(1) = 365 * (y - 1) + a + 306 - 719468 /\ D(2) = 365 * (y - 1) + a + 337 - 719468
        /\ D(3) = 365 * y + b - 719468 /\ D(4) = 365 * y + b + 31 - 719468
        /\ D(5) = 365 * y + b + 61 - 719468 /\ D(6) = 365 * y + b + 92 - 719468
        /\ D(7) = 365 * y + b + 122 - 719468 /\ D(8) = 365 * y + b + 153 - 719468
        /\ D(9) = 365 * y + b + 184 - 719468 /\ D(10) = 365 * y + b + 214 - 719468
        /\ D(11) = 365 * y + b + 245 - 719468 /\ D(12) = 365 * y + b + 275 - 719468
    BY DaysToMonth
  <2>3. a \in Int /\ b \in Int /\ b <= a + 2 /\ DaysTo(y + 1, 1, 1) = 365 * y + b + 306 - 719468
    BY <1>1, <1>2
  <2> HIDE DEF D, a, b
  <2>4. QED
    BY <2>1, <2>2, <2>3, SMT
<1> HIDE DEF D
<1>5. QED
  BY <1>3, <1>4, SMT DEF D

\* There are about 97 leap days in 400 years.
LEMMA LeapDaysNear ==
  ASSUME NEW n \in Int
  PROVE  97 * n - 1000 < 400 * LeapDays(n) /\ 400 * LeapDays(n) < 97 * n + 400
<1>1. /\ n = 4 * (n \div 4) + (n % 4) /\ n % 4 < 4 /\ n % 4 \in Nat /\ n \div 4 \in Int
      /\ n = 100 * (n \div 100) + (n % 100) /\ n % 100 < 100 /\ n % 100 \in Nat /\ n \div 100 \in Int
      /\ n = 400 * (n \div 400) + (n % 400) /\ n % 400 < 400 /\ n % 400 \in Nat /\ n \div 400 \in Int
  BY Quotient
<1> DEFINE a == n \div 4
           b == n \div 100
           c == n \div 400
           x == n % 4
           y == n % 100
           z == n % 400
<1>2. /\ a \in Int /\ b \in Int /\ c \in Int /\ x \in Nat /\ y \in Nat /\ z \in Nat /\ x < 4 /\ y < 100 /\ z < 400
      /\ n = 4 * a + x /\ n = 100 * b + y /\ n = 400 * c + z
  BY <1>1
<1>3. LeapDays(n) = a - b + c
  BY DEF LeapDays
<1> HIDE DEF a, b, c, x, y, z
<1>4. QED
  BY <1>2, <1>3, SMT

\* The year of gmtime_r() is one of the three that it is sought among.
LEMMA YearFound ==
  ASSUME NEW days \in Int,
         NEW around, around = 1970 + (400 * days) \div 146097
  PROVE  \E y \in around - 1 .. around + 1 : DaysTo(y, 1, 1) <= days /\ days < DaysTo(y + 1, 1, 1)
<1> DEFINE q == (400 * days) \div 146097
           r == (400 * days) % 146097
           D(y) == DaysTo(y, 1, 1)
<1>1. q \in Int /\ r \in Nat /\ r < 146097 /\ 400 * days = 146097 * q + r
  BY Quotient, SMT
<1>2. around \in Int /\ around = 1970 + q
  BY <1>1
<1>3. \A y \in Int : /\ D(y) \in Int
                     /\ 146097 * (y - 1) - 1000 + 400 * (306 - 719468) < 400 * D(y)
                     /\ 400 * D(y) < 146097 * (y - 1) + 400 + 400 * (306 - 719468)
  <2>1. SUFFICES ASSUME NEW y \in Int
                 PROVE  /\ D(y) \in Int
                        /\ 146097 * (y - 1) - 1000 + 400 * (306 - 719468) < 400 * D(y)
                        /\ 400 * D(y) < 146097 * (y - 1) + 400 + 400 * (306 - 719468)
    OBVIOUS
  <2>2. D(y) = 365 * (y - 1) + LeapDays(y - 1) + 306 - 719468
    BY DaysToMonth
  <2>3. y - 1 \in Int /\ LeapDays(y - 1) \in Int
    BY LeapDaysGrow
  <2>4. 97 * (y - 1) - 1000 < 400 * LeapDays(y - 1) /\ 400 * LeapDays(y - 1) < 97 * (y - 1) + 400
    BY <2>3, LeapDaysNear
  <2> HIDE DEF D
  <2>5. QED
    BY <2>2, <2>3, <2>4, SMT
<1> HIDE DEF q, r, D
<1>4. D(around - 1) <= days /\ days < D(around + 2)
  <2>1. around - 1 \in Int /\ around + 2 \in Int
    BY <1>2
  <2>2. /\ D(around - 1) \in Int /\ D(around + 2) \in Int
        /\ 400 * D(around - 1) < 146097 * (around - 2) + 400 + 400 * (306 - 719468)
        /\ 146097 * (around + 1) - 1000 + 400 * (306 - 719468) < 400 * D(around + 2)
    BY <1>2, <1>3, <2>1, SMT
  <2>3. QED
    BY <1>1, <1>2, <2>2, SMT
<1>5. CASE days < D(around)
  <2>1. around - 1 \in around - 1 .. around + 1 /\ (around - 1) + 1 = around
    BY <1>2
  <2>2. QED
    BY <1>4, <1>5, <2>1 DEF D
<1>6. CASE D(around) <= days /\ days < D(around + 1)
  <2>1. around \in around - 1 .. around + 1
    BY <1>2
  <2>2. QED
    BY <1>6, <2>1 DEF D
<1>7. CASE D(around + 1) <= days
  <2>1. around + 1 \in around - 1 .. around + 1 /\ (around + 1) + 1 = around + 2
    BY <1>2
  <2>2. QED
    BY <1>4, <1>7, <2>1 DEF D
<1>8. D(around) \in Int /\ D(around + 1) \in Int
  BY <1>2, <1>3
<1>9. QED
  BY <1>5, <1>6, <1>7, <1>8

\* The last month that begins on a day or before.
LEMMA MonthFound ==
  ASSUME NEW days \in Int, NEW y \in Int, DaysTo(y, 1, 1) <= days
  PROVE  \E m \in 1 .. 12 : DaysTo(y, m, 1) <= days /\ (m = 12 \/ days < DaysTo(y, m + 1, 1))
<1> DEFINE D(m) == DaysTo(y, m, 1)
           F(m) == D(m) <= days /\ (m = 12 \/ days < D(m + 1))
<1>1. \A m \in 1 .. 12 : D(m) \in Int
  BY MonthLength
<1>2. D(1) <= days
  OBVIOUS
<1> HIDE DEF D
<1>3. SUFFICES ASSUME \A m \in 1 .. 12 : ~F(m) PROVE FALSE
  BY DEF D
<1>4. \A m \in 1 .. 11 : D(m) <= days => D(m + 1) <= days
  <2>1. SUFFICES ASSUME NEW m \in 1 .. 11, D(m) <= days PROVE D(m + 1) <= days
    OBVIOUS
  <2>2. m \in 1 .. 12 /\ m + 1 \in 1 .. 12 /\ m # 12
    OBVIOUS
  <2>3. D(m + 1) \in Int
    BY <1>1, <2>2
  <2>4. QED
    BY <1>3, <2>1, <2>2, <2>3
<1>5. D(2) <= days /\ D(3) <= days /\ D(4) <= days /\ D(5) <= days /\ D(6) <= days /\ D(7) <= days
  BY <1>2, <1>4
<1>6. D(8) <= days /\ D(9) <= days /\ D(10) <= days /\ D(11) <= days /\ D(12) <= days
  BY <1>4, <1>5
<1>7. QED
  BY <1>3, <1>6

\* The days that a year of four digits can say.
FourDigits(days) == days \in DaysTo(1000, 1, 1) .. DaysTo(9999, 12, 31)

\* A number from lo to hi.
Within(x, lo, hi) == x \in Int /\ lo <= x /\ x <= hi

\* Fields that strftime() writes with the width of its format.
InRange(tm) ==
  /\ tm.year \in Int /\ tm.mon \in Int
  /\ Within(tm.year + 1900, 1000, 9999) /\ Within(tm.mon + 1, 1, 12) /\ Within(tm.mday, 1, 31)
  /\ Within(tm.hour, 0, 23) /\ Within(tm.min, 0, 59) /\ Within(tm.sec, 0, 59)
  /\ tm = [year |-> tm.year, mon |-> tm.mon, mday |-> tm.mday, hour |-> tm.hour, min |-> tm.min, sec |-> tm.sec]

\* The day of the month that gmtime_r() finds.
LEMMA DayOfMonth ==
  ASSUME NEW y \in Int, NEW m \in 1 .. 12, NEW days \in Int,
         DaysTo(y, m, 1) <= days, days < DaysTo(y + 1, 1, 1), m = 12 \/ days < DaysTo(y, m + 1, 1),
         NEW d, d = days - DaysTo(y, m, 1) + 1
  PROVE  Within(d, 1, 31) /\ DaysTo(y, m, d) = days
<1>1. /\ DaysTo(y, m, 1) \in Int
      /\ m < 12 => DaysTo(y, m + 1, 1) <= DaysTo(y, m, 1) + 31
      /\ m = 12 => DaysTo(y + 1, 1, 1) = DaysTo(y, m, 1) + 31
  BY MonthLength
<1>2. m < 12 => DaysTo(y, m + 1, 1) \in Int
  <2>1. m < 12 => m + 1 \in 1 .. 12
    OBVIOUS
  <2>2. QED
    BY <2>1, MonthLength
<1>3. d \in Int /\ d >= 1
  BY <1>1
<1>4. d <= 31
  <2>1. CASE m = 12
    BY <1>1, <2>1
  <2>2. CASE m # 12
    BY <1>1, <1>2, <2>2
  <2>3. QED
    BY <2>1, <2>2
<1>5. DaysTo(y, m, d) = DaysTo(y, m, 1) + d - 1
  BY <1>3, DaysToDay
<1>6. QED
  BY <1>1, <1>3, <1>4, <1>5 DEF Within

\* A year of four digits.
LEMMA YearOfFour ==
  ASSUME NEW y \in Int, NEW days \in Int, FourDigits(days), DaysTo(y, 1, 1) <= days, days < DaysTo(y + 1, 1, 1)
  PROVE  Within(y, 1000, 9999)
<1>1. DaysTo(1000, 1, 1) = 365 * 999 + 242 + 306 - 719468 /\ DaysTo(9999, 12, 31) = 365 * 9999 + 2424 + 305 - 719468
  BY SMT DEF DaysTo
<1>2. days \in Int /\ days >= 365 * 999 + 242 + 306 - 719468 /\ days <= 365 * 9999 + 2424 + 305 - 719468
  BY <1>1, SMT DEF FourDigits
<1>3. y - 1 \in Int /\ LeapDays(y - 1) \in Int /\ LeapDays(y) \in Int
  BY LeapDaysGrow
<1>4. 97 * (y - 1) - 1000 < 400 * LeapDays(y - 1) /\ 400 * LeapDays(y) < 97 * y + 400
  BY <1>3, LeapDaysNear
<1>5. /\ DaysTo(y, 1, 1) = 365 * (y - 1) + LeapDays(y - 1) + 306 - 719468
      /\ DaysTo(y + 1, 1, 1) = 365 * y + LeapDays(y) + 306 - 719468
  <2>1. y + 1 \in Int /\ (y + 1) - 1 = y
    OBVIOUS
  <2>2. QED
    BY <2>1, DaysToMonth
<1>6. y >= 1000
  <2>1. CASE y = 999
    <3>1. LeapDays(y) = 242
      BY <2>1, SMT DEF LeapDays
    <3>2. QED
      BY <1>2, <1>5, <2>1, <3>1, SMT
  <2>2. CASE y < 999
    BY <1>2, <1>3, <1>4, <1>5, <2>2, SMT
  <2>3. QED
    BY <2>1, <2>2
<1>7. y < 10000
  <2>1. CASE y = 10000
    <3>1. LeapDays(y - 1) = 2424
      BY <2>1, SMT DEF LeapDays
    <3>2. QED
      BY <1>2, <1>5, <2>1, <3>1, SMT
  <2>2. CASE y > 10000
    BY <1>2, <1>3, <1>4, <1>5, <2>2, SMT
  <2>3. QED
    BY <2>1, <2>2
<1>8. QED
  BY <1>6, <1>7 DEF Within

\* The fields that say a date and a time of day.
Broken(y, m, d, h, n, s) ==
  [year |-> y - 1900, mon |-> m - 1, mday |-> d, hour |-> h, min |-> n, sec |-> s]

SecondsOf(y, m, d, h, n, s) == 86400 * DaysTo(y, m, d) + 3600 * h + 60 * n + s

\* A record of such fields.
LEMMA BrokenInRange ==
  ASSUME NEW y, NEW m, NEW d, NEW h, NEW n, NEW s, Within(y, 1000, 9999) /\ Within(m, 1, 12) /\ Within(d, 1, 31),
         Within(h, 0, 23) /\ Within(n, 0, 59) /\ Within(s, 0, 59)
  PROVE  /\ InRange(Broken(y, m, d, h, n, s))
         /\ SecondsTo(Broken(y, m, d, h, n, s)) = SecondsOf(y, m, d, h, n, s)
<1> DEFINE tm == Broken(y, m, d, h, n, s)
<1>1. /\ tm = [year |-> y - 1900, mon |-> m - 1, mday |-> d, hour |-> h, min |-> n, sec |-> s]
      /\ tm.year = y - 1900 /\ tm.mon = m - 1 /\ tm.mday = d /\ tm.hour = h /\ tm.min = n /\ tm.sec = s
  BY DEF Broken
<1> HIDE DEF tm
<1>2. (y - 1900) + 1900 = y /\ (m - 1) + 1 = m /\ y - 1900 \in Int /\ m - 1 \in Int
  BY DEF Within
<1>3. tm.year + 1900 = y /\ tm.mon + 1 = m /\ tm.year \in Int /\ tm.mon \in Int
  BY <1>1, <1>2
<1>4. tm = [year |-> tm.year, mon |-> tm.mon, mday |-> tm.mday, hour |-> tm.hour, min |-> tm.min, sec |-> tm.sec]
  BY <1>1
<1>5. InRange(tm)
  BY <1>1, <1>3, <1>4 DEF InRange
<1>6. QED
  BY <1>1, <1>3, <1>5 DEF SecondsTo, SecondsOf, tm

\* gmtime_r() breaks an instant into fields that are in range and that mktime()
\* puts together to the same instant.
THEOREM GmTimeFields ==
  ASSUME NEW t \in Int, FourDigits(t \div 86400)
  PROVE  InRange(GmTime(t)) /\ SecondsTo(GmTime(t)) = t
<1> DEFINE days == t \div 86400
           secs == t % 86400
           around == 1970 + (400 * days) \div 146097
           year == YearOf(days)
           month == MonthOf(days, year)
           mday == days - DaysTo(year, month, 1) + 1
<1>1. GmTime(t) = [year |-> year - 1900, mon |-> month - 1, mday |-> mday,
                   hour |-> secs \div 3600, min |-> (secs \div 60) % 60, sec |-> secs % 60]
  BY DEF GmTime
<1>2. /\ days \in Int /\ secs \in Nat /\ secs < 86400 /\ t = 86400 * days + secs
  BY Quotient, SMT
<1>3. around \in Int
  BY Quotient, <1>2, SMT
<1> HIDE DEF around
<1>4. /\ year \in around - 1 .. around + 1
      /\ DaysTo(year, 1, 1) <= days /\ days < DaysTo(year + 1, 1, 1)
  <2>1. \E y \in around - 1 .. around + 1 : DaysTo(y, 1, 1) <= days /\ days < DaysTo(y + 1, 1, 1)
    BY <1>2, YearFound DEF around
  <2> HIDE DEF days
  <2>2. QED
    BY <2>1 DEF YearOf, around
<1> HIDE DEF year
<1>5. year \in Int
  BY <1>3, <1>4
<1>6. /\ month \in 1 .. 12
      /\ DaysTo(year, month, 1) <= days /\ (month = 12 \/ days < DaysTo(year, month + 1, 1))
  <2>1. \E m \in 1 .. 12 : DaysTo(year, m, 1) <= days /\ (m = 12 \/ days < DaysTo(year, m + 1, 1))
    BY <1>2, <1>4, <1>5, MonthFound
  <2> HIDE DEF days
  <2>2. QED
    BY <2>1 DEF MonthOf
<1> HIDE DEF month, days, secs
<1>7. Within(mday, 1, 31) /\ DaysTo(year, month, mday) = days
  BY <1>2, <1>4, <1>5, <1>6, DayOfMonth
<1>8. Within(year, 1000, 9999)
  BY <1>2, <1>4, <1>5, YearOfFour DEF days
<1>9. /\ Within(secs \div 3600, 0, 23) /\ Within((secs \div 60) % 60, 0, 59) /\ Within(secs % 60, 0, 59)
      /\ 3600 * (secs \div 3600) + 60 * ((secs \div 60) % 60) + (secs % 60) = secs
  BY <1>2, ClockFields DEF Within
<1> DEFINE h == secs \div 3600
           n == (secs \div 60) % 60
           s == secs % 60
<1>10. GmTime(t) = Broken(year, month, mday, h, n, s)
  BY <1>1 DEF Broken
<1>11. Within(h, 0, 23) /\ Within(n, 0, 59) /\ Within(s, 0, 59) /\ 3600 * h + 60 * n + s = secs
  BY <1>9
<1> HIDE DEF mday, h, n, s
<1>12. InRange(GmTime(t)) /\ SecondsTo(GmTime(t)) = SecondsOf(year, month, mday, h, n, s)
  <2>1. Within(month, 1, 12)
    BY <1>6 DEF Within
  <2>2. QED
    BY <1>7, <1>8, <1>10, <1>11, <2>1, BrokenInRange
<1>13. h \in Int /\ n \in Int /\ s \in Int
  BY <1>11 DEF Within
<1>14. QED
  BY <1>2, <1>7, <1>11, <1>12, <1>13, SMT DEF SecondsOf

----------------------------------------------------------------------------
(* The layout of an instant.                                              *)

\* The codes of the digits of n from the right, the last one first.
Unit(n) == Digit0 + (n % 10)
Ten(n) == Digit0 + ((n \div 10) % 10)

DigitCodes == Digit0 .. Digit0 + 9

\* The last two digits are digits.
LEMMA UnitsAreCodes ==
  ASSUME NEW n \in Nat
  PROVE  Unit(n) \in DigitCodes /\ Ten(n) \in DigitCodes /\ n \div 10 \in Nat /\ n \div 100 \in Nat
BY SMT DEF Unit, Ten, DigitCodes, Digit0

\* A number of two and of four digits, by its places.
LEMMA TwoDigits ==
  ASSUME NEW n \in Nat
  PROVE  /\ Digits(n, 2) \in Seq(DigitCodes) /\ Len(Digits(n, 2)) = 2
         /\ Digits(n, 2)[1] = Ten(n) /\ Digits(n, 2)[2] = Unit(n)
BY DEF Digits, Digit0, DigitCodes, Unit, Ten

LEMMA FourDigitsOf ==
  ASSUME NEW n \in Nat
  PROVE  /\ Digits(n, 4) \in Seq(DigitCodes) /\ Len(Digits(n, 4)) = 4
         /\ Digits(n, 4)[1] = Ten(n \div 100) /\ Digits(n, 4)[2] = Unit(n \div 100)
         /\ Digits(n, 4)[3] = Ten(n) /\ Digits(n, 4)[4] = Unit(n)
<1>1. (n \div 100) \div 10 = n \div 1000
  BY SMT
<1>2. /\ Digits(n, 4) \in Seq(DigitCodes) /\ Len(Digits(n, 4)) = 4
      /\ Digits(n, 4)[1] = Digit0 + ((n \div 1000) % 10) /\ Digits(n, 4)[2] = Digit0 + ((n \div 100) % 10)
      /\ Digits(n, 4)[3] = Digit0 + ((n \div 10) % 10) /\ Digits(n, 4)[4] = Digit0 + (n % 10)
  BY DEF Digits, Digit0, DigitCodes
<1>3. QED
  BY <1>1, <1>2 DEF Unit, Ten

\* What two digits say.
LEMMA TwoDigitsSay ==
  ASSUME NEW n \in Nat, n < 100
  PROVE  (Ten(n) - Digit0) * 10 + (Unit(n) - Digit0) = n
BY SMT DEF Ten, Unit, Digit0

LEMMA FourDigitsSay ==
  ASSUME NEW n \in Nat, n < 10000
  PROVE  100 * ((Ten(n \div 100) - Digit0) * 10 + (Unit(n \div 100) - Digit0))
           + ((Ten(n) - Digit0) * 10 + (Unit(n) - Digit0)) = n
<1> DEFINE c == n \div 100
           r == n % 100
<1>1. c \in Nat /\ c < 100 /\ r \in Nat /\ r < 100 /\ n = 100 * c + r
  BY Quotient, SMT
<1>2. Ten(n) = Ten(r) /\ Unit(n) = Unit(r)
  <2> HIDE DEF c, r
  <2>1. (100 * c + r) % 10 = r % 10
    BY <1>1, SMT
  <2>2. (100 * c + r) \div 10 = 10 * c + (r \div 10)
    BY <1>1, SMT
  <2>3. (10 * c + (r \div 10)) % 10 = (r \div 10) % 10
    BY <1>1, SMT
  <2>4. QED
    BY <1>1, <2>1, <2>2, <2>3 DEF Ten, Unit
<1> HIDE DEF c, r
<1>3. (Ten(c) - Digit0) * 10 + (Unit(c) - Digit0) = c /\ (Ten(r) - Digit0) * 10 + (Unit(r) - Digit0) = r
  BY <1>1, TwoDigitsSay
<1>4. 100 * ((Ten(c) - Digit0) * 10 + (Unit(c) - Digit0)) + ((Ten(r) - Digit0) * 10 + (Unit(r) - Digit0)) = n
  BY <1>1, <1>3
<1>5. QED
  BY <1>2, <1>4 DEF c

\* A text with two digits more.
LEMMA JoinTwo ==
  ASSUME NEW C, DigitCodes \subseteq C, NEW s \in Seq(C), NEW n \in Nat
  PROVE  /\ s \o Digits(n, 2) \in Seq(C) /\ Len(s \o Digits(n, 2)) = Len(s) + 2
         /\ \A i \in 1 .. Len(s) : (s \o Digits(n, 2))[i] = s[i]
         /\ (s \o Digits(n, 2))[Len(s) + 1] = Ten(n) /\ (s \o Digits(n, 2))[Len(s) + 2] = Unit(n)
<1> DEFINE d == Digits(n, 2)
<1>1. d \in Seq(C) /\ Len(d) = 2 /\ d[1] = Ten(n) /\ d[2] = Unit(n)
  BY TwoDigits, SeqMonotonic
<1> HIDE DEF d
<1>2. /\ s \o d \in Seq(C) /\ Len(s \o d) = Len(s) + 2 /\ Len(s) \in Nat
      /\ \A i \in 1 .. Len(s) + Len(d) : (s \o d)[i] = IF i <= Len(s) THEN s[i] ELSE d[i - Len(s)]
  <2>1. d \in Seq(C)
    BY <1>1
  <2>2. /\ s \o d \in Seq(C) /\ Len(s \o d) = Len(s) + Len(d)
        /\ \A i \in 1 .. Len(s) + Len(d) : (s \o d)[i] = IF i <= Len(s) THEN s[i] ELSE d[i - Len(s)]
    BY <2>1, ConcatProperties
  <2>3. QED
    BY <1>1, <2>2, LenProperties
<1>3. Len(s) + 1 \in 1 .. Len(s) + Len(d) /\ Len(s) + 2 \in 1 .. Len(s) + Len(d)
  BY <1>1, <1>2
<1>4. (s \o d)[Len(s) + 1] = d[1] /\ (s \o d)[Len(s) + 2] = d[2]
  BY <1>2, <1>3
<1>5. \A i \in 1 .. Len(s) : (s \o d)[i] = s[i]
  BY <1>1, <1>2
<1>6. QED
  BY <1>1, <1>2, <1>4, <1>5 DEF d

\* The characters of an instant.
TimeCodes == DigitCodes \cup {Hyphen, Space, Colon}

\* A text of k characters, one that ends in a character or in a number of two
\* digits, and what stands in a text still stands in one that begins like it.
Long(C, s, k) == s \in Seq(C) /\ Len(s) = k
EndsIn(t, s, ch) == t = s \o <<ch>>
EndsInTwo(t, s, n) == t = s \o Digits(n, 2)
BeginsAs(t, s, k) == \A i \in Nat : 0 < i /\ i <= k => t[i] = s[i]

\* A number of two digits where a field is.
Field(v, i, n) == v[i] = Ten(n) /\ v[i + 1] = Unit(n)

\* A text with one character more, with two digits more, and of four digits.
LEMMA WithOne ==
  ASSUME NEW C, NEW s, NEW k \in Nat, Long(C, s, k), NEW ch \in C, NEW t, EndsIn(t, s, ch)
  PROVE  Long(C, t, k + 1) /\ t[k + 1] = ch /\ BeginsAs(t, s, k)
<1>1. s \in Seq(C) /\ Len(s) = k
  BY DEF Long
<1>2. s \o <<ch>> = t
  BY DEF EndsIn
<1>3. /\ t \in Seq(C) /\ Len(t) = Len(s) + 1 /\ \A i \in 1 .. Len(s) : t[i] = s[i] /\ t[Len(s) + 1] = ch
  <2>1. t = Append(s, ch)
    BY <1>1, <1>2, AppendIsConcat
  <2>2. QED
    BY <1>1, <2>1, AppendProperties
<1>4. t[k + 1] = ch
  <2>1. t = Append(s, ch)
    BY <1>1, <1>2, AppendIsConcat
  <2>2. QED
    BY <1>1, <2>1, AppendProperties
<1>5. QED
  BY <1>1, <1>3, <1>4 DEF Long, BeginsAs

LEMMA WithTwo ==
  ASSUME NEW C, DigitCodes \subseteq C, NEW s, NEW k \in Nat, Long(C, s, k), NEW n \in Nat,
         NEW t, EndsInTwo(t, s, n)
  PROVE  Long(C, t, k + 2) /\ Field(t, k + 1, n) /\ BeginsAs(t, s, k)
<1>1. s \in Seq(C) /\ Len(s) = k
  BY DEF Long
<1>2. /\ t \in Seq(C) /\ Len(t) = Len(s) + 2 /\ \A i \in 1 .. Len(s) : t[i] = s[i]
      /\ t[Len(s) + 1] = Ten(n) /\ t[Len(s) + 2] = Unit(n)
  <2>1. /\ s \o Digits(n, 2) \in Seq(C) /\ Len(s \o Digits(n, 2)) = Len(s) + 2
        /\ \A i \in 1 .. Len(s) : (s \o Digits(n, 2))[i] = s[i]
        /\ (s \o Digits(n, 2))[Len(s) + 1] = Ten(n) /\ (s \o Digits(n, 2))[Len(s) + 2] = Unit(n)
    BY <1>1, JoinTwo
  <2>2. QED
    BY <2>1 DEF EndsInTwo
<1>3. (k + 1) + 1 = k + 2
  OBVIOUS
<1>4. QED
  BY <1>1, <1>2, <1>3 DEF Long, BeginsAs, Field

LEMMA LongFour ==
  ASSUME NEW C, DigitCodes \subseteq C, NEW n \in Nat
  PROVE  Long(C, Digits(n, 4), 4) /\ Field(Digits(n, 4), 1, n \div 100) /\ Field(Digits(n, 4), 3, n)
<1>1. Digits(n, 4) \in Seq(C)
  BY FourDigitsOf, SeqMonotonic
<1>2. QED
  BY <1>1, FourDigitsOf DEF Long, Field

\* What stands in the beginning of a text stays there.
LEMMA BeginningKept ==
  ASSUME NEW s, NEW t, NEW v, NEW k \in Nat, NEW j \in Nat, k <= j, BeginsAs(t, s, k), BeginsAs(v, t, j)
  PROVE  BeginsAs(v, s, k)
BY DEF BeginsAs

LEMMA FieldKept ==
  ASSUME NEW s, NEW t, NEW k \in Nat, BeginsAs(t, s, k), NEW i \in Nat, 0 < i, i < k, NEW n, Field(s, i, n)
  PROVE  Field(t, i, n)
BY DEF BeginsAs, Field

\* What stands where getUnixTime() looks for its fields.
Says(v, tm, M, D, h, m, s) ==
  /\ Field(v, 1, (tm.year + 1900) \div 100) /\ Field(v, 3, tm.year + 1900)
  /\ Field(v, M, tm.mon + 1) /\ Field(v, D, tm.mday)
  /\ Field(v, h, tm.hour) /\ Field(v, m, tm.min) /\ Field(v, s, tm.sec)

\* What strftime() writes, by its places.
LEMMA StrftimeSays ==
  ASSUME NEW tm, InRange(tm)
  PROVE  /\ Long(TimeCodes, Strftime(tm), 19)
         /\ Says(Strftime(tm), tm, 6, 9, 12, 15, 18)
         /\ Strftime(tm)[5] = Hyphen
<1> DEFINE C == TimeCodes
           Y == tm.year + 1900
           c == Y \div 100
           M == tm.mon + 1
           D == tm.mday
           h == tm.hour
           m == tm.min
           s == tm.sec
           a4 == Digits(Y, 4)
           a5 == a4 \o <<Hyphen>>
           a7 == a5 \o Digits(M, 2)
           a8 == a7 \o <<Hyphen>>
           a10 == a8 \o Digits(D, 2)
           a11 == a10 \o <<Space>>
           a13 == a11 \o Digits(h, 2)
           a14 == a13 \o <<Colon>>
           a16 == a14 \o Digits(m, 2)
           a17 == a16 \o <<Colon>>
           a19 == a17 \o Digits(s, 2)
<1>1. DigitCodes \subseteq C /\ Hyphen \in C /\ Space \in C /\ Colon \in C
  BY DEF TimeCodes
<1>2. Y \in Nat /\ M \in Nat /\ D \in Nat /\ h \in Nat /\ m \in Nat /\ s \in Nat
  BY DEF InRange, Within
<1>3. Strftime(tm) = a19
  BY DEF Strftime
<1>4. /\ EndsIn(a5, a4, Hyphen) /\ EndsInTwo(a7, a5, M) /\ EndsIn(a8, a7, Hyphen) /\ EndsInTwo(a10, a8, D)
      /\ EndsIn(a11, a10, Space) /\ EndsInTwo(a13, a11, h) /\ EndsIn(a14, a13, Colon)
      /\ EndsInTwo(a16, a14, m) /\ EndsIn(a17, a16, Colon) /\ EndsInTwo(a19, a17, s)
  BY DEF EndsIn, EndsInTwo
<1>5. Long(C, a4, 4) /\ Field(a4, 1, c) /\ Field(a4, 3, Y)
  BY <1>1, <1>2, LongFour
<1> HIDE DEF C, Y, c, M, D, h, m, s, a4, a5, a7, a8, a10, a11, a13, a14, a16, a17, a19
<1>6. Long(C, a5, 5) /\ a5[5] = Hyphen /\ BeginsAs(a5, a4, 4)
  BY <1>1, <1>4, <1>5, WithOne
<1>7. Long(C, a7, 7) /\ Field(a7, 6, M) /\ BeginsAs(a7, a5, 5)
  BY <1>1, <1>2, <1>4, <1>6, WithTwo
<1>8. Long(C, a8, 8) /\ BeginsAs(a8, a7, 7)
  BY <1>1, <1>4, <1>7, WithOne
<1>9. Long(C, a10, 10) /\ Field(a10, 9, D) /\ BeginsAs(a10, a8, 8)
  BY <1>1, <1>2, <1>4, <1>8, WithTwo
<1>10. Long(C, a11, 11) /\ BeginsAs(a11, a10, 10)
  BY <1>1, <1>4, <1>9, WithOne
<1>11. Long(C, a13, 13) /\ Field(a13, 12, h) /\ BeginsAs(a13, a11, 11)
  BY <1>1, <1>2, <1>4, <1>10, WithTwo
<1>12. Long(C, a14, 14) /\ BeginsAs(a14, a13, 13)
  BY <1>1, <1>4, <1>11, WithOne
<1>13. Long(C, a16, 16) /\ Field(a16, 15, m) /\ BeginsAs(a16, a14, 14)
  BY <1>1, <1>2, <1>4, <1>12, WithTwo
<1>14. Long(C, a17, 17) /\ BeginsAs(a17, a16, 16)
  BY <1>1, <1>4, <1>13, WithOne
<1>15. Long(C, a19, 19) /\ Field(a19, 18, s) /\ BeginsAs(a19, a17, 17)
  BY <1>1, <1>2, <1>4, <1>14, WithTwo
<1>16. BeginsAs(a19, a16, 16) /\ BeginsAs(a19, a14, 14) /\ BeginsAs(a19, a13, 13)
  BY <1>12, <1>13, <1>14, <1>15, BeginningKept
<1>17. BeginsAs(a19, a11, 11) /\ BeginsAs(a19, a10, 10) /\ BeginsAs(a19, a8, 8) /\ BeginsAs(a19, a7, 7)
  BY <1>8, <1>9, <1>10, <1>11, <1>16, BeginningKept
<1>18. BeginsAs(a19, a5, 5) /\ BeginsAs(a19, a4, 4)
  BY <1>6, <1>7, <1>17, BeginningKept
<1>19. /\ Field(a19, 1, c) /\ Field(a19, 3, Y) /\ Field(a19, 6, M) /\ Field(a19, 9, D)
       /\ Field(a19, 12, h) /\ Field(a19, 15, m)
  BY <1>5, <1>7, <1>9, <1>11, <1>13, <1>16, <1>17, <1>18, FieldKept
<1>20. a19[5] = Hyphen
  BY <1>6, <1>18 DEF BeginsAs
<1>21. QED
  BY <1>3, <1>15, <1>19, <1>20 DEF Says, C, Y, c, M, D, h, m, s

\* The fields that stand in a text, as getUnixTime() puts them together.
FieldAt(v, i) == (v[i] - Digit0) * 10 + (v[i + 1] - Digit0)

TimeAt(v, M, D, h, m, s) ==
  [year |-> 100 * FieldAt(v, 1) + FieldAt(v, 3) - 1900, mon |-> FieldAt(v, M) - 1, mday |-> FieldAt(v, D),
   hour |-> FieldAt(v, h), min |-> FieldAt(v, m), sec |-> FieldAt(v, s)]

\* Two digits where a field is, and all the fields.
LEMMA FieldSays ==
  ASSUME NEW v, NEW i \in Nat, NEW n \in Nat, n < 100, Field(v, i, n)
  PROVE  FieldAt(v, i) = n
BY TwoDigitsSay DEF Field, FieldAt

LEMMA TimeAtSays ==
  ASSUME NEW tm, InRange(tm), NEW v, NEW M \in Nat, NEW D \in Nat, NEW h \in Nat, NEW m \in Nat, NEW s \in Nat,
         Says(v, tm, M, D, h, m, s)
  PROVE  TimeAt(v, M, D, h, m, s) = tm
<1> DEFINE Y == tm.year + 1900
           N == tm.mon + 1
           d == tm.mday
           hh == tm.hour
           mm == tm.min
           ss == tm.sec
<1>1. /\ Y \in Nat /\ Y < 10000 /\ N \in Nat /\ N < 100 /\ d \in Nat /\ d < 100
      /\ hh \in Nat /\ hh < 100 /\ mm \in Nat /\ mm < 100 /\ ss \in Nat /\ ss < 100
  BY DEF InRange, Within
<1>2. Y - 1900 = tm.year /\ N - 1 = tm.mon
  BY DEF InRange
<1>3. tm = [year |-> tm.year, mon |-> tm.mon, mday |-> d, hour |-> hh, min |-> mm, sec |-> ss]
  BY DEF InRange
<1>4. /\ Field(v, 1, Y \div 100) /\ Field(v, 3, Y) /\ Field(v, M, N) /\ Field(v, D, d)
      /\ Field(v, h, hh) /\ Field(v, m, mm) /\ Field(v, s, ss)
  BY DEF Says
<1> HIDE DEF Y, N, d, hh, mm, ss
<1>5. FieldAt(v, M) = N /\ FieldAt(v, D) = d /\ FieldAt(v, h) = hh
  BY <1>1, <1>4, FieldSays
<1>6. FieldAt(v, m) = mm /\ FieldAt(v, s) = ss
  BY <1>1, <1>4, FieldSays
<1>7. 100 * FieldAt(v, 1) + FieldAt(v, 3) = Y /\ FieldAt(v, 1) \in Int /\ FieldAt(v, 3) \in Int
  <2>1. v[1 + 1] = v[2] /\ v[3 + 1] = v[4]
    OBVIOUS
  <2>2. v[1] = Ten(Y \div 100) /\ v[2] = Unit(Y \div 100) /\ v[3] = Ten(Y) /\ v[4] = Unit(Y)
    BY <1>4, <2>1 DEF Field
  <2>3. Y \div 100 \in Nat
    BY <1>1, UnitsAreCodes
  <2>4. v[1] \in Int /\ v[2] \in Int /\ v[3] \in Int /\ v[4] \in Int
    BY <1>1, <2>2, <2>3, UnitsAreCodes DEF DigitCodes, Digit0
  <2>5. FieldAt(v, 1) \in Int /\ FieldAt(v, 3) \in Int
    BY <2>1, <2>4 DEF FieldAt, Digit0
  <2>6. QED
    BY <1>1, <2>1, <2>2, <2>5, FourDigitsSay DEF FieldAt
<1>8. TimeAt(v, M, D, h, m, s) = [year |-> tm.year, mon |-> tm.mon, mday |-> d, hour |-> hh, min |-> mm, sec |-> ss]
  <2>1. 100 * FieldAt(v, 1) + FieldAt(v, 3) - 1900 = tm.year
    BY <1>2, <1>7, SMT
  <2>2. FieldAt(v, M) - 1 = tm.mon
    BY <1>2, <1>5, SMT
  <2>3. QED
    BY <1>5, <1>6, <2>1, <2>2 DEF TimeAt
<1>9. QED
  BY <1>3, <1>8

\* getUnixTime() finds its fields in a text with punctuation and in one without.
LEMMA TimeOfText ==
  ASSUME NEW C, NEW v
  PROVE  /\ Long(C, v, 19) /\ v[5] = Hyphen => TimeOf(v) = Mktime(TimeAt(v, 6, 9, 12, 15, 18))
         /\ Long(C, v, 14) /\ Hyphen \notin C => TimeOf(v) = Mktime(TimeAt(v, 5, 7, 9, 11, 13))
<1>1. ASSUME Long(C, v, 19), v[5] = Hyphen PROVE TimeOf(v) = Mktime(TimeAt(v, 6, 9, 12, 15, 18))
  <2>1. Hyphen \in ToSet(v) /\ Len(v) = 19
    BY <1>1 DEF Long, ToSet
  <2>2. QED
    BY <2>1 DEF TimeOf, TimeAt, FieldAt
<1>2. ASSUME Long(C, v, 14), Hyphen \notin C PROVE TimeOf(v) = Mktime(TimeAt(v, 5, 7, 9, 11, 13))
  <2>1. v \in Seq(C) /\ Len(v) = 14
    BY <1>2 DEF Long
  <2>2. \A i \in DOMAIN v : v[i] # Hyphen
    BY <1>2, <2>1, ElementOfSeq, LenProperties
  <2>3. Hyphen \notin ToSet(v)
    BY <2>2 DEF ToSet
  <2>4. QED
    BY <2>1, <2>3 DEF TimeOf, TimeAt, FieldAt
<1>3. QED
  BY <1>1, <1>2

----------------------------------------------------------------------------
(* The digits of an instant, without its punctuation.                     *)

\* A sequence over a set is one over a larger set.
LEMMA Wider ==
  ASSUME NEW A, NEW B, A \subseteq B
  PROVE  \A s \in Seq(A) : s \in Seq(B)
BY SeqMonotonic

\* Digits are characters, and so are those of an instant.
LEMMA TimeCodesAreInts == \A s \in Seq(TimeCodes) : s \in Seq(Int)
<1>1. TimeCodes \subseteq Int
  BY DEF TimeCodes, DigitCodes, Digit0, Hyphen, Space, Colon
<1>2. QED
  BY <1>1, SeqMonotonic

LEMMA CodesAreInts == \A s \in Seq(DigitCodes) : s \in Seq(Int)
<1>1. DigitCodes \subseteq Int
  BY DEF DigitCodes, Digit0
<1>2. QED
  BY <1>1, SeqMonotonic

KeepTurn(done, ch, par) == IF IsDigit(ch) THEN Append(done, ch) ELSE done

Keeping == INSTANCE FoldLemmas WITH Op <- KeepTurn

Kept(s) == Keeping!Folded(s, 0, <<>>)

\* DigitsOf, a character at a time.
LEMMA DigitsAreKept == \A s : DigitsOf(s) = Kept(s)
BY DEF DigitsOf, FoldLeft, MapThenFoldSet, Max, Kept, KeepTurn, Keeping!Folded, Keeping!FoldLeft,
       Keeping!MapThenFoldSet, Keeping!Max

LEMMA KeptNone == Kept(<<>>) = <<>>
BY Keeping!FoldedEmpty DEF Kept

LEMMA KeptAppend ==
  ASSUME NEW s \in Seq(Int), NEW ch \in Int
  PROVE  Kept(Append(s, ch)) = IF IsDigit(ch) THEN Append(Kept(s), ch) ELSE Kept(s)
BY Keeping!FoldedAppend DEF Kept, KeepTurn

\* Digits alone are kept as they are.
LEMMA KeptDigits == \A s \in Seq(DigitCodes) : Kept(s) = s
<1> DEFINE T == {s \in Seq(DigitCodes) : Kept(s) = s}
<1>1. <<>> \in T
  BY KeptNone
<1>2. ASSUME NEW s \in Seq(DigitCodes), NEW ch \in DigitCodes, s \in T PROVE Append(s, ch) \in T
  <2>1. s \in Seq(Int) /\ ch \in Int /\ IsDigit(ch)
    BY SMT DEF DigitCodes, IsDigit, Digit0
  <2>2. Append(s, ch) \in Seq(DigitCodes)
    BY AppendProperties
  <2>3. QED
    BY <1>2, <2>1, <2>2, KeptAppend
<1> HIDE DEF T
<1>3. \A s \in Seq(DigitCodes) : s \in T
  BY <1>1, <1>2, Keeping!SequencesByAppend
<1>4. QED
  BY <1>3 DEF T

\* The digits of a text that goes on with digits.
LEMMA KeptJoined ==
  ASSUME NEW s \in Seq(Int)
  PROVE  \A t \in Seq(DigitCodes) : Kept(s \o t) = Kept(s) \o t /\ Kept(s) \in Seq(Int)
<1>0. Kept(s) \in Seq(Int)
  <2> DEFINE T == {z \in Seq(Int) : Kept(z) \in Seq(Int)}
  <2>1. <<>> \in T
    BY KeptNone, EmptySeq
  <2>2. ASSUME NEW z \in Seq(Int), NEW ch \in Int, z \in T PROVE Append(z, ch) \in T
    BY <2>2, KeptAppend, AppendProperties
  <2> HIDE DEF T
  <2>3. \A z \in Seq(Int) : z \in T
    BY <2>1, <2>2, Keeping!SequencesByAppend
  <2>4. QED
    BY <2>3 DEF T
<1> DEFINE T == {t \in Seq(DigitCodes) : Kept(s \o t) = Kept(s) \o t}
<1>1. <<>> \in T
  BY <1>0, ConcatEmptySeq, EmptySeq
<1>2. ASSUME NEW t \in Seq(DigitCodes), NEW ch \in DigitCodes, t \in T PROVE Append(t, ch) \in T
  <2>1. t \in Seq(Int) /\ ch \in Int /\ IsDigit(ch)
    BY SMT DEF DigitCodes, IsDigit, Digit0
  <2>2. Append(t, ch) \in Seq(DigitCodes)
    BY AppendProperties
  <2>3. s \o Append(t, ch) = Append(s \o t, ch) /\ s \o t \in Seq(Int)
    BY <2>1, ConcatOne
  <2>4. Kept(s) \o Append(t, ch) = Append(Kept(s) \o t, ch)
    BY <1>0, <2>1, ConcatOne
  <2>5. Kept(Append(s \o t, ch)) = Append(Kept(s \o t), ch)
    BY <2>1, <2>3, KeptAppend
  <2>6. QED
    BY <1>2, <2>2, <2>3, <2>4, <2>5
<1> HIDE DEF T
<1>3. \A t \in Seq(DigitCodes) : t \in T
  BY <1>1, <1>2, Keeping!SequencesByAppend
<1>4. QED
  BY <1>0, <1>3 DEF T

\* A text and the digits in it.
DigitsAre(t, d) == t \in Seq(Int) /\ Kept(t) = d

\* Punctuation adds no digit, and digits add themselves.
LEMMA WithoutOne ==
  ASSUME NEW t, NEW s, NEW d, DigitsAre(s, d), NEW ch, ch \in {Hyphen, Space, Colon}, EndsIn(t, s, ch)
  PROVE  DigitsAre(t, d)
<1>1. ch \in Int /\ ~ IsDigit(ch)
  BY SMT DEF Hyphen, Space, Colon, IsDigit, Digit0
<1>2. t = Append(s, ch) /\ s \in Seq(Int) /\ t \in Seq(Int)
  BY <1>1, ConcatOne DEF EndsIn, DigitsAre
<1>3. QED
  BY <1>1, <1>2, KeptAppend DEF DigitsAre

LEMMA WithDigits ==
  ASSUME NEW t, NEW s, NEW d, DigitsAre(s, d), NEW n \in Nat, EndsInTwo(t, s, n), NEW z, EndsInTwo(z, d, n)
  PROVE  DigitsAre(t, z)
<1> DEFINE two == Digits(n, 2)
<1>1. two \in Seq(DigitCodes) /\ two \in Seq(Int) /\ s \in Seq(Int) /\ Kept(s) = d
  <2>1. two \in Seq(DigitCodes)
    BY TwoDigits
  <2>2. QED
    BY <2>1, CodesAreInts DEF DigitsAre
<1>2. t = s \o two /\ z = d \o two
  BY DEF EndsInTwo
<1> HIDE DEF two
<1>3. t \in Seq(Int)
  BY <1>1, <1>2, ConcatProperties
<1>4. Kept(s \o two) = Kept(s) \o two
  BY <1>1, KeptJoined
<1>5. QED
  BY <1>1, <1>2, <1>3, <1>4 DEF DigitsAre

\* The digits of what strftime() writes, by their places.
LEMMA DigitsSay ==
  ASSUME NEW tm, InRange(tm)
  PROVE  /\ Long(DigitCodes, DigitsOf(Strftime(tm)), 14)
         /\ Says(DigitsOf(Strftime(tm)), tm, 5, 7, 9, 11, 13)
<1> DEFINE C == DigitCodes
           Y == tm.year + 1900
           c == Y \div 100
           M == tm.mon + 1
           D == tm.mday
           h == tm.hour
           m == tm.min
           s == tm.sec
           a4 == Digits(Y, 4)
           a5 == a4 \o <<Hyphen>>
           a7 == a5 \o Digits(M, 2)
           a8 == a7 \o <<Hyphen>>
           a10 == a8 \o Digits(D, 2)
           a11 == a10 \o <<Space>>
           a13 == a11 \o Digits(h, 2)
           a14 == a13 \o <<Colon>>
           a16 == a14 \o Digits(m, 2)
           a17 == a16 \o <<Colon>>
           a19 == a17 \o Digits(s, 2)
           b6 == a4 \o Digits(M, 2)
           b8 == b6 \o Digits(D, 2)
           b10 == b8 \o Digits(h, 2)
           b12 == b10 \o Digits(m, 2)
           b14 == b12 \o Digits(s, 2)
<1>1. DigitCodes \subseteq C
  OBVIOUS
<1>2. Y \in Nat /\ M \in Nat /\ D \in Nat /\ h \in Nat /\ m \in Nat /\ s \in Nat
  BY DEF InRange, Within
<1>3. Strftime(tm) = a19
  BY DEF Strftime
<1>4. /\ EndsIn(a5, a4, Hyphen) /\ EndsInTwo(a7, a5, M) /\ EndsIn(a8, a7, Hyphen) /\ EndsInTwo(a10, a8, D)
      /\ EndsIn(a11, a10, Space) /\ EndsInTwo(a13, a11, h) /\ EndsIn(a14, a13, Colon)
      /\ EndsInTwo(a16, a14, m) /\ EndsIn(a17, a16, Colon) /\ EndsInTwo(a19, a17, s)
  BY DEF EndsIn, EndsInTwo
<1>5. /\ EndsInTwo(b6, a4, M) /\ EndsInTwo(b8, b6, D) /\ EndsInTwo(b10, b8, h) /\ EndsInTwo(b12, b10, m)
      /\ EndsInTwo(b14, b12, s)
  BY DEF EndsInTwo
<1>6. Long(C, a4, 4) /\ Field(a4, 1, c) /\ Field(a4, 3, Y)
  BY <1>1, <1>2, LongFour
<1> HIDE DEF C, Y, c, M, D, h, m, s, a4, a5, a7, a8, a10, a11, a13, a14, a16, a17, a19, b6, b8, b10, b12, b14
<1>7. DigitsAre(a4, a4)
  <2>1. a4 \in Seq(DigitCodes) /\ a4 \in Seq(Int)
    BY <1>6, CodesAreInts DEF Long, C
  <2>2. QED
    BY <2>1, KeptDigits DEF DigitsAre
<1>8. DigitsAre(a5, a4) /\ DigitsAre(a7, b6) /\ DigitsAre(a8, b6) /\ DigitsAre(a10, b8)
  BY <1>2, <1>4, <1>5, <1>7, WithoutOne, WithDigits
<1>9. DigitsAre(a11, b8) /\ DigitsAre(a13, b10) /\ DigitsAre(a14, b10) /\ DigitsAre(a16, b12)
  BY <1>2, <1>4, <1>5, <1>8, WithoutOne, WithDigits
<1>10. DigitsAre(a17, b12) /\ DigitsAre(a19, b14)
  BY <1>2, <1>4, <1>5, <1>9, WithoutOne, WithDigits
<1>11. Long(C, b6, 6) /\ Field(b6, 5, M) /\ BeginsAs(b6, a4, 4)
  BY <1>1, <1>2, <1>5, <1>6, WithTwo
<1>12. Long(C, b8, 8) /\ Field(b8, 7, D) /\ BeginsAs(b8, b6, 6)
  BY <1>1, <1>2, <1>5, <1>11, WithTwo
<1>13. Long(C, b10, 10) /\ Field(b10, 9, h) /\ BeginsAs(b10, b8, 8)
  BY <1>1, <1>2, <1>5, <1>12, WithTwo
<1>14. Long(C, b12, 12) /\ Field(b12, 11, m) /\ BeginsAs(b12, b10, 10)
  BY <1>1, <1>2, <1>5, <1>13, WithTwo
<1>15. Long(C, b14, 14) /\ Field(b14, 13, s) /\ BeginsAs(b14, b12, 12)
  BY <1>1, <1>2, <1>5, <1>14, WithTwo
<1>16. BeginsAs(b14, b10, 10) /\ BeginsAs(b14, b8, 8)
  BY <1>13, <1>14, <1>15, BeginningKept
<1>17. BeginsAs(b14, b6, 6) /\ BeginsAs(b14, a4, 4)
  BY <1>11, <1>12, <1>16, BeginningKept
<1>18. /\ Field(b14, 1, c) /\ Field(b14, 3, Y) /\ Field(b14, 5, M) /\ Field(b14, 7, D)
       /\ Field(b14, 9, h) /\ Field(b14, 11, m)
  BY <1>6, <1>11, <1>12, <1>13, <1>14, <1>15, <1>16, <1>17, FieldKept
<1>19. DigitsOf(Strftime(tm)) = b14
  BY <1>3, <1>10, DigitsAreKept DEF DigitsAre
<1>20. QED
  BY <1>15, <1>18, <1>19 DEF Says, C, Y, c, M, D, h, m, s

\* What getUnixTime() returns for either layout of an instant.
THEOREM InstantsReadBack ==
  ASSUME NEW t \in Int, FourDigits(t \div 86400), NEW v, v \in {Strftime(GmTime(t)), DigitsOf(Strftime(GmTime(t)))}
  PROVE  v # NULL /\ UnixTimeOf(v) = t - Zone
<1> DEFINE tm == GmTime(t)
<1>1. InRange(tm) /\ SecondsTo(tm) = t
  BY GmTimeFields
<1> HIDE DEF tm
<1>2. TimeOf(v) = Mktime(tm) /\ v \in Seq(Int) /\ Len(v) >= TimeLength
  <2>1. CASE v = Strftime(tm)
    <3> DEFINE C == TimeCodes
    <3>1. Long(C, v, 19) /\ Says(v, tm, 6, 9, 12, 15, 18) /\ v[5] = Hyphen
      BY <1>1, <2>1, StrftimeSays
    <3>0. v \in Seq(TimeCodes) /\ Len(v) = 19
      BY <3>1 DEF Long
    <3>2. v \in Seq(Int) /\ Len(v) >= TimeLength
      <4>1. v \in Seq(Int)
        BY <3>0, TimeCodesAreInts
      <4>2. Len(v) >= TimeLength
        BY <3>0 DEF TimeLength
      <4>3. QED
        BY <4>1, <4>2
    <3> HIDE DEF C
    <3>3. TimeOf(v) = Mktime(TimeAt(v, 6, 9, 12, 15, 18))
      BY <3>1, TimeOfText
    <3>4. TimeAt(v, 6, 9, 12, 15, 18) = tm
      BY <1>1, <3>1, TimeAtSays
    <3>5. QED
      BY <3>2, <3>3, <3>4
  <2>2. CASE v = DigitsOf(Strftime(tm))
    <3> DEFINE C == DigitCodes
    <3>1. Long(C, v, 14) /\ Says(v, tm, 5, 7, 9, 11, 13)
      BY <1>1, <2>2, DigitsSay
    <3>0. v \in Seq(DigitCodes) /\ Len(v) = 14
      BY <3>1 DEF Long
    <3>2. v \in Seq(Int) /\ Len(v) >= TimeLength
      <4>1. v \in Seq(Int)
        BY <3>0, CodesAreInts
      <4>2. Len(v) >= TimeLength
        BY <3>0 DEF TimeLength
      <4>3. QED
        BY <4>1, <4>2
    <3>3. Hyphen \notin C
      BY SMT DEF Hyphen, DigitCodes, Digit0
    <3> HIDE DEF C
    <3>4. TimeOf(v) = Mktime(TimeAt(v, 5, 7, 9, 11, 13))
      BY <3>1, <3>3, TimeOfText
    <3>5. TimeAt(v, 5, 7, 9, 11, 13) = tm
      BY <1>1, <3>1, TimeAtSays
    <3>6. QED
      BY <3>2, <3>4, <3>5
  <2>3. QED
    BY <2>1, <2>2 DEF tm
<1>3. v # NULL
  BY <1>2, NullAssumption
<1>4. Mktime(tm) = t - Zone
  BY <1>1 DEF Mktime
<1>5. QED
  BY <1>2, <1>3, <1>4 DEF UnixTimeOf

----------------------------------------------------------------------------
(* An instant in a statement.                                             *)

\* A text between quotes.
Quoted(text) == <<Quote>> \o text \o <<Quote>>

\* strftime() writes neither quotes nor backslashes, and unixtimeToSql() puts it
\* between quotes.
LEMMA TimeText ==
  ASSUME NEW t \in Int, FourDigits(t \div 86400)
  PROVE  /\ Strftime(GmTime(t)) \in Seq(Int \ {Quote, Backslash})
         /\ Strftime(GmTime(t)) \in Seq(Int)
         /\ Strftime(GmTime(t)) # NULL
         /\ SqlTime(t) = Quoted(Strftime(GmTime(t)))
<1> DEFINE text == Strftime(GmTime(t))
           cut == SubSeq(text, 1, 19)
           plain == Int \ {Quote, Backslash}
<1>1. InRange(GmTime(t))
  BY GmTimeFields
<1>2. text \in Seq(TimeCodes) /\ Len(text) = 19
  BY <1>1, StrftimeSays DEF Long
<1>3. SqlTime(t) = Quoted(cut)
  BY DEF SqlTime, Quoted
<1>4. \A ch \in TimeCodes : ch \in plain
  BY SMT DEF TimeCodes, DigitCodes, Digit0, Hyphen, Space, Colon, Quote, Backslash
<1> HIDE DEF text, cut, plain
<1>5. text \in Seq(plain) /\ text \in Seq(Int)
  <2>1. text \in Seq(TimeCodes)
    BY <1>2
  <2>2. TimeCodes \subseteq plain
    BY <1>4
  <2>3. text \in Seq(plain)
    BY <2>1, <2>2, Wider
  <2>5. text \in Seq(Int)
    BY <2>1, TimeCodesAreInts
  <2>6. QED
    BY <2>3, <2>5
<1>6. cut = text
  BY <1>2, SubSeqFull DEF cut
<1>7. text # NULL
  BY <1>5, NullAssumption
<1>8. SqlTime(t) = Quoted(text)
  BY <1>3, <1>6
<1>9. QED
  BY <1>5, <1>7, <1>8 DEF text, plain

\* The literal of an instant is read as its text.
LEMMA QuotesTime ==
  ASSUME NEW b \in Flags, NEW p \in Seq(Int), NEW values, Begins(p, b, values), NEW t \in Int, FourDigits(t \div 86400)
  PROVE  /\ SqlTime(t) \in Seq(Int)
         /\ Ends(p \o SqlTime(t), b, Append(values, Strftime(GmTime(t))))
<1> DEFINE text == Strftime(GmTime(t))
           plain == Int \ {Quote, Backslash}
<1>1. text \in Seq(plain) /\ text \in Seq(Int) /\ SqlTime(t) = Quoted(text)
  BY TimeText
<1>2. \A s \in Seq(plain) : Ends(p \o Quoted(s), b, Append(values, s))
  BY QuotesPlain DEF Quoted
<1> HIDE DEF text, plain
<1>3. Quoted(text) \in Seq(Int)
  <2>1. <<Quote>> \in Seq(Int)
    BY DEF Quote
  <2>2. QED
    BY <1>1, <2>1, ConcatProperties DEF Quoted
<1>4. Ends(p \o Quoted(text), b, Append(values, text))
  BY <1>1, <1>2
<1>5. QED
  BY <1>1, <1>3, <1>4 DEF text

----------------------------------------------------------------------------
(* Decimal numbers.                                                       *)

CountTurn(done, ch, par) == done * 10 + ch - Digit0

Counting == INSTANCE FoldLemmas WITH Op <- CountTurn

Counted(s) == Counting!Folded(s, 0, 0)

\* What no digits say, and one digit more.
LEMMA CountedNone == Counted(<<>>) = 0
BY Counting!FoldedEmpty DEF Counted

LEMMA CountedAppend ==
  ASSUME NEW s \in Seq(DigitCodes), NEW ch \in DigitCodes
  PROVE  Counted(Append(s, ch)) = Counted(s) * 10 + ch - Digit0
BY Counting!FoldedAppend DEF Counted, CountTurn

\* The powers of ten up to 100000.
LEMMA Powers == 10 ^ 0 = 1 /\ 10 ^ 1 = 10 /\ 10 ^ 2 = 100 /\ 10 ^ 3 = 1000 /\ 10 ^ 4 = 10000 /\ 10 ^ 5 = 100000
OBVIOUS

\* A number of one digit.
LEMMA OneDigit ==
  ASSUME NEW m \in Nat
  PROVE  Digits(m, 1) = Append(<<>>, Unit(m))
BY Powers DEF Digits, Unit, Digit0

\* A number without its last j digits.
Shifted(m, j) == m \div 10 ^ j

\* The digits of a number, by what is left of it.
LEMMA ShiftedMore ==
  ASSUME NEW m \in Nat, NEW j, j \in {0, 1, 2, 3}
  PROVE  Shifted(m, j + 1) = Shifted(m \div 10, j) /\ Shifted(m, 0) = m
<1>1. /\ (m \div 10) \div 1 = m \div 10 /\ (m \div 10) \div 10 = m \div 100
      /\ (m \div 10) \div 100 = m \div 1000 /\ (m \div 10) \div 1000 = m \div 10000
      /\ m \div 1 = m
  BY SMT
<1>2. /\ Shifted(m, 0) = m /\ Shifted(m, 1) = m \div 10 /\ Shifted(m, 2) = m \div 100
      /\ Shifted(m, 3) = m \div 1000 /\ Shifted(m, 4) = m \div 10000
  BY <1>1, SMT DEF Shifted
<1> DEFINE q == m \div 10
<1>3. /\ Shifted(q, 0) = q \div 1 /\ Shifted(q, 1) = q \div 10 /\ Shifted(q, 2) = q \div 100
      /\ Shifted(q, 3) = q \div 1000
  BY SMT DEF Shifted
<1>4. /\ Shifted(m, 1) = Shifted(q, 0) /\ Shifted(m, 2) = Shifted(q, 1)
      /\ Shifted(m, 3) = Shifted(q, 2) /\ Shifted(m, 4) = Shifted(q, 3)
  BY <1>1, <1>2, <1>3
<1> HIDE DEF q
<1>5. Shifted(m, j + 1) = Shifted(q, j)
  <2>1. 0 + 1 = 1 /\ 1 + 1 = 2 /\ 2 + 1 = 3 /\ 3 + 1 = 4
    OBVIOUS
  <2>2. QED
    BY <1>4, <2>1
<1>6. QED
  BY <1>2, <1>5 DEF q

LEMMA DigitAt ==
  ASSUME NEW m, NEW k \in Nat
  PROVE  /\ DOMAIN Digits(m, k) = 1 .. k
         /\ \A i \in 1 .. k : Digits(m, k)[i] = Digit0 + (Shifted(m, k - i) % 10)
BY DEF Digits, Shifted

\* Sequences that agree in every place.
LEMMA SameByPlaces ==
  ASSUME NEW a, NEW k \in Nat, a \in Seq(Int), Len(a) = k + 1, NEW b, b \in Seq(Int), Len(b) = k,
         \A i \in 1 .. k : a[i] = b[i], NEW u \in Int, a[k + 1] = u
  PROVE  a = Append(b, u)
<1> DEFINE c == Append(b, u)
<1>1. c \in Seq(Int) /\ Len(c) = k + 1 /\ c[k + 1] = u /\ \A i \in 1 .. k : c[i] = b[i]
  BY AppendProperties
<1> HIDE DEF c
<1>2. \A i \in 1 .. k + 1 : a[i] = c[i]
  BY <1>1
<1>3. a = c
  BY <1>1, <1>2, SeqEqual
<1>4. QED
  BY <1>3 DEF c

\* The digits of a number are those of its tenth and its last digit.
LEMMA MoreDigits ==
  ASSUME NEW m \in Nat, NEW k \in Nat, k < 5, k > 0
  PROVE  Digits(m, k + 1) = Append(Digits(m \div 10, k), Unit(m))
<1> DEFINE q == m \div 10
           a == Digits(m, k + 1)
           b == Digits(q, k)
           u == Unit(m)
<1>1. a \in Seq(Int) /\ Len(a) = k + 1 /\ b \in Seq(Int) /\ Len(b) = k
  BY DEF Digits, Digit0
<1>2. /\ \A i \in 1 .. k + 1 : a[i] = Digit0 + (Shifted(m, k + 1 - i) % 10)
      /\ \A i \in 1 .. k : b[i] = Digit0 + (Shifted(q, k - i) % 10)
  BY DigitAt
<1>3. \A j \in {0, 1, 2, 3} : Shifted(m, j + 1) = Shifted(q, j)
  BY ShiftedMore
<1>4. Shifted(m, 0) = m
  BY ShiftedMore
<1>5. u = Digit0 + (m % 10) /\ u \in Int
  BY DEF Unit, Digit0
<1> HIDE DEF q, a, b, u
<1>6. \A i \in 1 .. k : a[i] = b[i]
  <2>1. SUFFICES ASSUME NEW i \in 1 .. k PROVE a[i] = b[i]
    OBVIOUS
  <2> DEFINE j == k - i
  <2>2. j \in {0, 1, 2, 3} /\ k + 1 - i = j + 1 /\ i \in 1 .. k + 1
    OBVIOUS
  <2> HIDE DEF j
  <2>3. a[i] = Digit0 + (Shifted(m, j + 1) % 10)
    BY <1>2, <2>2
  <2>4. b[i] = Digit0 + (Shifted(q, j) % 10)
    BY <1>2 DEF j
  <2>5. QED
    BY <1>3, <2>2, <2>3, <2>4
<1>7. a[k + 1] = u
  <2>1. k + 1 - (k + 1) = 0 /\ k + 1 \in 1 .. k + 1
    OBVIOUS
  <2>2. a[k + 1] = Digit0 + (Shifted(m, 0) % 10)
    BY <1>2, <2>1
  <2>3. QED
    BY <1>4, <1>5, <2>2
<1>8. QED
  BY <1>1, <1>5, <1>6, <1>7, SameByPlaces DEF q, a, b, u

\* Digits that say a number.
Count(s, m) == s \in Seq(DigitCodes) /\ s # <<>> /\ Counted(s) = m

\* One digit, one digit more, and up to five digits.
LEMMA CountOne ==
  ASSUME NEW m \in Nat, m < 10
  PROVE  Count(Digits(m, 1), m)
<1>1. Unit(m) \in DigitCodes /\ Unit(m) - Digit0 = m
  BY SMT DEF Unit, DigitCodes, Digit0
<1> DEFINE u == Unit(m)
<1>2. Digits(m, 1) = Append(<<>>, u)
  BY OneDigit
<1>3. u \in DigitCodes /\ u - Digit0 = m
  BY <1>1
<1> HIDE DEF u
<1>4. <<>> \in Seq(DigitCodes)
  BY EmptySeq
<1>5. Append(<<>>, u) \in Seq(DigitCodes) /\ Append(<<>>, u) # <<>>
  BY <1>3
<1>6. Counted(Append(<<>>, u)) = Counted(<<>>) * 10 + u - Digit0
  BY <1>3, <1>4, CountedAppend
<1>7. 0 * 10 + m = m
  OBVIOUS
<1>8. QED
  BY <1>2, <1>3, <1>5, <1>6, <1>7, CountedNone DEF Count

LEMMA CountMore ==
  ASSUME NEW m \in Nat, NEW s, Count(s, m \div 10)
  PROVE  Count(Append(s, Unit(m)), m)
<1> DEFINE u == Unit(m)
           q == m \div 10
<1>1. u \in DigitCodes /\ q * 10 + (u - Digit0) = m
  BY SMT DEF Unit, DigitCodes, Digit0
<1>2. s \in Seq(DigitCodes) /\ Counted(s) = q
  BY DEF Count
<1> HIDE DEF u, q
<1>3. Append(s, u) \in Seq(DigitCodes) /\ Append(s, u) # <<>>
  BY <1>1, <1>2, AppendProperties
<1>4. Counted(Append(s, u)) = Counted(s) * 10 + u - Digit0
  BY <1>1, <1>2, CountedAppend
<1>5. QED
  BY <1>1, <1>2, <1>3, <1>4 DEF Count, u

LEMMA CountLonger ==
  ASSUME NEW k \in Nat, 0 < k, k < 5, NEW m \in Nat, Count(Digits(m \div 10, k), m \div 10)
  PROVE  Count(Digits(m, k + 1), m)
<1>1. Digits(m, k + 1) = Append(Digits(m \div 10, k), Unit(m))
  BY MoreDigits
<1> DEFINE s == Digits(m \div 10, k)
<1>2. Count(s, m \div 10) /\ Digits(m, k + 1) = Append(s, Unit(m))
  BY <1>1
<1> HIDE DEF s
<1>3. Count(Append(s, Unit(m)), m)
  BY <1>2, CountMore
<1>4. QED
  BY <1>2, <1>3

LEMMA CountDigits ==
  /\ \A m \in Nat : m < 10 => Count(Digits(m, 1), m)
  /\ \A m \in Nat : m < 100 => Count(Digits(m, 2), m)
  /\ \A m \in Nat : m < 1000 => Count(Digits(m, 3), m)
  /\ \A m \in Nat : m < 10000 => Count(Digits(m, 4), m)
  /\ \A m \in Nat : m < 100000 => Count(Digits(m, 5), m)
<1>1. \A m \in Nat : m < 10 => Count(Digits(m, 1), m)
  BY CountOne
<1>2. \A m \in Nat : /\ m \div 10 \in Nat /\ (m < 100 => m \div 10 < 10) /\ (m < 1000 => m \div 10 < 100)
                     /\ (m < 10000 => m \div 10 < 1000) /\ (m < 100000 => m \div 10 < 10000)
  BY SMT
<1>3. /\ \A m \in Nat : Count(Digits(m \div 10, 1), m \div 10) => Count(Digits(m, 2), m)
      /\ \A m \in Nat : Count(Digits(m \div 10, 2), m \div 10) => Count(Digits(m, 3), m)
      /\ \A m \in Nat : Count(Digits(m \div 10, 3), m \div 10) => Count(Digits(m, 4), m)
      /\ \A m \in Nat : Count(Digits(m \div 10, 4), m \div 10) => Count(Digits(m, 5), m)
  <2>1. 1 + 1 = 2 /\ 2 + 1 = 3 /\ 3 + 1 = 4 /\ 4 + 1 = 5
    OBVIOUS
  <2>2. \A k \in {1, 2, 3, 4} : \A m \in Nat : Count(Digits(m \div 10, k), m \div 10) => Count(Digits(m, k + 1), m)
    BY CountLonger
  <2>3. QED
    BY <2>1, <2>2
<1>4. \A m \in Nat : m < 100 => Count(Digits(m, 2), m)
  BY <1>1, <1>2, <1>3
<1>5. \A m \in Nat : m < 1000 => Count(Digits(m, 3), m)
  BY <1>2, <1>3, <1>4
<1>6. \A m \in Nat : m < 10000 => Count(Digits(m, 4), m)
  BY <1>2, <1>3, <1>5
<1>7. \A m \in Nat : m < 100000 => Count(Digits(m, 5), m)
  BY <1>2, <1>3, <1>6
<1>8. QED
  BY <1>1, <1>4, <1>5, <1>6, <1>7

\* What atoi() makes of digits.
LEMMA SaidIsCounted == \A s : Said(s) = Counted(s)
BY DEF Said, FoldLeft, MapThenFoldSet, Max, Counted, CountTurn, Counting!Folded, Counting!FoldLeft,
       Counting!MapThenFoldSet, Counting!Max

\* The digits of a text that ends with them.
LEMMA PastLast ==
  ASSUME NEW s \in Seq(Int), NEW first \in Nat, first > 0, first <= Len(s) + 1,
         \A j \in first .. Len(s) : IsDigit(s[j])
  PROVE  PastDigits(s, first) = Len(s) + 1
<1> DEFINE n == Len(s)
           Past(i) == /\ \A j \in first .. i - 1 : IsDigit(s[j])
                      /\ i = n + 1 \/ ~ IsDigit(s[i])
           past == CHOOSE i \in first .. n + 1 : Past(i)
<1>1. n \in Nat /\ n + 1 \in first .. n + 1 /\ n + 1 - 1 = n
  BY LenProperties
<1>2. Past(n + 1)
  BY <1>1
<1>3. past \in first .. n + 1 /\ Past(past)
  BY <1>1, <1>2
<1>4. PastDigits(s, first) = past
  BY DEF PastDigits
<1>5. \A j \in first .. n : IsDigit(s[j])
  OBVIOUS
<1> HIDE DEF n, past
<1>6. past = n + 1
  BY <1>1, <1>3, <1>5
<1>7. QED
  BY <1>4, <1>6 DEF n

\* atoi() of digits, without and with a sign.
LEMMA AtoiDigits ==
  ASSUME NEW m \in Nat, NEW s, Count(s, m)
  PROVE  Atoi(s) = m
<1>1. s \in Seq(DigitCodes) /\ s \in Seq(Int) /\ s # <<>> /\ Counted(s) = m
  BY CodesAreInts DEF Count
<1>2. \A j \in 1 .. Len(s) : s[j] \in DigitCodes
  BY <1>1, ElementOfSeq
<1>3. \A ch \in DigitCodes : IsDigit(ch) /\ ch # Hyphen
  BY SMT DEF DigitCodes, IsDigit, Digit0, Hyphen
<1>4. Len(s) \in Nat /\ Len(s) > 0
  BY <1>1, EmptySeq, LenProperties
<1>5. s[1] # Hyphen
  BY <1>2, <1>3, <1>4
<1>6. PastDigits(s, 1) = Len(s) + 1
  BY <1>1, <1>2, <1>3, <1>4, PastLast
<1>7. SubSeq(s, 1, PastDigits(s, 1) - 1) = s
  BY <1>1, <1>4, <1>6, SubSeqFull
<1>8. s # NULL
  BY <1>1, NullAssumption
<1>9. QED
  BY <1>1, <1>5, <1>7, <1>8, SaidIsCounted DEF Atoi

LEMMA AtoiMinus ==
  ASSUME NEW m \in Nat, NEW s, Count(s, m)
  PROVE  Atoi(<<Hyphen>> \o s) = -m
<1> DEFINE t == <<Hyphen>> \o s
<1>1. s \in Seq(DigitCodes) /\ s \in Seq(Int) /\ s # <<>> /\ Counted(s) = m
  BY CodesAreInts DEF Count
<1>2. \A j \in 1 .. Len(s) : s[j] \in DigitCodes
  BY <1>1, ElementOfSeq
<1>3. \A ch \in DigitCodes : IsDigit(ch)
  BY SMT DEF DigitCodes, IsDigit, Digit0
<1>4. <<Hyphen>> \in Seq(Int) /\ Len(<<Hyphen>>) = 1 /\ <<Hyphen>>[1] = Hyphen
  BY DEF Hyphen
<1>5. /\ t \in Seq(Int) /\ Len(t) = 1 + Len(s) /\ t[1] = Hyphen
      /\ \A j \in 2 .. Len(s) + 1 : t[j] = s[j - 1]
  <2>1. t \in Seq(Int) /\ Len(t) = 1 + Len(s)
    BY <1>1, <1>4, ConcatProperties
  <2>2. \A j \in 1 .. 1 + Len(s) : t[j] = IF j <= 1 THEN <<Hyphen>>[j] ELSE s[j - 1]
    BY <1>1, <1>4, ConcatProperties
  <2>3. Len(s) \in Nat
    BY <1>1, LenProperties
  <2> HIDE DEF t
  <2>4. t[1] = Hyphen
    BY <1>4, <2>2, <2>3
  <2>5. \A j \in 2 .. Len(s) + 1 : t[j] = s[j - 1]
    BY <2>2, <2>3
  <2>6. QED
    BY <2>1, <2>4, <2>5
<1> HIDE DEF t
<1>6. Len(s) \in Nat /\ t # <<>>
  BY <1>1, <1>5, EmptySeq, LenProperties
<1>7. \A j \in 2 .. Len(t) : IsDigit(t[j])
  <2>1. SUFFICES ASSUME NEW j \in 2 .. Len(t) PROVE IsDigit(t[j])
    OBVIOUS
  <2>2. j - 1 \in 1 .. Len(s) /\ t[j] = s[j - 1]
    BY <1>5, <1>6
  <2>3. QED
    BY <1>2, <1>3, <2>2
<1>8. PastDigits(t, 2) = Len(t) + 1
  BY <1>5, <1>6, <1>7, PastLast
<1>9. SubSeq(t, 2, Len(t)) = s
  <2> DEFINE u == SubSeq(t, 2, Len(t))
             n == Len(s)
  <2>1. n \in Nat /\ Len(t) = n + 1
    BY <1>5, <1>6
  <2>2. u \in Seq(Int) /\ Len(u) = n /\ \A i \in 1 .. n : u[i] = t[i + 1]
    <3> HIDE DEF n
    <3>1. 2 \in 1 .. Len(t) + 1 /\ Len(t) \in 2 - 1 .. Len(t)
      BY <2>1
    <3>2. /\ u \in Seq(Int) /\ Len(u) = IF 2 <= Len(t) THEN Len(t) - 2 + 1 ELSE 0
          /\ \A i \in 1 .. Len(t) - 2 + 1 : u[i] = t[2 + i - 1]
      BY <1>5, <3>1, SubSeqProperties
    <3>3. QED
      BY <2>1, <3>2
  <2>3. \A i \in 1 .. n : t[i + 1] = s[i]
    BY <1>5, <2>1
  <2>4. s \in Seq(Int) /\ Len(s) = n
    BY <1>1
  <2> HIDE DEF u, n
  <2>5. u = s
    BY <2>1, <2>2, <2>3, <2>4, SeqEqual
  <2>6. QED
    BY <2>5 DEF u
<1>10. t # NULL
  BY <1>5, NullAssumption
<1>11. Len(t) + 1 - 1 = Len(t)
  BY <1>5, <1>6
<1> DEFINE cut == SubSeq(t, 2, PastDigits(t, 2) - 1)
<1>12. Atoi(t) = -Said(cut)
  BY <1>5, <1>6, <1>10 DEF Atoi
<1>13. cut = s
  BY <1>8, <1>9, <1>11
<1> HIDE DEF cut
<1>14. QED
  BY <1>1, <1>12, <1>13, SaidIsCounted DEF t

----------------------------------------------------------------------------
(* Numbers and truth values in a statement and in a column.               *)

\* A bare word that the server takes for itself.
Bare(text) == text \in Seq(Int \ {Quote, Comma}) /\ text \in Seq(Int) /\ text # WordNull

\* Digits, with and without a sign, are a bare word.
LEMMA CountBare ==
  ASSUME NEW m, NEW s, Count(s, m)
  PROVE  Bare(s)
<1> DEFINE C == Int \ {Quote, Comma}
<1>1. s \in Seq(DigitCodes) /\ s # <<>> /\ s \in Seq(Int)
  BY CodesAreInts DEF Count
<1>2. \A ch \in DigitCodes : ch \in C
  BY SMT DEF DigitCodes, Digit0, Quote, Comma
<1>3. s[1] \in DigitCodes
  <2>1. Len(s) \in Nat /\ Len(s) > 0
    BY <1>1, EmptySeq, LenProperties
  <2>2. QED
    BY <1>1, <2>1, ElementOfSeq
<1>4. s # WordNull
  <2>1. WordNull[1] \notin DigitCodes
    BY SMT DEF WordNull, DigitCodes, Digit0
  <2>2. QED
    BY <1>3, <2>1
<1> HIDE DEF C
<1>5. s \in Seq(C)
  BY <1>1, <1>2, Wider
<1>6. QED
  BY <1>1, <1>4, <1>5 DEF Bare, C

LEMMA MinusBare ==
  ASSUME NEW m, NEW s, Count(s, m)
  PROVE  Bare(<<Hyphen>> \o s)
<1> DEFINE C == Int \ {Quote, Comma}
           t == <<Hyphen>> \o s
<1>1. s \in Seq(C) /\ s \in Seq(Int) /\ s # <<>>
  BY CountBare DEF Bare, Count
<1>2. <<Hyphen>> \in Seq(C) /\ <<Hyphen>> \in Seq(Int) /\ Len(<<Hyphen>>) = 1 /\ <<Hyphen>>[1] = Hyphen
  BY DEF Hyphen, Quote, Comma
<1> HIDE DEF C
<1>3. t \in Seq(C) /\ t \in Seq(Int)
  BY <1>1, <1>2, ConcatProperties
<1>4. t[1] = Hyphen
  <2>1. \A j \in 1 .. 1 + Len(s) : t[j] = IF j <= 1 THEN <<Hyphen>>[j] ELSE s[j - 1]
    BY <1>1, <1>2, ConcatProperties
  <2>2. Len(s) \in Nat
    BY <1>1, LenProperties
  <2> HIDE DEF t
  <2>3. QED
    BY <1>2, <2>1, <2>2
<1> HIDE DEF t
<1>5. t # WordNull
  <2>1. WordNull[1] # Hyphen
    BY DEF WordNull, Hyphen
  <2>2. QED
    BY <1>4, <2>1
<1>6. QED
  BY <1>3, <1>5 DEF Bare, C, t

\* The number of digits that Decimal takes.
LEMMA SizeFound ==
  ASSUME NEW m \in Nat, m < 100000
  PROVE  Count(Digits(m, CHOOSE k \in 1 .. 5 : (k = 5 \/ m < 10 ^ k) /\ (k = 1 \/ m >= 10 ^ (k - 1))), m)
<1> DEFINE Fits(k) == (k = 5 \/ m < 10 ^ k) /\ (k = 1 \/ m >= 10 ^ (k - 1))
           K == 1 .. 5
           size == CHOOSE k \in K : Fits(k)
<1>1. /\ Fits(1) <=> m < 10
      /\ Fits(2) <=> m < 100 /\ m >= 10
      /\ Fits(3) <=> m < 1000 /\ m >= 100
      /\ Fits(4) <=> m < 10000 /\ m >= 1000
      /\ Fits(5) <=> m >= 10000
  BY Powers
<1>2. SUFFICES Count(Digits(m, size), m)
  OBVIOUS
<1> HIDE DEF Fits
<1>3. \E k \in K : Fits(k)
  BY <1>1
<1> HIDE DEF K
<1>4. size \in K /\ Fits(size)
  BY <1>3
<1> HIDE DEF size
<1>5. size \in {1, 2, 3, 4, 5}
  BY <1>4 DEF K
<1>6. CASE size = 1
  <2>1. m < 10
    BY <1>1, <1>4, <1>6
  <2>2. QED
    BY <1>6, <2>1, CountDigits
<1>7. CASE size = 2
  <2>1. m < 100
    BY <1>1, <1>4, <1>7
  <2>2. QED
    BY <1>7, <2>1, CountDigits
<1>8. CASE size = 3
  <2>1. m < 1000
    BY <1>1, <1>4, <1>8
  <2>2. QED
    BY <1>8, <2>1, CountDigits
<1>9. CASE size = 4
  <2>1. m < 10000
    BY <1>1, <1>4, <1>9
  <2>2. QED
    BY <1>9, <2>1, CountDigits
<1>10. CASE size = 5
  BY <1>10, CountDigits
<1>11. QED
  BY <1>5, <1>6, <1>7, <1>8, <1>9, <1>10

\* operator<< writes the digits of a number, with a sign for a negative one.
LEMMA DecimalText ==
  ASSUME NEW n \in Int, Abs(n) < 100000
  PROVE  \E s : /\ Count(s, Abs(n))
                /\ n < 0 => Decimal(n) = <<Hyphen>> \o s
                /\ ~ (n < 0) => Decimal(n) = s
<1> DEFINE m == Abs(n)
           size == CHOOSE k \in 1 .. 5 : (k = 5 \/ m < 10 ^ k) /\ (k = 1 \/ m >= 10 ^ (k - 1))
           s == Digits(m, size)
<1>1. m \in Nat /\ m < 100000
  BY DEF Abs
<1>2. Decimal(n) = (IF n < 0 THEN <<Hyphen>> ELSE <<>>) \o s
  BY DEF Decimal
<1> HIDE DEF m
<1>3. Count(s, m)
  BY <1>1, SizeFound
<1> HIDE DEF s
<1>4. <<>> \o s = s
  <2>1. s \in Seq(DigitCodes)
    BY <1>3 DEF Count
  <2>2. QED
    BY <2>1, ConcatEmptySeq
<1>5. n < 0 => Decimal(n) = <<Hyphen>> \o s
  BY <1>2
<1>6. ~ (n < 0) => Decimal(n) = s
  <2> SUFFICES ASSUME ~ (n < 0) PROVE Decimal(n) = s
    OBVIOUS
  <2>1. Decimal(n) = <<>> \o s
    BY <1>2
  <2>2. QED
    BY <1>4, <2>1
<1>7. QED
  BY <1>3, <1>5, <1>6 DEF m

\* The text of a number is a bare word that the server reads as it stands, and
\* atoi() gives the number back.
THEOREM DecimalReads ==
  ASSUME NEW n \in Int, Abs(n) < 100000
  PROVE  Bare(Decimal(n)) /\ Atoi(Decimal(n)) = n
<1> DEFINE m == Abs(n)
<1>1. m \in Nat /\ (n < 0 => n = -m) /\ (n >= 0 => n = m)
  BY DEF Abs
<1>2. PICK s : Count(s, m) /\ (n < 0 => Decimal(n) = <<Hyphen>> \o s) /\ (~ (n < 0) => Decimal(n) = s)
  BY DecimalText
<1> HIDE DEF m
<1>3. CASE n < 0
  <2>1. Decimal(n) = <<Hyphen>> \o s
    BY <1>2, <1>3
  <2>2. Atoi(<<Hyphen>> \o s) = -m /\ Bare(<<Hyphen>> \o s)
    BY <1>1, <1>2, AtoiMinus, MinusBare
  <2>3. QED
    BY <1>1, <1>3, <2>1, <2>2
<1>4. CASE n >= 0
  <2>1. Decimal(n) = s
    BY <1>2, <1>4
  <2>2. Atoi(s) = m /\ Bare(s)
    BY <1>1, <1>2, AtoiDigits, CountBare
  <2>3. QED
    BY <1>1, <1>4, <2>1, <2>2
<1>5. QED
  BY <1>3, <1>4

\* The text of a truth value is such a word too, and getBool() gives the value
\* back from it and from the letter that PostgreSQL has for it.
LEMMA BitReads ==
  ASSUME NEW bit \in BOOLEAN, NEW n, n = IF bit THEN 1 ELSE 0
  PROVE  /\ Bare(Decimal(n)) /\ Atoi(Decimal(n)) = n
         /\ BoolOf(Decimal(n)) = bit
         /\ BoolOf(IF Atoi(Decimal(n)) = 0 THEN <<LetterF>> ELSE <<LetterT>>) = bit
<1>1. n \in Int /\ n >= 0 /\ n < 10 /\ Abs(n) = n /\ Abs(n) < 100000
  BY DEF Abs
<1>2. Bare(Decimal(n)) /\ Atoi(Decimal(n)) = n
  BY <1>1, DecimalReads
<1>3. Decimal(n) # NULL
  BY <1>2, NullAssumption DEF Bare
<1>4. Decimal(n) # <<>> /\ Decimal(n)[1] = Digit0 + n
  <2> DEFINE m == Abs(n)
             Fits(k) == (k = 5 \/ m < 10 ^ k) /\ (k = 1 \/ m >= 10 ^ (k - 1))
             size == CHOOSE k \in 1 .. 5 : Fits(k)
             s == Digits(m, size)
  <2>1. Decimal(n) = (IF n < 0 THEN <<Hyphen>> ELSE <<>>) \o s
    BY DEF Decimal
  <2>2. m = n
    BY <1>1
  <2> HIDE DEF m
  <2>3. /\ Fits(1) /\ ~ Fits(2) /\ ~ Fits(3) /\ ~ Fits(4) /\ ~ Fits(5)
    BY <1>1, <2>2, Powers
  <2> HIDE DEF Fits
  <2>4. size = 1
    BY <2>3
  <2> HIDE DEF size
  <2>5. s = Append(<<>>, Unit(n))
    BY <1>1, <2>2, <2>4, OneDigit
  <2>6. Unit(n) = Digit0 + n
    BY <1>1, SMT DEF Unit
  <2> HIDE DEF s
  <2>7. s = <<Digit0 + n>>
    BY <2>5, <2>6
  <2>8. s \in Seq(Int)
    BY <1>1, <2>7 DEF Digit0
  <2>9. Decimal(n) = s
    BY <1>1, <2>1, <2>8, ConcatEmptySeq
  <2>10. QED
    BY <2>7, <2>9
<1>5. BoolOf(Decimal(n)) = bit
  BY <1>3, <1>4 DEF BoolOf, Digit0, LetterT
<1>6. BoolOf(<<LetterF>>) = FALSE /\ BoolOf(<<LetterT>>) = TRUE
  <2>1. <<LetterF>> \in Seq(Int) /\ <<LetterT>> \in Seq(Int)
    BY DEF LetterF, LetterT
  <2>2. <<LetterF>> # NULL /\ <<LetterT>> # NULL
    BY <2>1, NullAssumption
  <2>3. QED
    BY <2>2 DEF BoolOf, Digit0, LetterF, LetterT
<1>7. BoolOf(IF Atoi(Decimal(n)) = 0 THEN <<LetterF>> ELSE <<LetterT>>) = bit
  <2>1. CASE bit
    <3>1. Atoi(Decimal(n)) # 0
      BY <1>2, <2>1
    <3>2. QED
      BY <1>6, <2>1, <3>1
  <2>2. CASE ~ bit
    <3>1. Atoi(Decimal(n)) = 0
      BY <1>2, <2>2
    <3>2. QED
      BY <1>6, <2>2, <3>1
  <2>3. QED
    BY <2>1, <2>2
<1>8. QED
  BY <1>2, <1>5, <1>7

=============================================================================
