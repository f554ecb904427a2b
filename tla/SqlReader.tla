------------------------------ MODULE SqlReader -----------------------------
(***************************************************************************)
(* A database server that reads the values of an INSERT statement and      *)
(* gives a stored value back as text: external to the drivers.             *)
(***************************************************************************)
EXTENDS CLibrary

WordNull == <<78>>   \* the word NULL, for short

\* Before and in a bare word, in a quoted text, after a backslash in there,
\* after a quote that may be its last, or in something that is no list of values;
\* what was read of a value, whether it has an E in front, and the values before.
At(mode, word, e, values) == [mode |-> mode, word |-> word, e |-> e, values |-> values]

LexStart == At("bare", <<>>, FALSE, <<>>)

Turned(lex, mode) == At(mode, lex.word, lex.e, lex.values)

Longer(lex, ch, mode) == At(mode, Append(lex.word, ch), lex.e, lex.values)

ValueOf(lex) == IF lex.mode = "bare" /\ lex.word = WordNull THEN NULL ELSE lex.word

Complete(lex) == At("bare", <<>>, FALSE, Append(lex.values, ValueOf(lex)))

\* A text begins where nothing or an E stands.
LexBare(lex, ch) ==
  IF ch = Comma THEN Complete(lex)
  ELSE IF ch # Quote THEN Longer(lex, ch, "bare")
  ELSE IF lex.word \in {<<>>, <<Space, LetterE>>} THEN At("text", <<>>, lex.word # <<>>, lex.values)
  ELSE Turned(lex, "error")

\* A backslash has a meaning in every text or only in one with an E in front.
LexText(lex, ch, backslashes) ==
  IF ch = Quote THEN Turned(lex, "quote")
  ELSE IF ch = Backslash /\ (lex.e \/ backslashes) THEN Turned(lex, "escape")
  ELSE Longer(lex, ch, "text")

LexQuote(lex, ch) ==
  IF ch = Quote THEN Longer(lex, ch, "text")
  ELSE IF ch = Comma THEN Complete(lex)
  ELSE Turned(lex, "error")

\* One character.
Lex(lex, ch, backslashes) ==
  IF lex.mode = "bare" THEN LexBare(lex, ch)
  ELSE IF lex.mode = "text" THEN LexText(lex, ch, backslashes)
  ELSE IF lex.mode = "quote" THEN LexQuote(lex, ch)
  ELSE IF lex.mode = "escape" THEN Longer(lex, ch, "text")
  ELSE lex

\* The values of a statement; none when it is refused.
ValuesOf(sql, backslashes) ==
  LET lex == FoldLeft(LAMBDA state, ch : Lex(state, ch, backslashes), LexStart, sql)
  IN  IF lex.mode \in {"bare", "quote"} THEN Complete(lex).values ELSE <<>>

\* A timestamp comes back as it was written, or without its punctuation.
Layouts == {"punctuated", "digits"}

DigitsOf(text) == FoldLeft(LAMBDA done, ch : IF IsDigit(ch) THEN Append(done, ch) ELSE done, <<>>, text)

\* The text of a column, where truth may have letters for it.
Stored(kind, text, layout, letters) ==
  IF text = NULL THEN NULL
  ELSE CASE kind = "time" /\ layout = "digits" -> DigitsOf(text)
         [] kind = "bool" /\ letters -> IF Atoi(text) = 0 THEN <<LetterF>> ELSE <<LetterT>>
         [] OTHER -> text
=============================================================================
