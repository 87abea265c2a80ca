------------------------------ MODULE SqlText ------------------------------
(***************************************************************************)
(* The texts that the scanners of this program read.  A text is a sequence *)
(* of symbols.  A symbol is a character the lexical rules tell apart, or a *)
(* piece of a word: everything that is not Special is letters, and pieces  *)
(* that touch are one word.  A span is half open: start is its first       *)
(* symbol, end the one after its last.                                     *)
(***************************************************************************)
EXTENDS Naturals, Sequences, FiniteSets, FiniteSetsExt

Blank == {" ", "\r", "\n"}
LineBreak == {"\r", "\n"}
Digit == {"0", "1"}
HexDigit == Digit \cup {"e"}
Special ==
  {"!", "%", "&", "*", "+", "-", "/", "<", "=", ">", "^", "|", "~", "(", ")", ",", ".", ";",
   ":", "$", "'", "[", "]", "\"", "@", "#", "?", "{"} \cup Blank \cup Digit
NoSymbol == ""
IdentifierStart == STRING \ (Special \cup {NoSymbol})
IdentifierPart == IdentifierStart \cup Digit \cup {"$", "#", "@"}

\* The symbol at a place, and none past the end.
At(text, i) == IF i \in 1..Len(text) THEN text[i] ELSE NoSymbol

\* The first place from i on whose symbol is not of a run.
RunEnd(text, i, run) ==
  Min({j \in i..Len(text) : text[j] \notin run} \cup {IF i > Len(text) THEN i ELSE Len(text) + 1})

\* What start has become after some rounds of a loop; a loop that is done stands still.
Rounds(Round(_), start, count) ==
  LET after[n \in 0..count] == IF n = 0 THEN start ELSE Round(after[n - 1])
  IN  after[count]

\* One round of the loop that looks for the closing quote at i; a doubled quote is text.
QuoteRound(text, quote, i) ==
  IF At(text, i) = quote THEN IF At(text, i + 1) = quote THEN i + 2 ELSE i
  ELSE IF i > Len(text) THEN i ELSE i + 1

\* The closing quote of what is quoted from i on.
ClosingQuote(text, i, quote) ==
  LET Round(j) == QuoteRound(text, quote, j) IN Rounds(Round, i, Len(text))

\* The elements of a list at some places, in their order.
Chosen(list, places) ==
  LET chosen[n \in 0..Len(list)] ==
        IF n = 0 THEN <<>>
        ELSE IF n \in places THEN Append(chosen[n - 1], list[n]) ELSE chosen[n - 1]
  IN  chosen[Len(list)]

\* A set of places in their order.
Ascending(places) ==
  IF places = {} THEN <<>> ELSE Chosen([i \in 1..Max(places) |-> i], places)
=============================================================================
