-------------------------- MODULE LosslessScanner --------------------------
(***************************************************************************)
(* The scanner that formatting reads a document with                       *)
(* (formatting/LosslessSqlScanner.ts) and the guard that compares a        *)
(* formatted unit with its original (formatting/OutputPreservationGuard).  *)
(***************************************************************************)
EXTENDS SqlText

SingleOperators == {"!", "%", "&", "*", "+", "-", "/", "<", "=", ">", "^", "|", "~"}
CompoundOperators ==
  {<<"!", "=">>, <<"!", "<">>, <<"!", ">">>, <<"<", "=">>, <<"<", ">">>, <<">", "=">>,
   <<":", ":">>} \cup {<<c, "=">> : c \in {"%", "&", "*", "+", "-", "/", "^", "|"}}
Punctuation == {"(", ")", ",", ".", ";", ":", "$"}

DigitsEnd(text, i) == RunEnd(text, i, Digit)
NameEnd(text, i) == RunEnd(text, i, IdentifierPart)
LineEnd(text, i) == RunEnd(text, i, STRING \ LineBreak)

Unterminated == 0

\* The end of a quoted text whose inside starts at i: a doubled quote is part of it.
QuoteEnd(text, i, quote) ==
  LET close == ClosingQuote(text, i, quote)
  IN  IF close > Len(text) THEN Unterminated ELSE close + 1

\* One round of the loop over a block comment; comments nest.
CommentRound(text, seen) ==
  LET pair == <<At(text, seen.at), At(text, seen.at + 1)>>
  IN  IF seen.depth = 0 \/ seen.at > Len(text) THEN seen
      ELSE IF pair = <<"/", "*">> THEN [at |-> seen.at + 2, depth |-> seen.depth + 1]
      ELSE IF pair = <<"*", "/">> THEN [at |-> seen.at + 2, depth |-> seen.depth - 1]
      ELSE [at |-> seen.at + 1, depth |-> seen.depth]

\* The end of a block comment whose inside starts at i.
CommentEnd(text, i) ==
  LET Round(seen) == CommentRound(text, seen)
      seen == Rounds(Round, [at |-> i, depth |-> 1], Len(text))
  IN  IF seen.depth > 0 THEN Unterminated ELSE seen.at

\* A name after its one or two signs; only a single at sign may not stand alone.
SignedEnd(text, i, sign) ==
  LET name == IF At(text, i + 1) = sign THEN i + 2 ELSE i + 1
      end  == NameEnd(text, name)
  IN  IF end = (IF sign = "@" THEN i + 1 ELSE name) THEN Unterminated ELSE end

HexadecimalEnd(text, i) ==
  LET end == RunEnd(text, i + 2, HexDigit)
  IN  IF end = i + 2 THEN Unterminated ELSE end

DecimalEnd(text, i) ==
  LET whole    == DigitsEnd(text, IF text[i] = "." THEN i + 1 ELSE i)
      fraction == IF At(text, whole) = "." THEN DigitsEnd(text, whole + 1) ELSE whole
      power    == IF At(text, fraction + 1) \in {"+", "-"} THEN fraction + 2 ELSE fraction + 1
  IN  IF At(text, fraction) # "e" THEN fraction
      ELSE IF DigitsEnd(text, power) = power THEN Unterminated ELSE DigitsEnd(text, power)

\* Kind and end of the token that starts at i.
Lexeme(text, i) ==
  LET c == text[i]
      d == At(text, i + 1)
  IN  CASE c \in Blank -> <<"whitespace", RunEnd(text, i, Blank)>>
        [] c = "-" /\ d = "-" -> <<"lineComment", LineEnd(text, i + 2)>>
        [] c = "/" /\ d = "*" -> <<"blockComment", CommentEnd(text, i + 2)>>
        [] c = "'" -> <<"string", QuoteEnd(text, i + 1, "'")>>
        [] c = "N" /\ d = "'" -> <<"string", QuoteEnd(text, i + 2, "'")>>
        [] c = "[" -> <<"quotedIdentifier", QuoteEnd(text, i + 1, "]")>>
        [] c = "\"" -> <<"quotedIdentifier", QuoteEnd(text, i + 1, "\"")>>
        [] c = "@" -> <<"variable", SignedEnd(text, i, "@")>>
        [] c = "#" -> <<"tempIdentifier", SignedEnd(text, i, "#")>>
        [] c = "?" -> <<"positionalParameter", i + 1>>
        [] c \in IdentifierStart /\ ~(c = "N" /\ d = "'") -> <<"word", NameEnd(text, i)>>
        [] c = "0" /\ d = "x" -> <<"number", HexadecimalEnd(text, i)>>
        [] (c \in Digit /\ ~(c = "0" /\ d = "x")) \/ (c = "." /\ d \in Digit) ->
             <<"number", DecimalEnd(text, i)>>
        [] <<c, d>> \in CompoundOperators -> <<"operator", i + 2>>
        [] c \in SingleOperators /\ <<c, d>> \notin CompoundOperators \cup {<<"-", "-">>, <<"/", "*">>} ->
             <<"operator", i + 1>>
        [] c \in Punctuation /\ <<c, d>> \notin CompoundOperators /\ ~(c = "." /\ d \in Digit) ->
             <<"punctuation", i + 1>>
        [] OTHER -> <<"unsupported", Unterminated>>

Token(text, start, kind, end) ==
  [kind |-> kind, start |-> start, end |-> end, text |-> SubSeq(text, start, end - 1)]

\* One round of the scanner: one more token, or the end of the text or an error is reached.
ScanRound(text, scan) ==
  IF ~scan.ok \/ scan.next > Len(text) THEN scan
  ELSE LET lexeme == Lexeme(text, scan.next)
       IN  IF lexeme[2] = Unterminated THEN [scan EXCEPT !.ok = FALSE]
           ELSE [scan EXCEPT !.next = lexeme[2],
                   !.tokens = Append(@, Token(text, scan.next, lexeme[1], lexeme[2]))]

ScanFormattingSql(text) ==
  LET Round(scan) == ScanRound(text, scan)
  IN  Rounds(Round, [ok |-> TRUE, next |-> 1, tokens |-> <<>>], Len(text))

Comment == {"lineComment", "blockComment"}
Trivia(token) == token.kind \in Comment \cup {"whitespace"}
Protected(token) == token.kind \in Comment \cup {"string", "quotedIdentifier"}
NonWhitespaceTokens(tokens) == Chosen(tokens, {i \in DOMAIN tokens : tokens[i].kind # "whitespace"})
MeaningfulTokens(tokens) == Chosen(tokens, {i \in DOMAIN tokens : ~Trivia(tokens[i])})

Breaks(text, start, end) == \E i \in start..(end - 1) : text[i] \in LineBreak

\* Which comments share the line of the token before them, and which end theirs.
CommentAttachments(text, tokens) ==
  LET kept == NonWhitespaceTokens(tokens)
  IN  [i \in {j \in DOMAIN kept : kept[j].kind \in Comment} |->
        [sameLineAsPrevious |-> i > 1 /\ ~Breaks(text, kept[i - 1].end, kept[i].start),
         nextStartsAfterLineBreak |->
           i = Len(kept) \/ Breaks(text, kept[i].end, kept[i + 1].start)]]

\* A comparison of the spelling alone, without where its tokens end.
SameSpelling(before, after) ==
  LET Spelled[i \in 0..Len(before)] == IF i = 0 THEN <<>> ELSE Spelled[i - 1] \o before[i].text
      Spelt[i \in 0..Len(after)] == IF i = 0 THEN <<>> ELSE Spelt[i - 1] \o after[i].text
  IN  Spelled[Len(before)] = Spelt[Len(after)]

LeadingWhitespace(text) == SubSeq(text, 1, RunEnd(text, 1, Blank) - 1)
TrailingWhitespace(text) ==
  SubSeq(text, 1 + Max({0} \cup {i \in 1..Len(text) : text[i] \notin Blank}), Len(text))

SameTokens(before, after) ==
  /\ Len(before) = Len(after)
  /\ \A i \in DOMAIN before :
       before[i].kind = after[i].kind /\ before[i].text = after[i].text

ValidateFormattingOutput(original, candidate) ==
  LET before == ScanFormattingSql(original)
      after  == ScanFormattingSql(candidate)
  IN  /\ LeadingWhitespace(original) = LeadingWhitespace(candidate)
      /\ TrailingWhitespace(original) = TrailingWhitespace(candidate)
      /\ before.ok /\ after.ok
      /\ SameTokens(NonWhitespaceTokens(before.tokens), NonWhitespaceTokens(after.tokens))
      /\ CommentAttachments(original, before.tokens) = CommentAttachments(candidate, after.tokens)
=============================================================================
