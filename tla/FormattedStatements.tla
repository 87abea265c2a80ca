------------------------ MODULE FormattedStatements ------------------------
(***************************************************************************)
(* What formatting and the analysis of statements promise about one text.  *)
(* They share no code: each has its scanner, its GO and its idea of where  *)
(* a statement ends.                                                       *)
(***************************************************************************)
EXTENDS FormattingPreparation, StatementBoundary

Meaningful(source) == MeaningfulTokens(ScanFormattingSql(source).tokens)
Spellings(tokens) == [i \in DOMAIN tokens |-> <<tokens[i].kind, tokens[i].text>>]

(* Every token that is not trivia is in one unit, one declined part or one
   separator; a unit scanned on its own has the tokens it has in the document; and the
   range of a unit, and no other, selects it (FormattingPreparation.ts:543). *)
RegionsTile(source) ==
  LET prepared == PrepareFormattingDocument(source)
      spans    == Range(prepared.regions) \cup
                  {[start |-> s.start, end |-> s.end, kind |-> "go"] : s \in Range(prepared.separators)}
      Holds(span, t) == span.start <= t.start /\ t.end <= span.end
  IN  prepared.ok =>
        /\ \A t \in Range(MeaningfulTokens(prepared.tokens)) :
             Cardinality({span \in spans : Holds(span, t)}) = 1
        /\ \A u \in Range(Units(prepared)) :
             LET alone == ScanFormattingSql(TextOf(source, u))
             IN  /\ alone.ok
                 /\ Spellings(alone.tokens) =
                      Spellings(Chosen(prepared.tokens,
                                       {i \in DOMAIN prepared.tokens : Holds(u, prepared.tokens[i])}))
                 /\ SelectExactFormattingUnit(prepared, u.start, u.end) = {u}

\* Texts that differ from text by one blank put in, taken out or exchanged.
BlankEdits(text) ==
  LET Cut(i, middle, j) == SubSeq(text, 1, i) \o middle \o SubSeq(text, j, Len(text))
      inked == {i \in DOMAIN text : text[i] \in Blank}
  IN  {Cut(i, <<b>>, i + 1) : i \in 0..Len(text), b \in {" ", "\n"}}
        \cup {Cut(i - 1, <<>>, i + 1) : i \in inked}
        \cup {Cut(i - 1, <<b>>, i + 1) : i \in inked, b \in {" ", "\n"}}

\* Words and signs that mean another thing at the start of a line, or next to each other.
LineCommand(text) == Range(text) \cap {"go", ":", "!", "$"} # {}

(* Put into the document, a text that the guard accepts for a unit leaves every other
   unit, declined part and separator as it was, and is one unit of the same kind.  The
   guard only compares tokens and comments: texts with GO, a colon, an exclamation mark
   or a dollar sign are excepted, for a line break before them gives them another
   meaning (docs/ARCHITECTURE.md:548). *)
FormatsInPlace(source) ==
  LET prepared == PrepareFormattingDocument(source)
      Shape(text, preparation) ==
        [i \in DOMAIN preparation.regions |->
          <<preparation.regions[i].kind,
            Spellings(Meaningful(TextOf(text, preparation.regions[i])))>>]
  IN  prepared.ok =>
        \A u \in Range(Units(prepared)) :
          \A candidate \in BlankEdits(TextOf(source, u)) :
            (ValidateFormattingOutput(TextOf(source, u), candidate) /\ ~LineCommand(candidate)) =>
              LET text == SubSeq(source, 1, u.start - 1) \o candidate
                          \o SubSeq(source, u.end, Len(source))
                  again == PrepareFormattingDocument(text)
              IN  /\ again.ok
                  /\ Shape(text, again) = Shape(source, prepared)
                  /\ Len(again.separators) = Len(prepared.separators)
                  /\ SelectExactFormattingUnit(again, u.start, u.start + Len(candidate)) # {}

(* The statement at a cursor is the statement of the document that the cursor is in,
   whichever of the two enumerations is asked; before the first statement of a segment it
   is all of the segment (StatementBoundary.ts:155).  Texts with a separator that is
   another word are excepted: SqlTokenizer.ts:37 asks the line, so a word behind a block
   comment whose last line is "go --" is one, and as the word before a SELECT it hides that
   a statement starts there (StatementBoundary.ts:30). *)
SeparatorsAreGo(tokens) == \A t \in Range(tokens) : IsBatchSeparator(t) => Spells(t, "go")
CursorAgrees(sql) ==
  LET tokens == TokenizeSql(sql)
      statements == DocumentStatementTokenRanges(tokens)
  IN  SeparatorsAreGo(tokens) =>
      \A cursor \in 1..(Len(sql) + 1) :
        LET here == StatementTokenRangeAtCursor(tokens, cursor)
            inside == {s \in statements : /\ tokens[s.start].start < cursor
                                          /\ cursor <= tokens[s.end - 1].end}
        IN  \A s \in inside :
              /\ \E batch \in DocumentBatchTokenRanges(tokens) :
                   /\ batch = BatchTokenRangeAtCursor(tokens, cursor)
                   /\ batch.start <= s.start /\ s.end <= batch.end
              /\ \/ here = s
                 \/ /\ StatementStarter(tokens[s.start]) = ""
                    /\ here.start = s.start /\ s.end <= here.end

\* Both readings of the text find the same separators.
SameBatches(source, prepared, tokens) ==
  LET First(line) == Min({t.start : t \in {m \in Range(prepared.tokens) :
                            /\ m.start >= line.start /\ ~Trivia(m)}})
  IN  {First(line) : line \in Range(prepared.separators)} =
        {t.start : t \in {s \in Range(tokens) : IsBatchSeparator(s)}}

(* A unit that is formatted as one statement is one statement to completion, diagnostics
   and navigation, and has all of it.  Units with a common table expression are excepted:
   StatementBoundary.ts:88 begins a statement at the INSERT, UPDATE or DELETE that
   consumes one.  So are semicolons in parentheses and delimited identifiers spelled like
   a boundary (StatementBoundary.ts:9 and :22 ask the text only), and documents whose
   separators only one of the two readings knows (GO with a count). *)
UnitsAreStatements(source) ==
  LET prepared == PrepareFormattingDocument(source)
      tokens == TokenizeSql(source)
  IN  (prepared.ok /\ SameBatches(source, prepared, tokens)) =>
        \A u \in Range(Units(prepared)) :
          LET inside == {i \in DOMAIN tokens : u.start <= tokens[i].start /\ tokens[i].end <= u.end}
              last   == IF Spells(tokens[Max(inside)], ";") THEN Max(inside) - 1 ELSE Max(inside)
          IN  \/ u.kind = "cte"
              \/ \E i \in inside \ {Max(inside)} : Spells(tokens[i], ";")
              \/ \E i \in inside : tokens[i].kind = "delimited" /\ tokens[i].text \in {<<"(">>, <<")">>, <<";">>}
              \/ [start |-> Min(inside), end |-> last + 1] \in DocumentStatementTokenRanges(tokens)
=============================================================================
