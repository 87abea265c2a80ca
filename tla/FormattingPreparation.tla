----------------------- MODULE FormattingPreparation -----------------------
(***************************************************************************)
(* How a document is cut into units that may be formatted one by one       *)
(* (formatting/FormattingPreparation.ts): the client batches between lines *)
(* that say GO, and in them the statements that are known to be complete.  *)
(* What is not known is declined and stays as it is.                       *)
(***************************************************************************)
EXTENDS LosslessScanner, SequencesExt

SupportedStarters == {"select", "with", "insert", "update", "delete"}
WholeBatchStarters == {"alter", "begin", "create", "if", "while"}
PossibleStatementStarters ==
  UNION {SupportedStarters, WholeBatchStarters, {"declare", "exec", "execute", "merge", "set"}}
UnsafeEndingWords ==
  {"and", "as", "by", "case", "else", "from", "group", "having", "into", "join", "on", "or",
   "order", "output", "select", "set", "then", "when", "where", "with"}
UnsafeEndingSymbols ==
  {<<c>> : c \in {"(", ",", ".", "+", "-", "*", "/", "%", "=", "<", ">"}}
    \cup {<<"<", "=">>, <<">", "=">>, <<"<", ">">>, <<"!", "=">>}

Is(token, symbol) == token.text = <<symbol>>
IsPunctuation(token, symbol) == token.kind = "punctuation" /\ Is(token, symbol)
\* The keyword a word spells, if it is one piece.
Word(token) == IF token.kind = "word" /\ Len(token.text) = 1 THEN token.text[1] ELSE ""

CountOf(tokens, symbol, to) ==
  Cardinality({i \in 1..to : IsPunctuation(tokens[i], symbol)})

\* How many parentheses are open before each token.
SyntaxDepths(tokens) ==
  [i \in DOMAIN tokens |-> CountOf(tokens, "(", i - 1) - CountOf(tokens, ")", i - 1)]

Balanced(tokens) ==
  /\ CountOf(tokens, "(", Len(tokens)) = CountOf(tokens, ")", Len(tokens))
  /\ \A i \in DOMAIN tokens : CountOf(tokens, "(", i) >= CountOf(tokens, ")", i)

LineStarts(source) == {i \in 1..Len(source) : i = 1 \/ source[i - 1] = "\n"}
LineEndOf(source, start) ==
  Min({i + 1 : i \in {j \in start..Len(source) : source[j] = "\n"}} \cup {Len(source) + 1})

\* A placeholder of a template, or a command of sqlcmd at the start of a line.
AmbiguousSource(source, tokens) ==
  \/ \E i \in 1..(Len(tokens) - 1) :
       /\ IsPunctuation(tokens[i], "$") /\ IsPunctuation(tokens[i + 1], "(")
       /\ tokens[i].end = tokens[i + 1].start
  \/ \E t \in Range(tokens) :
       /\ \/ IsPunctuation(t, ":")
          \/ t.kind = "operator" /\ Is(t, "!") /\ At(source, t.end) = "!"
       /\ LET start == Max({s \in LineStarts(source) : s <= t.start})
          IN  \A i \in start..(t.start - 1) : source[i] \in Blank

\* The tokens a part of the source touches: [first, last + 1).
TokensIn(tokens, start, end) ==
  [from |-> 1 + Cardinality({i \in DOMAIN tokens : tokens[i].end <= start}),
   to   |-> 1 + Cardinality({i \in DOMAIN tokens : tokens[i].start < end})]

SkipKinds(tokens, i, to, kinds) ==
  Min({j \in i..(to - 1) : tokens[j].kind \notin kinds} \cup {IF i > to THEN i ELSE to})

RepeatCount(token) ==
  token.text[1] # "0" /\ \A i \in DOMAIN token.text : token.text[i] \in Digit

\* What one line is: of no interest, a separator, or a form of GO that fails the document.
\* The code looks at the token after the blanks of a line, and at the one after GO, even
\* where that token is on the next line.
SeparatorOf(source, tokens, depths, start) ==
  LET end    == LineEndOf(source, start)
      line   == TokensIn(tokens, start, end)
      inside == /\ line.from <= Len(tokens) /\ Protected(tokens[line.from])
                /\ tokens[line.from].start < start /\ tokens[line.from].end > start
      go     == SkipKinds(tokens, line.from, line.to, {"whitespace"})
      count  == SkipKinds(tokens, go + 1, line.to, {"whitespace"})
      counts == count <= Len(tokens) /\ tokens[count].kind = "number"
      rest   == IF counts THEN count + 1 ELSE count
      last   == SkipKinds(tokens, rest, line.to, Comment \cup {"whitespace"})
      Spills == \E i \in rest..(last - 1) : Protected(tokens[i]) /\ tokens[i].end > end
  IN  CASE inside \/ go > Len(tokens) -> "none"
        [] ~inside /\ go <= Len(tokens) /\ (Word(tokens[go]) # "go" \/ depths[go] # 0) -> "none"
        [] OTHER -> IF (counts /\ ~RepeatCount(tokens[count])) \/ Spills \/ last # line.to
                    THEN "failed" ELSE "separator"

LinesThat(source, tokens, verdict) ==
  {start \in LineStarts(source) :
     SeparatorOf(source, tokens, SyntaxDepths(tokens), start) = verdict}

SeparatorLines(source, tokens) ==
  LET starts == Ascending(LinesThat(source, tokens, "separator"))
  IN  [i \in DOMAIN starts |-> [start |-> starts[i], end |-> LineEndOf(source, starts[i])]]

\* The token ranges of the batches between the separators.
IndexedBatches(source, tokens) ==
  LET separators == SeparatorLines(source, tokens)
      n == Len(separators)
  IN  [i \in 1..(n + 1) |->
        TokensIn(tokens, IF i = 1 THEN 1 ELSE separators[i - 1].end,
                         IF i = n + 1 THEN Len(source) + 1 ELSE separators[i].start)]

FollowsSetOperator(tokens, i) ==
  \/ i > 1 /\ \E word \in {"union", "intersect", "except"} : Is(tokens[i - 1], word)
  \/ i > 2 /\ Is(tokens[i - 1], "all") /\ Is(tokens[i - 2], "union")

\* The tokens outside every parenthesis, the outermost parentheses among them.
TopLevel(tokens) ==
  LET depth == SyntaxDepths(tokens)
      Outer(i) == depth[i] = 0 \/ (depth[i] = 1 /\ IsPunctuation(tokens[i], ")"))
  IN  Chosen(tokens, {i \in DOMAIN tokens : Outer(i)})

\* One more word of a statement: what the statement has become, or another one begins.
NextStarter(top, seen, i) ==
  LET word == Word(top[i])
      now  == [seen EXCEPT !.sourced = @ \/ (seen.current = "insert" /\ word = "values")]
  IN  CASE seen.another \/ word \notin PossibleStatementStarters -> now
        [] word = "select" /\ FollowsSetOperator(top, i) -> now
        [] OTHER ->
             CASE seen.current = "with" /\ ~seen.consumed ->
                    [now EXCEPT !.consumed = TRUE, !.current = word]
               [] seen.current = "insert" /\ word = "select" /\ ~now.sourced ->
                    [now EXCEPT !.sourced = TRUE, !.current = "select"]
               [] OTHER ->
                    [now EXCEPT !.another =
                       /\ ~(seen.current = "update" /\ word = "set")
                       /\ ~(word = "with" /\ i < Len(top) /\ Is(top[i + 1], "("))]

AdditionalStatement(tokens) ==
  LET top == TopLevel(tokens)
      Step(seen, i) == NextStarter(top, seen, i)
  IN  FoldLeft(Step,
               [current |-> Word(tokens[1]), consumed |-> FALSE, sourced |-> FALSE, another |-> FALSE],
               [i \in 1..(Len(top) - 1) |-> i + 1]).another

IncompleteCase(tokens) ==
  LET Step(depth, token) ==
        CASE Word(token) = "case" -> depth + 1
          [] Word(token) = "end" /\ depth > 0 -> depth - 1
          [] OTHER -> depth
  IN  FoldLeft(Step, 0, tokens) # 0

UnsafeEnding(token) == Word(token) \in UnsafeEndingWords \/ token.text \in UnsafeEndingSymbols

\* A statement has the clause without which it is not complete.
HasItsClause(starter, words) ==
  CASE starter = "with" -> Tail(words) # <<>> /\ \E i \in 2..Len(words) :
                             words[i] \in {"select", "insert", "update", "delete"}
    [] starter = "insert" -> Range(words) \cap {"values", "select"} # {}
    [] starter = "update" -> "set" \in Range(words)
    [] OTHER -> TRUE

Declined == "declined"

\* The kind of unit that tokens without trivia form, or that they are declined.
ClassifyUnit(tokens) ==
  LET body == IF IsPunctuation(Last(tokens), ";") THEN Front(tokens) ELSE tokens
      starter == Word(body[1])
      words == [i \in DOMAIN TopLevel(body) |-> Word(TopLevel(body)[i])]
  IN  IF \/ body = <<>>
         \/ starter \notin SupportedStarters
         \/ IncompleteCase(body)
         \/ AdditionalStatement(body)
         \/ UnsafeEnding(Last(body))
         \/ ~HasItsClause(starter, SelectSeq(words, LAMBDA w : w # ""))
      THEN Declined
      ELSE IF starter = "with" THEN "cte" ELSE starter

\* Where the meaningful tokens of a part of a list are, and the region they span.
MeaningfulPlaces(tokens, first, last) == {i \in first..last : ~Trivia(tokens[i])}
Region(tokens, places, kind) ==
  [start |-> tokens[Min(places)].start, end |-> tokens[Max(places)].end, kind |-> kind]

\* The statements of a batch, up to one that takes the rest of the batch with it.
BatchRegions(tokens, depths, batch) ==
  LET last == batch.to - 1
      ends == {i \in batch.from..last : IsPunctuation(tokens[i], ";") /\ depths[i] = 0} \cup {last}
      First(end) == Max({batch.from} \cup {e + 1 : e \in {i \in ends : i < end}})
      Segment(end) == MeaningfulPlaces(tokens, First(end), end)
      whole == {e \in ends : /\ Segment(e) # {}
                             /\ Word(tokens[Min(Segment(e))]) \in WholeBatchStarters}
      RegionAt(e) ==
        IF e \in whole THEN Region(tokens, MeaningfulPlaces(tokens, First(e), last), Declined)
        ELSE Region(tokens, Segment(e), ClassifyUnit(Chosen(tokens, Segment(e))))
      order == Ascending({e \in ends : Segment(e) # {} /\ \A w \in whole : e <= w})
  IN  [i \in DOMAIN order |-> RegionAt(order[i])]

\* The units and the declined parts of a document in the order of its text.
CollectRegions(source, tokens) ==
  LET batches == IndexedBatches(source, tokens)
      Regions[i \in 0..Len(batches)] ==
        IF i = 0 THEN <<>>
        ELSE Regions[i - 1] \o BatchRegions(tokens, SyntaxDepths(tokens), batches[i])
  IN  Regions[Len(batches)]

PrepareFormattingDocument(source) ==
  LET scan == ScanFormattingSql(source)
      ok == /\ scan.ok
            /\ ~AmbiguousSource(source, scan.tokens)
            /\ Balanced(scan.tokens)
            /\ LinesThat(source, scan.tokens, "failed") = {}
  IN  [ok |-> ok,
       tokens |-> scan.tokens,
       separators |-> IF ok THEN SeparatorLines(source, scan.tokens) ELSE <<>>,
       regions |-> IF ok THEN CollectRegions(source, scan.tokens) ELSE <<>>]

Units(preparation) ==
  Chosen(preparation.regions,
         {i \in DOMAIN preparation.regions : preparation.regions[i].kind # Declined})
TextOf(source, span) == SubSeq(source, span.start, span.end - 1)

\* The unit a range names exactly, if there is one.
SelectExactFormattingUnit(preparation, start, end) ==
  {u \in Range(Units(preparation)) : u.start = start /\ u.end = end}
=============================================================================
