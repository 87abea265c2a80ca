------------------------- MODULE StatementBoundary -------------------------
(***************************************************************************)
(* The tokenizer that completion and document analysis read a text with    *)
(* (parser/SqlTokenizer.ts), the client batches (parser/BatchBoundary.ts)  *)
(* and the semantic statements in them (parser/StatementBoundary.ts): all  *)
(* of the document, and the one a cursor is in.  It never fails: what is   *)
(* not closed reaches to the end of the text.  Ranges of tokens are half   *)
(* open, and a cursor is the place of the symbol after it.                 *)
(***************************************************************************)
EXTENDS SqlText, SequencesExt

\* The end of a quoted text; a doubled quote is part of it.
ClosedAt(sql, i, quote) ==
  LET close == ClosingQuote(sql, i, quote)
  IN  IF close > Len(sql) THEN Len(sql) + 1 ELSE close + 1

\* Comments do not nest here.
CommentClose(sql, i) ==
  Min({j + 2 : j \in {k \in i..(Len(sql) - 1) : sql[k] = "*" /\ sql[k + 1] = "/"}}
        \cup {Len(sql) + 1})

\* The line of a token, without what follows two hyphens wherever they are, says GO alone.
IsStandaloneGo(sql, start) ==
  LET first == Max({i \in 1..start : i = 1 \/ sql[i - 1] = "\n"})
      end   == RunEnd(sql, start, STRING \ {"\n"})
      IsBlank(from, to) == \A i \in from..to : sql[i] \in Blank
      Dash(i) == Min({j \in i..(end - 2) : sql[j] = "-" /\ sql[j + 1] = "-"} \cup {end})
  IN  \E i \in first..(end - 1) :
        sql[i] = "go" /\ IsBlank(first, i - 1) /\ IsBlank(i + 1, Dash(i + 1) - 1)

\* The kind and the end of what starts at i; kind "" is no token.
SqlLexeme(sql, i) ==
  LET c == sql[i]
      d == At(sql, i + 1)
      name == RunEnd(sql, i + 1, IdentifierPart)
  IN  CASE c \in Blank -> <<"", i + 1>>
        [] c = "-" /\ d = "-" -> <<"", RunEnd(sql, i + 2, STRING \ {"\n"})>>
        [] c = "/" /\ d = "*" -> <<"", CommentClose(sql, i + 2)>>
        [] c = "'" -> <<"string", ClosedAt(sql, i + 1, "'")>>
        [] c = "[" -> <<"delimited", ClosedAt(sql, i + 1, "]")>>
        [] c = "\"" -> <<"delimited", ClosedAt(sql, i + 1, "\"")>>
        [] c \in IdentifierStart ->
             <<IF IsStandaloneGo(sql, i) THEN "batchSeparator" ELSE "identifier", name>>
        [] c = "@" -> <<"variable", name>>
        [] c = "#" -> <<"temp", IF d = "#" THEN RunEnd(sql, i + 2, IdentifierPart) ELSE name>>
        [] c \in Digit -> <<"number", RunEnd(sql, i, Digit \cup {"."})>>
        [] OTHER -> <<"symbol", i + 1>>

\* The normalized text of a token: for a delimited identifier, what is inside.
Normalized(sql, kind, start, end) ==
  IF kind # "delimited" THEN SubSeq(sql, start, end - 1)
  ELSE LET close == IF sql[start] = "[" THEN "]" ELSE "\""
       IN  SubSeq(sql, start + 1, IF end > start + 1 /\ sql[end - 1] = close THEN end - 2 ELSE end - 1)

\* One round of the tokenizer: past one lexeme, which is a token unless it has no kind.
TokenRound(sql, read) ==
  IF read.next > Len(sql) THEN read
  ELSE LET lexeme == SqlLexeme(sql, read.next)
           token  == [kind |-> lexeme[1], start |-> read.next, end |-> lexeme[2],
                      text |-> Normalized(sql, lexeme[1], read.next, lexeme[2])]
       IN  [next |-> lexeme[2],
            tokens |-> IF lexeme[1] = "" THEN read.tokens ELSE Append(read.tokens, token)]

TokenizeSql(sql) ==
  LET Round(read) == TokenRound(sql, read)
  IN  Rounds(Round, [next |-> 1, tokens |-> <<>>], Len(sql)).tokens

Spells(token, word) == token.text = <<word>>
IsBatchSeparator(token) == token.kind = "batchSeparator"
\* Kind and quotes are not asked: an identifier [;] is a boundary too.
IsExplicitBoundary(token) == Spells(token, ";") \/ IsBatchSeparator(token)

\* The batch a cursor is in.
BatchTokenRangeAtCursor(tokens, cursor) ==
  LET before == {i \in DOMAIN tokens : IsBatchSeparator(tokens[i]) /\ tokens[i].end <= cursor}
      after  == {i \in DOMAIN tokens : IsBatchSeparator(tokens[i]) /\ tokens[i].start >= cursor}
  IN  [start |-> Max({1} \cup {i + 1 : i \in before}), end |-> Min({Len(tokens) + 1} \cup after)]

\* The batches of a document that have a token.
DocumentBatchTokenRanges(tokens) ==
  {r \in [start : DOMAIN tokens, end : 2..(Len(tokens) + 1)] :
     /\ r.start < r.end
     /\ \A i \in r.start..(r.end - 1) : ~IsBatchSeparator(tokens[i])
     /\ r.start = 1 \/ IsBatchSeparator(tokens[r.start - 1])
     /\ r.end = Len(tokens) + 1 \/ IsBatchSeparator(tokens[r.end])}

\* Parentheses open before each token; one too many closing does not count.
TokenDepths(tokens, start, end) ==
  LET Depth[i \in start..end] ==
        IF i = start THEN 0
        ELSE CASE Spells(tokens[i - 1], "(") -> Depth[i - 1] + 1
               [] Spells(tokens[i - 1], ")") /\ Depth[i - 1] > 0 -> Depth[i - 1] - 1
               [] OTHER -> Depth[i - 1]
  IN  Depth

ContinuesSetExpression(tokens, select) ==
  \/ select > 1 /\ \E word \in {"union", "intersect", "except"} : Spells(tokens[select - 1], word)
  \/ select > 2 /\ Spells(tokens[select - 1], "all") /\ Spells(tokens[select - 2], "union")

Starters == {"select", "insert", "update", "delete", "exec", "execute", "merge", "declare", "set"}
\* The word a token is, when it is not delimited.
Plain(token) == IF token.kind = "identifier" THEN token.text ELSE <<>>
StatementStarter(token) == IF Plain(token) \in {<<w>> : w \in Starters} THEN token.text[1] ELSE ""

\* One more top-level token of a segment: it starts a statement, or it belongs to one.
Advance(tokens, seen, i) ==
  LET starter == StatementStarter(tokens[i])
      kind    == seen.kind
      now     == [seen EXCEPT !.sourced =
                    @ \/ (kind = <<"insert">> /\ Plain(tokens[i]) = <<"values">>)]
      New     == [starts |-> Append(seen.starts, i), kind |-> <<starter>>, sourced |-> FALSE]
  IN  CASE starter = "" -> now
        [] starter # "" /\ kind = <<>> -> New
        [] starter = "select" /\ kind # <<>> /\ ContinuesSetExpression(tokens, i) -> now
        [] OTHER ->
             CASE starter = "select" /\ kind = <<"with">> -> [now EXCEPT !.kind = <<"select">>]
               [] starter \in {"select", "exec", "execute"} /\ kind = <<"insert">> /\ ~now.sourced ->
                    [now EXCEPT !.sourced = TRUE]
               [] starter = "set" /\ kind = <<"update">> -> now
               [] kind = <<"merge">> /\ starter \in {"select", "insert", "update", "delete", "set"} ->
                    now
               [] OTHER -> New

\* The same without regard to what statement is read: every starter starts one.
EveryStarter(tokens, start, end) ==
  LET depths == TokenDepths(tokens, start, end)
  IN  Ascending({i \in start..(end - 1) : depths[i] = 0 /\ StatementStarter(tokens[i]) # ""})

\* Where statements start in [start, end) without a boundary between them.
ImplicitStatementStarts(tokens, start, end) ==
  LET depths == TokenDepths(tokens, start, end)
      kind   == IF start < end THEN Plain(tokens[start]) ELSE <<>>
      seen[n \in 0..(end - start)] ==
        IF n = 0 THEN [starts |-> IF kind = <<"with">> THEN <<start>> ELSE <<>>, kind |-> kind,
                       sourced |-> FALSE]
        ELSE IF depths[start + n - 1] # 0 THEN seen[n - 1]
        ELSE Advance(tokens, seen[n - 1], start + n - 1)
  IN  seen[end - start].starts

\* Every semantic statement of a document.
DocumentStatementTokenRanges(tokens) ==
  LET bounds == {0, Len(tokens) + 1} \cup {i \in DOMAIN tokens : IsExplicitBoundary(tokens[i])}
      Segments == {[start |-> b + 1, end |-> Min({c \in bounds : c > b})] :
                     b \in bounds \ {Len(tokens) + 1}}
      Starts(s) == {s.start} \cup Range(ImplicitStatementStarts(tokens, s.start, s.end))
  IN  UNION {{[start |-> b, end |-> Min({c \in Starts(s) : c > b} \cup {s.end})] : b \in Starts(s)} :
               s \in {t \in Segments : t.start < t.end}}

\* The statement a cursor is in: from the last start before it, or the whole segment.
StatementTokenRangeAtCursor(tokens, cursor) ==
  LET batch  == BatchTokenRangeAtCursor(tokens, cursor)
      bounds == {i \in batch.start..(batch.end - 1) : IsExplicitBoundary(tokens[i])}
      first  == Max({batch.start} \cup {i + 1 : i \in {b \in bounds : tokens[b].end <= cursor}})
      last   == Min({batch.end} \cup {b \in bounds : tokens[b].start >= cursor})
      starts == ImplicitStatementStarts(tokens, first, last)
      before == {i \in DOMAIN starts : tokens[starts[i]].start < cursor}
      active == IF before = {} THEN 0 ELSE Max(before)
  IN  IF active = 0 THEN [start |-> first, end |-> last]
      ELSE [start |-> starts[active],
            end |-> IF active < Len(starts) THEN starts[active + 1] ELSE last]
=============================================================================
