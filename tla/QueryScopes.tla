----------------------------- MODULE QueryScopes -----------------------------
(***************************************************************************)
(* The queries of one statement and the row sources that can be named in   *)
(* each (queryScopeModel of parser/DocumentSemanticAnalyzer.ts), the two   *)
(* ways to look a name up in them (the list completion shows, and          *)
(* parser/QueryScopeResolver.ts for everything else), and the errors about *)
(* aliases (parser/DocumentSemanticDiagnostics.ts).  Columns are left out. *)
(***************************************************************************)
EXTENDS StatementBoundary, Integers

TextAt(tokens, i) == IF i \in DOMAIN tokens THEN tokens[i].text ELSE <<>>
Says(tokens, i, words) == \E word \in words : TextAt(tokens, i) = <<word>>
SetOperators == {"union", "intersect", "except"}
Introducers == {"from", "join", "apply"}
Reserved ==
  {"where", "join", "on", "group", "order", "having", "cross", "outer", "left", "right", "inner",
   "full", "union", "into", "from", "apply"}
Ident(tokens, i) == i \in DOMAIN tokens /\ tokens[i].kind \in {"identifier", "delimited", "temp", "variable"}
Interval(start, end) == [start |-> start, end |-> end]

\* Parentheses open before each token of a document; one too many closing counts.
RECURSIVE DepthsFrom(_, _, _)
DepthsFrom(tokens, i, depth) ==
  IF i > Len(tokens) THEN <<>>
  ELSE <<depth>> \o DepthsFrom(tokens, i + 1, CASE Spells(tokens[i], "(") -> depth + 1
                                                [] Spells(tokens[i], ")") -> depth - 1
                                                [] OTHER -> depth)
DocumentTokenDepths(tokens) == DepthsFrom(tokens, 1, 0)

\* The parenthesis that closes the one at open; the last token when none does.
Matching(tokens, depths, open) ==
  Min({i \in (open + 1)..Len(tokens) : Spells(tokens[i], ")") /\ depths[i] = depths[open] + 1}
        \cup {Len(tokens)})

(* What is known by a name or a place before the queries are read. *)

RowSource(kind, name, start, end) == [kind |-> kind, name |-> name, start |-> start, end |-> end]

\* Temporary tables and table variables that the text before the cursor declares.
DeclaredSources(before, batch) ==
  LET depths == DocumentTokenDepths(before)
      Declares(i) ==
        /\ \/ Says(before, i, {"create"}) /\ Says(before, i + 1, {"table"})
              /\ i + 2 \in DOMAIN before /\ before[i + 2].kind = "temp"
           \/ i >= batch /\ Says(before, i, {"declare"}) /\ Says(before, i + 2, {"table"})
              /\ before[i + 1].kind = "variable"
        /\ Says(before, i + 3, {"("})
      Fills(i) == Says(before, i, {"into"}) /\ i + 1 \in DOMAIN before /\ before[i + 1].kind = "temp"
      Select(i) == Max({0} \cup {j \in 1..i : Says(before, j, {"select", ";"})})
      Source(i) ==
        IF Fills(i)
        THEN RowSource("tempTable", before[i + 1].text,
                       IF Select(i) = 0 THEN 1 ELSE before[Select(i)].start, before[i + 1].end)
        ELSE LET name == IF Says(before, i, {"create"}) THEN i + 2 ELSE i + 1
             IN  RowSource(IF name = i + 2 THEN "tempTable" ELSE "tableVariable", before[name].text,
                           before[i].start, before[Matching(before, depths, i + 3)].end)
      found == Ascending({i \in DOMAIN before : Declares(i) \/ Fills(i)})
  IN  [k \in DOMAIN found |-> Source(found[k])]

\* The common table expressions that start at i, in their order.
RECURSIVE CommonTables(_, _, _)
CommonTables(before, depths, i) ==
  LET as   == IF Says(before, i + 1, {"("}) THEN Matching(before, depths, i + 1) + 1 ELSE i + 1
      last == Matching(before, depths, as + 1)
  IN  IF ~(Ident(before, i) /\ Says(before, as, {"as"}) /\ Says(before, as + 1, {"("})) THEN <<>>
      ELSE <<RowSource("cte", before[i].text, before[i].start, before[last].end)>>
           \o (IF Says(before, last + 1, {","}) THEN CommonTables(before, depths, last + 2) ELSE <<>>)

\* The derived tables from i on that are not in another one; the word after the parenthesis
\* is the alias, whatever it says.
RECURSIVE DerivedSources(_, _, _, _)
DerivedSources(tokens, depths, i, end) ==
  IF i >= end THEN <<>>
  ELSE LET close == Matching(tokens, depths, i + 1)
           alias == IF Says(tokens, close + 1, {"as"}) THEN close + 2 ELSE close + 1
       IN  IF Says(tokens, i, Introducers) /\ Says(tokens, i + 1, {"("}) /\ Ident(tokens, alias)
           THEN <<RowSource("derivedTable", tokens[alias].text, tokens[i].start, tokens[alias].end)>>
                \o DerivedSources(tokens, depths, close + 1, end)
           ELSE DerivedSources(tokens, depths, i + 1, end)

KnownSources(tokens, statement, cursor) ==
  LET before == SelectSeq(tokens, LAMBDA t : t.start < cursor)
  IN  DeclaredSources(before, BatchTokenRangeAtCursor(tokens, cursor).start)
      \o (IF Says(before, statement.start, {"with"})
          THEN CommonTables(before, DocumentTokenDepths(before), statement.start + 1) ELSE <<>>)
      \o DerivedSources(tokens, DocumentTokenDepths(tokens), statement.start, statement.end)

(* The queries. *)

\* The parenthesis that a SELECT is in, and none when it is not in one of this statement.
OpenOf(tokens, depths, statement, select) ==
  LET level == depths[select] - 1
  IN  Max({0} \cup {i \in statement.start..(select - 1) :
                      /\ Spells(tokens[i], "(") /\ depths[i] = level
                      /\ \A j \in i..(select - 1) : depths[j] >= level})

\* The end of a query: its parenthesis, the next set operator, or the statement.
EndOf(tokens, depths, statement, select) ==
  LET open  == OpenOf(tokens, depths, statement, select)
      close == IF open = 0 THEN statement.end
               ELSE Min({Matching(tokens, depths, open) + 1, statement.end})
  IN  Min({close} \cup {i \in (select + 1)..(close - 1) :
                          depths[i] = depths[select] /\ Says(tokens, i, SetOperators)})

\* What a query is, from where it is written.
QueryKind(tokens, open, parent) ==
  CASE open > 0 /\ Says(tokens, open - 1, {"apply"}) -> "applyRightQuery"
    [] open > 0 /\ Says(tokens, open - 1, {"from", "join"}) -> "derivedTable"
    [] OTHER -> IF parent > 0 THEN "correlatedExpressionSubquery" ELSE "topLevelQuery"

\* Where a statement ends in the text; the last one goes on to the cursor.
EndOffset(tokens, statement, cursor) ==
  IF statement.end <= Len(tokens) THEN tokens[statement.end].start
  ELSE Max({tokens[Len(tokens)].end, cursor})

\* The scope of one SELECT, after the ones before it.
ScopeOf(tokens, depths, statement, last, known, earlier, select) ==
  LET open   == OpenOf(tokens, depths, statement, select)
      end    == EndOf(tokens, depths, statement, select)
      parent == Max({0} \cup {k \in DOMAIN earlier : select < earlier[k].end})
      Defines(source) == /\ source.kind = "cte" /\ source.start < tokens[select].start
                         /\ source.end >= tokens[select].end
      kind == IF open > 0 /\ parent = 0 /\ \E k \in DOMAIN known : Defines(known[k]) THEN "cteDefinition"
              ELSE QueryKind(tokens, open, parent)
  IN  [select |-> select, end |-> end, parent |-> parent, kind |-> kind,
       range |-> Interval(tokens[select].start,
                          IF end = statement.end THEN last ELSE tokens[end - 1].end),
       \* How far to the left of it an APPLY sees; 0 is no bound.
       bound |-> IF kind = "applyRightQuery" THEN tokens[open].start ELSE 0]

RECURSIVE ScopesFrom(_, _, _, _, _, _, _)
ScopesFrom(tokens, depths, statement, last, known, earlier, i) ==
  CASE i >= statement.end -> earlier
    [] i < statement.end /\ ~Spells(tokens[i], "select") ->
         ScopesFrom(tokens, depths, statement, last, known, earlier, i + 1)
    [] OTHER ->
         ScopesFrom(tokens, depths, statement, last, known,
                    Append(earlier, ScopeOf(tokens, depths, statement, last, known, earlier, i)), i + 1)

\* The query a cursor is in: the last to start of those that contain it.
ActiveQuery(scopes, cursor) ==
  Max({0} \cup {q \in DOMAIN scopes : scopes[q].range.start <= cursor /\ cursor <= scopes[q].range.end})

\* Depths in the query a cursor is in: parentheses still open at the cursor do not count after
\* it, and the ones that close them do not either.
RECURSIVE ContinuationFrom(_, _, _, _, _)
ContinuationFrom(tokens, i, level, depth, pending) ==
  LET closes == i <= Len(tokens) /\ Spells(tokens[i], ")")
      ends   == closes /\ depth <= level /\ pending > 0
  IN  IF i > Len(tokens) THEN <<>>
      ELSE <<depth>> \o ContinuationFrom(tokens, i + 1, level,
                          CASE Spells(tokens[i], "(") -> depth + 1
                            [] closes /\ ~ends -> depth - 1
                            [] OTHER -> depth,
                          IF ends THEN pending - 1 ELSE pending)
CompletionContinuationDepths(tokens, depths, cursor, level) ==
  LET after == {i \in DOMAIN tokens : tokens[i].start >= cursor}
      first == Min(after)
  IN  IF after = {} THEN depths
      ELSE IF depths[first] <= level THEN depths
      ELSE SubSeq(depths, 1, first - 1)
           \o ContinuationFrom(tokens, first, level, level, depths[first] - level)

\* The last part of the name that starts at p.
RECURSIVE LastPart(_, _)
LastPart(tokens, p) ==
  IF Says(tokens, p + 1, {"."}) /\ Ident(tokens, p + 2) THEN LastPart(tokens, p + 2) ELSE p

\* The first of the known sources among those found, or none.
First(known, found) == IF found = {} THEN <<>> ELSE <<known[Min(found)]>>

\* The parts of what follows FROM, JOIN or APPLY at i: where its name or its parenthesis ends
\* and, unless it is 0, the token of its alias.
SourceAfter(tokens, depths, i) ==
  LET open == Says(tokens, i + 1, {"("})
      name == IF open THEN i + 1 ELSE LastPart(tokens, i + 1)
      last == IF open THEN Matching(tokens, depths, name)
              ELSE IF Says(tokens, name + 1, {"("}) THEN Matching(tokens, depths, name + 1) ELSE name
      before == IF Says(tokens, last + 1, {"as"}) THEN last + 1 ELSE last
      named  == Ident(tokens, before + 1) /\ ~Says(tokens, before + 1, Reserved)
  IN  [isSource |-> open \/ Ident(tokens, i + 1), open |-> open, name |-> name, last |-> last,
       alias |-> IF named THEN before + 1 ELSE 0, end |-> IF named THEN before + 1 ELSE before]

\* What FROM, JOIN or APPLY at i brings in: none or one binding.
BindingAt(tokens, depths, known, query, i) ==
  LET here   == SourceAfter(tokens, depths, i)
      own    == tokens[here.name].text
      source == First(known, {k \in DOMAIN known : IF here.open THEN known[k].start = tokens[i].start
                                                   ELSE known[k].name = own})
      qualifier == IF here.alias # 0 THEN tokens[here.alias].text
                   ELSE IF ~here.open THEN own
                   ELSE IF source # <<>> THEN source[1].name ELSE <<>>
      start == tokens[i + 1].start
  IN  IF ~here.isSource THEN <<>>
      ELSE IF (~here.open /\ Says(tokens, here.name + 1, {"."})) \/ qualifier = <<>> THEN <<>>
      ELSE <<[query |-> query, at |-> i, qualifier |-> qualifier, explicit |-> here.alias # 0,
              source |-> IF source # <<>> THEN source[1]
                         ELSE RowSource("object", own, tokens[i].start, tokens[here.end].end),
              expression |-> Interval(start, tokens[here.last].end),
              path |-> IF here.open THEN Interval(0, 0) ELSE Interval(start, tokens[here.name].end)]>>

\* The scopes of a statement, their bindings in order, and the scope the cursor is in.
QueryScopeModel(tokens, statement, cursor, known) ==
  LET depths == DocumentTokenDepths(tokens)
      scopes == ScopesFrom(tokens, depths, statement, EndOffset(tokens, statement, cursor), known,
                           <<>>, statement.start)
      active == ActiveQuery(scopes, cursor)
      Local(q) ==
        LET select == scopes[q].select
            here == IF q = active THEN CompletionContinuationDepths(tokens, depths, cursor, depths[select])
                    ELSE depths
            introducers == Ascending({i \in (select + 1)..(scopes[q].end - 1) :
                                        Says(tokens, i, Introducers) /\ here[i] = here[select]})
        IN  FlattenSeq([k \in DOMAIN introducers |-> BindingAt(tokens, depths, known, q, introducers[k])])
  IN  [scopes |-> scopes, active |-> active,
       bindings |-> FlattenSeq([q \in DOMAIN scopes |-> Local(q)])]

AnalyzeDocument(tokens, cursor) ==
  LET statement == StatementTokenRangeAtCursor(tokens, cursor)
  IN  QueryScopeModel(tokens, statement, cursor, KnownSources(tokens, statement, cursor))

(* The two ways to look up a name. *)

AllowsOuter(scope) == scope.kind \in {"correlatedExpressionSubquery", "applyRightQuery"} /\ scope.parent > 0

\* The queries whose names a query sees, the nearest first, each with how far it sees.
RECURSIVE VisibilityChain(_, _, _)
VisibilityChain(scopes, query, bound) ==
  IF query = 0 THEN <<>>
  ELSE <<[query |-> query, bound |-> bound]>>
       \o (IF AllowsOuter(scopes[query])
           THEN VisibilityChain(scopes, scopes[query].parent, scopes[query].bound) ELSE <<>>)
Within(end, bound) == bound = 0 \/ end <= bound

\* The row sources that completion shows: of each name the nearest, and the first in a query.
VisibleRowSources(model) ==
  LET chain == VisibilityChain(model.scopes, model.active, 0)
      Seen(step) == SelectSeq(model.bindings, LAMBDA b : b.query = step.query /\ Within(b.source.end, step.bound))
      all == FlattenSeq([k \in DOMAIN chain |-> Seen(chain[k])])
  IN  {all[k] : k \in {n \in DOMAIN all : \A m \in 1..(n - 1) : all[m].qualifier # all[n].qualifier}}

Named(model, name) == {b \in Range(model.bindings) : b.qualifier = name}

\* The one row source of a name in the nearest query that has the name.
ResolveQueryScopeRowSource(model, query, name) ==
  LET chain == VisibilityChain(model.scopes, query, 0)
      Matches(k) == {b \in Named(model, name) : b.query = chain[k].query
                                                  /\ Within(b.expression.end, chain[k].bound)}
      steps == {k \in DOMAIN chain : Matches(k) # {}}
  IN  IF steps = {} THEN {}
      ELSE IF Cardinality(Matches(Min(steps))) = 1 THEN Matches(Min(steps)) ELSE {}

Around(scopes, offset) ==
  {q \in DOMAIN scopes : scopes[q].range.start <= offset /\ offset < scopes[q].range.end}

\* The first query found around a place, however long.
FirstScopeAround(scopes, offset) == Min(Around(scopes, offset) \cup {Len(scopes) + 1}) % (Len(scopes) + 1)

\* The query a place is in: the shortest.
QueryScopeAtOffset(scopes, offset) ==
  LET around == Around(scopes, offset)
      Length(q) == scopes[q].range.end - scopes[q].range.start
      shortest == {q \in around : \A other \in around : Length(q) <= Length(other)}
  IN  IF around = {} THEN 0 ELSE Min(shortest)

(* The columns that a star stands for. *)

\* Every source has columns, but a derived table in parentheses that are not known has none.
HasColumns(tokens, depths, known, i) ==
  Says(tokens, i + 1, {"("}) => \E k \in DOMAIN known : known[k].start = tokens[i].start

\* The qualifiers that a star is expanded with: those from its FROM to the end of the
\* statement on its level.  None when it is not a star of a select list, or lacks columns.
ResolveSelectWildcard(tokens, star) ==
  LET cursor == tokens[star].end
      statement == StatementTokenRangeAtCursor(tokens, cursor)
      known  == KnownSources(tokens, statement, cursor)
      depths == DocumentTokenDepths(tokens)
      Level(from, to) == {i \in from..to : depths[i] = depths[star]}
      qualified == Says(tokens, star - 1, {"."}) /\ Ident(tokens, star - 2)
      item == IF qualified THEN star - 2 ELSE star
      words == {i \in Level(statement.start, star - 1) : Says(tokens, i, {"select", "from"})}
      froms == {i \in Level(star + 1, statement.end - 1) : Spells(tokens[i], "from")}
      brought == {i \in Level(Min(froms), statement.end - 1) :
                    Says(tokens, i, Introducers) /\ SourceAfter(tokens, depths, i).isSource}
      Name(i) == LET here == SourceAfter(tokens, depths, i)
                 IN  IF here.alias # 0 THEN tokens[here.alias].text
                     ELSE IF here.open THEN <<>> ELSE tokens[here.name].text
      order == Ascending(brought)
  IN  IF ~(/\ statement.start <= star /\ star < statement.end
           /\ words # {} /\ Spells(tokens[Max(words \cup {1})], "select") /\ froms # {}
           /\ item - 1 \in Level(item - 1, item - 1) => Says(tokens, item - 1, {",", "select"})
           /\ (star < Len(tokens) /\ depths[star + 1] = depths[star]) =>
                Says(tokens, star + 1, {",", "into", "from"}))
      THEN <<>>
      ELSE IF qualified
      THEN IF \E i \in brought : /\ tokens[item].text \in {Name(i), tokens[SourceAfter(tokens, depths, i).name].text}
                                 /\ HasColumns(tokens, depths, known, i)
           THEN <<tokens[item].text>> ELSE <<>>
      ELSE IF \E i \in brought : Name(i) = <<>> \/ ~HasColumns(tokens, depths, known, i) THEN <<>>
      ELSE [k \in DOMAIN order |-> Name(order[k])]

(* The errors about aliases. *)

\* The one alias of this name in the statement, when no query around the place has the name.
ResolveUniqueInvisibleExplicitAlias(model, query, name) ==
  LET around == {step.query : step \in Range(VisibilityChain(model.scopes, query, 0))}
      all == Named(model, name)
  IN  IF query # 0 /\ Cardinality(all) = 1 /\ \A b \in all : b.query \notin around
      THEN {b \in all : b.explicit} ELSE {}

IsModuleDefinitionBatch(tokens, start, end) ==
  /\ Says(tokens, start, {"create", "alter"})
  /\ \E i \in (start + 1)..(end - 1) :
       /\ Says(tokens, i, {"proc", "procedure", "function", "trigger"})
       /\ \A j \in (start + 1)..(i - 1) : ~Says(tokens, j, {";", "as"})

\* The statements whose names are checked.
CheckedStatements(tokens) ==
  {s \in DocumentStatementTokenRanges(tokens) :
     /\ Says(tokens, s.start, {"select", "with", "insert", "update", "delete", "merge", "set", "declare"})
     /\ \E b \in DocumentBatchTokenRanges(tokens) :
          b.start <= s.start /\ s.end <= b.end /\ ~IsModuleDefinitionBatch(tokens, b.start, b.end)}
AnalyzeStatement(tokens, s) == QueryScopeModel(tokens, s, tokens[s.end - 1].end, <<>>)

\* The qualifiers of a statement that are reported as not visible (QP1002).
InvisibleAliases(tokens, s) ==
  LET model == AnalyzeStatement(tokens, s)
      paths == {b.path : b \in Range(model.bindings)}
      Qualifies(i) == /\ tokens[i].kind \in {"identifier", "delimited"} /\ Says(tokens, i + 1, {"."})
                      /\ ~Says(tokens, i - 1, {"."}) /\ ~Says(tokens, i + 3, {".", "("})
  IN  {i \in s.start..(s.end - 2) :
         /\ Len(model.scopes) > 1 /\ Qualifies(i)
         /\ ~\E path \in paths : path.start <= tokens[i].start /\ path.end >= tokens[i].end
         /\ ResolveUniqueInvisibleExplicitAlias(
              model, QueryScopeAtOffset(model.scopes, tokens[i].start), tokens[i].text) # {}}

\* What a statement brings in is written as it should be: then a repeated alias is an error.
SourcesAreWhole(tokens, s) ==
  LET level == [i \in s.start..s.end |->
                  Cardinality({j \in s.start..(i - 1) : Spells(tokens[j], "(")})
                  - Cardinality({j \in s.start..(i - 1) : Spells(tokens[j], ")")})]
      RECURSIVE NameIsWhole(_)
      NameIsWhole(p) ==
        Says(tokens, p + 1, {"."}) =>
          /\ Ident(tokens, p + 2) /\ ~(tokens[p + 2].kind # "delimited" /\ Says(tokens, p + 2, {"as"}))
          /\ NameIsWhole(p + 2)
  IN  /\ \A i \in s.start..s.end : level[i] >= 0
      /\ level[s.end] = 0
      /\ \A i \in s.start..(s.end - 1) :
           Says(tokens, i, Introducers) =>
             Says(tokens, i + 1, {"("}) \/ (Ident(tokens, i + 1) /\ NameIsWhole(i + 1))

\* The bindings of a statement that repeat an alias of their query (QP1003).
DuplicateAliases(tokens, s) ==
  LET explicit == SelectSeq(AnalyzeStatement(tokens, s).bindings, LAMBDA b : b.explicit)
      Repeats(n) == \E m \in 1..(n - 1) : /\ explicit[m].query = explicit[n].query
                                          /\ explicit[m].qualifier = explicit[n].qualifier
  IN  IF SourcesAreWhole(tokens, s) THEN {explicit[n].at : n \in {k \in DOMAIN explicit : Repeats(k)}} ELSE {}
=============================================================================
