----------------------------- MODULE MCLanguage -----------------------------
(* Every short text after a SELECT, every short list of words, of types, of *)
(* declarations and of clauses, and small workspaces with and without a     *)
(* query: each grown one piece at a time, and run when it is long enough.   *)
EXTENDS FormattedStatements

CONSTANTS MaxCharacters, MaxWords, MaxTypes, MaxDeclarations, MaxClauses, MaxItems, MaxParts

T == INSTANCE SqlTypes
R == INSTANCE MCRelationships
N == INSTANCE ScopedNames

VARIABLES input,   \* what the user has written so far
          ran      \* the program has worked on it, and nothing more is written
vars == <<input, ran>>

Characters ==
  {"x", "N", "e", "1", ".", "'", "[", "]", "--", "/*", "*/", "@", "=", ";", "(", ")", " ", "\n", "go", ":"}
CharacterText(c) ==
  CASE c = "--" -> <<"-", "-">> [] c = "/*" -> <<"/", "*">> [] c = "*/" -> <<"*", "/">> [] OTHER -> <<c>>

Words ==
  {"select", "insert", "values", "update", "set", "with", "cte", "union", "all", "merge", "exec",
   "case", "end", "if", "x", "(", ")", ";", "go", "query"}
WordText(word) ==
  CASE word \in {"(", ")", ";"} -> <<word>>
    [] word = "go" -> <<"\n", "go", "\n">>
    [] word = "query" -> <<"select", " ", "x", " ">>
    [] word = "cte" -> <<"with", " ", "x", " ", "as", "(", "select", " ", "x", ")">>
    [] OTHER -> <<word, " ">>

Spaced(words) == FlattenSeq([i \in DOMAIN words |-> <<words[i], " ">>])

\* Declarations and uses of one variable, in batches and statements.
Declarations ==
  {"declare @v", ", @v", "select @v", "go", "with x as (", "create proc", "(", ")", "if", ";", "set", "insert"}
DeclarationText(d) ==
  CASE d = "declare @v" -> <<"declare", " ", "@", "v", " ">>
    [] d = ", @v" -> <<",", "@", "v", " ">>
    [] d = "select @v" -> <<"select", " ", "@", "v", " ">>
    [] d = "go" -> <<"\n", "go", "\n">>
    [] d = "with x as (" -> Spaced(<<"with", "x", "as", "(">>)
    [] d = "create proc" -> Spaced(<<"create", "proc">>)
    [] OTHER -> Spaced(<<d>>)

\* A query that looks for b, and what may bring in a b; #d and the common table b are known
\* when the text begins with them.
Inner == <<"(", "select", "*", "from", "c">>
Clauses == {"join b", "join #d as b", "where b.", "join (", "apply (", "exists (", ")", ") b", "union"}
ClauseText(c) ==
  Spaced(CASE c = "known" -> <<"select", "*", "into", "#d", "from", "c", ";", "with", "b", "as">>
                                \o Inner \o <<")">>
           [] c = "select" -> <<"select", "*", "from", "c", "a">>
           [] c = "join b" -> <<"join", "b">>
           [] c = "join #d as b" -> <<"join", "#d", "as", "b">>
           [] c = "where b." -> <<"where", "b", ".", "y">>
           [] c = "join (" -> <<"join">> \o Inner
           [] c = "apply (" -> <<"apply">> \o Inner
           [] c = "exists (" -> <<"where", "exists">> \o Inner
           [] c = ")" -> <<")">>
           [] c = ") b" -> <<")", "b">>
           [] c = "union" -> <<"union", "select", "*", "from", "c">>)
Count(clauses, some) == Cardinality({i \in DOMAIN clauses : clauses[i] \in some})
Opened(clauses) == Count(clauses, {"join (", "apply (", "exists ("}) - Count(clauses, {")", ") b"})

Catalogued ==
  {T!Known(n) : n \in {"int", "bigint", "float", "numeric", "date", "uniqueidentifier", "hierarchyid"}}
  \cup {T!Sized(n, l) : n \in {"varchar", "nvarchar"}, l \in {10, T!MaxLength}}
  \cup {T!Scaled("decimal", 10, 2), T!Scaled("decimal", 8, 4), T!Unknown,
        T!UserDefined("dbo.key", "int"), T!UserDefined("dbo.flag", "bigint"), T!UserDefined("dbo.key", "")}
Branches == Catalogued \cup {T!NullLiteral}

\* The workspaces in which queries are written.
Asked(catalog, items) ==
  /\ catalog.type # "own" /\ catalog.keys \in {"primary", "wide"}
  /\ catalog.shared = "group" => (catalog.foreign = "several" /\ items = <<>>)
  /\ items \in {<<>>} \cup {<<i>> : i \in R!Items \cup R!Records}
  /\ \A k \in DOMAIN items :
       \/ items[k].said = "userConfirmed"
       \/ items[k].said = "learned" /\ items[k].count = 3 /\ items[k].ends = <<1, 2>>
       \/ items[k].said = R!NotGiven /\ items[k].ends = <<2, 2>> /\ items[k].pairs = R!Key1
       \/ items[k].said = R!NotGiven /\ items[k].ends = <<1, 2>> /\ Len(items[k].pairs) = 2

None == [type |-> "none"]
Init ==
  /\ ran = FALSE
  /\ input \in
       [kind : {"characters", "words", "types", "declarations"}, items : {<<>>}, catalog : {None}, query : {<<>>}]
         \cup [kind : {"clauses"}, items : {<<"select">>, <<"known", "select">>},
               catalog : {None}, query : {<<>>}]
         \cup [kind : {"workspace"}, items : {<<>>}, catalog : R!CatalogNames, query : {<<>>}]

Write(kind) == ~ran /\ input.kind = kind /\ UNCHANGED ran
Grow(kind, limit, pieces) ==
  /\ Write(kind) /\ input.query = <<>> /\ Len(input.items) < limit
  /\ \E piece \in pieces : input' = [input EXCEPT !.items = Append(@, piece)]
Type == Grow("types", MaxTypes, Branches)
Character == Grow("characters", MaxCharacters, Characters)
WriteWord == Grow("words", MaxWords, Words)
Declare == Grow("declarations", MaxDeclarations, Declarations)
WriteClause == Grow("clauses", MaxClauses, {c \in Clauses : Opened(Append(input.items, c)) >= 0})
Configure == Grow("workspace", MaxItems, R!Items \cup R!Records)
Ask ==
  /\ Write("workspace") /\ input.query = <<>> /\ Asked(input.catalog, input.items)
  /\ \E part \in R!QueryParts : input' = [input EXCEPT !.query = <<part>>]
WritePart ==
  /\ Write("workspace") /\ input.query # <<>> /\ Len(input.query) < MaxParts
  /\ \E part \in R!PredicateParts : input' = [input EXCEPT !.query = Append(@, part)]

\* The scanner, the analyses and the formatter each take the finished input and return.
Run == ~ran /\ ran' = TRUE /\ UNCHANGED input

Next == Run \/ Character \/ WriteWord \/ Declare \/ WriteClause \/ Type \/ Configure \/ Ask \/ WritePart
Spec == Init /\ [][Next]_vars

Text ==
  LET Of(Piece(_)) == FlattenSeq([i \in DOMAIN input.items |-> Piece(input.items[i])])
  IN  CASE input.kind = "words" -> Of(WordText)
        [] input.kind = "declarations" -> Of(DeclarationText)
        [] input.kind = "clauses" -> Of(ClauseText)
        [] OTHER -> <<"select", " ">> \o Of(CharacterText)
IsText == input.kind \in {"characters", "words"}

Workspace ==
  R!WorkspaceOf(input.catalog, SelectSeq(input.items, LAMBDA i : i.said # "learned"),
                SelectSeq(input.items, LAMBDA i : i.said = "learned"))
Query == R!QueryOf(input.query, input.catalog)
IsWorkspace == input.kind = "workspace"

NamesHold(tokens) ==
  /\ input.kind = "clauses" => N!VisibilityAgrees(tokens) /\ N!ErrorsAreTrue(tokens)
  /\ (input.kind = "clauses" /\ Len(input.items) < MaxClauses) => N!StarIsItsQuery(tokens)
  /\ input.kind = "declarations" => N!MissingIsNotListed(tokens)

\* Formatting one unit of a document leaves the others as they are: the regions of a document
\* share it out, and a text the guard accepts for a unit stays in its place.
FormattingIsLocal == [][Run /\ IsText => RegionsTile(Text) /\ FormatsInPlace(Text)]_vars

\* What is one statement for formatting is one statement for the analyses, and every cursor in
\* it is in that statement.
StatementsAgree == [][Run /\ IsText => CursorAgrees(Text) /\ UnitsAreStatements(Text)]_vars

\* What completion lists for a name, what navigation resolves it to, and what is reported as an
\* error about it agree: for row sources in queries, and for variables in batches.
NamesAgree == [][Run => NamesHold(TokenizeSql(Text))]_vars

\* Types are as close one way as the other.  A CASE or COALESCE has the same type in whatever
\* order its branches are written, and nesting never gives it another one: it keeps it, or
\* nothing is known because a branch was not resolved.
TypesAgree ==
  [][Run /\ input.kind = "types" =>
       /\ T!ClosenessIsMutual(SelectSeq(input.items, LAMBDA t : t # T!NullLiteral))
       /\ T!ReconcileIsOne(input.items)]_vars

\* A relationship is offered once, from the source that is trusted most; suggestions come last.
OffersAgree ==
  [][Run /\ IsWorkspace /\ input.query = <<>> => R!OfferedOnce(Workspace) /\ R!SuggestedLast(Workspace)]_vars

\* What a JOIN says can be saved once, and an accepted predicate says what it was offered from.
JoinsAreUnderstood ==
  [][Run /\ IsWorkspace /\ input.query # <<>> =>
       R!SavedOnce(Workspace, Query) /\ R!AcceptedIsUnderstood(Workspace, Query)]_vars
=============================================================================
