----------------------------- MODULE ScopedNames -----------------------------
(***************************************************************************)
(* What the lookups of a row source promise each other.  Completion shows  *)
(* the list that the analysis of the document prepares; hover, navigation, *)
(* column completion and the errors about aliases search the queries       *)
(* themselves.  Each walks the queries with rules of its own.              *)
(***************************************************************************)
EXTENDS QueryScopes, LocalVariables

\* The names before a dot, where a row source is looked up.
Qualifiers(tokens) ==
  {i \in DOMAIN tokens : Ident(tokens, i) /\ Says(tokens, i + 1, {"."}) /\ ~Says(tokens, i - 1, {"."})}

Twice(model, name) == \E b, c \in Named(model, name) : b.query = c.query /\ b.at # c.at

\* A name in FROM that is also the name of a common table expression, a temporary table or
\* the alias of a derived table: the binding has the place of that.
Borrowed(tokens, b) == b.source.start # tokens[b.at].start

(* Behind the dot of a qualifier, completion shows one row source of the name exactly when
   hover and navigation resolve it, and it is the same one, also when the place decides which
   query is asked and not the cursor.  A name that one query has twice is resolved by none,
   while completion shows the first.
   Excepted in the right side of an APPLY are names that are Borrowed: completion asks where
   that is declared, and the others where the name is used (DocumentSemanticAnalyzer.ts:1051,
   QueryScopeResolver.ts:82). *)
VisibilityAgrees(tokens) ==
  \A i \in Qualifiers(tokens) :
    LET name  == tokens[i].text
        model == AnalyzeDocument(tokens, tokens[i + 1].end)
        shown == {b \in VisibleRowSources(model) : b.qualifier = name}
        place == QueryScopeAtOffset(model.scopes, tokens[i].start)
        resolved == ResolveQueryScopeRowSource(model, model.active, name)
    IN  /\ ResolveQueryScopeRowSource(model, place, name) = resolved
        /\ \/ resolved = shown
           \/ resolved = {} /\ Twice(model, name)
           \/ /\ \E step \in Range(VisibilityChain(model.scopes, model.active, 0)) : step.bound > 0
              /\ \E b \in Named(model, name) : Borrowed(tokens, b)

(* A qualifier that is reported as not visible in its query (QP1002) is not offered there;
   and when a query that completion reads has one written alias twice, the second is reported
   (QP1003), if what the statement brings in is whole. *)
ErrorsAreTrue(tokens) ==
  Qualifiers(tokens) # {} =>
    \A s \in CheckedStatements(tokens) :
      LET invisible == InvisibleAliases(tokens, s)
          repeated  == DuplicateAliases(tokens, s)
      IN  \A i \in Qualifiers(tokens) \cap s.start..(s.end - 1) :
            LET model == AnalyzeDocument(tokens, tokens[i + 1].end)
                named == Named(model, tokens[i].text)
            IN  /\ i \in invisible => \A b \in VisibleRowSources(model) : b \notin named
                /\ SourcesAreWhole(tokens, s) =>
                     \A b, c \in named :
                       (b.query = c.query /\ b.at < c.at /\ b.explicit /\ c.explicit) => c.at \in repeated

(* A star is expanded with the row sources of its own query, in their order.  Excepted are
   stars whose query ends before the statement, at a set operator or a parenthesis, when more
   is brought in behind it on the same level: the end of the statement is taken for the end of
   the query (DocumentSemanticAnalyzer.ts:1452), so the columns of another branch of a UNION
   are written into this one. *)
StarIsItsQuery(tokens) ==
  \A star \in {i \in DOMAIN tokens : Spells(tokens[i], "*")} :
    LET model == AnalyzeDocument(tokens, tokens[star].end)
        query == QueryScopeAtOffset(model.scopes, tokens[star].start)
        depths == DocumentTokenDepths(tokens)
        own == SelectSeq(model.bindings, LAMBDA b : b.query = query)
        expansion == ResolveSelectWildcard(tokens, star)
        statement == StatementTokenRangeAtCursor(tokens, tokens[star].end)
        MoreBehind == \E i \in model.scopes[query].end..(statement.end - 1) :
                        depths[i] = depths[star] /\ Says(tokens, i, Introducers)
    IN  expansion # <<>> =>
          \/ MoreBehind
          \/ expansion = [k \in DOMAIN own |-> own[k].qualifier]
          \/ Says(tokens, star - 1, {"."})

(* A variable is reported as missing from its batch (QP1001) exactly when completion does
   not list it where it is used, and lists it at the end of an earlier batch. *)
MissingIsNotListed(tokens) ==
  LET Listed(cursor) == {v.name : v \in ResolveBatchLocalVariables(tokens, cursor)}
      batches == {b \in DocumentBatchTokenRanges(tokens) : ~IsModuleDefinitionBatch(tokens, b.start, b.end)}
      missing == MissingVariables(tokens)
  IN  \A b \in batches : \A i \in b.start..(b.end - 1) :
        LET earlier == {c \in batches : c.end <= b.start /\ tokens[i].text \in Listed(tokens[c.end - 1].end)}
        IN  (/\ tokens[i].kind = "variable"
             /\ \E s \in CheckedStatements(tokens) : s.start <= i /\ i < s.end
             /\ \A v \in ResolveBatchLocalVariables(tokens, tokens[i].end) : v.start # tokens[i].start)
            => (i \in missing <=> (tokens[i].text \notin Listed(tokens[i].start) /\ earlier # {}))
=============================================================================
