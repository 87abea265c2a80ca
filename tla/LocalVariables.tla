--------------------------- MODULE LocalVariables ---------------------------
(***************************************************************************)
(* The local variables of a batch (parser/LocalVariableSymbols.ts) and the *)
(* error about one that only an earlier batch declares (QP1001 of          *)
(* parser/DocumentSemanticDiagnostics.ts).  Completion asks for the ones   *)
(* before a cursor, the diagnostics for all of a batch, and each has its   *)
(* own idea of the statement of a DECLARE.  Types and initial values are   *)
(* left out.                                                               *)
(***************************************************************************)
EXTENDS QueryScopes

\* The variables that the DECLARE at i declares before the cursor: the first after DECLARE and
\* after each comma that is not in parentheses.
RECURSIVE Declarators(_, _, _, _, _, _)
Declarators(tokens, i, end, cursor, depth, expecting) ==
  IF i >= end THEN <<>>
  ELSE IF tokens[i].start >= cursor THEN <<>>
  ELSE LET now == CASE Spells(tokens[i], "(") -> depth + 1
                    [] Spells(tokens[i], ")") -> depth - 1
                    [] OTHER -> depth
           names == expecting /\ tokens[i].kind = "variable"
           symbol == [name |-> tokens[i].text, table |-> Says(tokens, i + 1, {"table"}),
                      start |-> tokens[i].start, end |-> tokens[i].end]
       IN  (IF names THEN <<symbol>> ELSE <<>>)
           \o Declarators(tokens, i + 1, end, cursor, now,
                          (now = 0 /\ Spells(tokens[i], ",")) \/ (expecting /\ ~names))

\* The DECLAREs of a batch before the cursor.
Declares(tokens, cursor, batch) ==
  {i \in batch.start..(batch.end - 1) : Plain(tokens[i]) = <<"declare">> /\ tokens[i].start < cursor}

\* The variables of DECLAREs, ends being where the statement of each ends: of each name the first.
CollectBatchLocalVariables(tokens, cursor, ends) ==
  LET declares == Ascending(DOMAIN ends)
      all == FlattenSeq([k \in DOMAIN declares |->
               Declarators(tokens, declares[k] + 1, ends[declares[k]], cursor, 0, TRUE)])
  IN  {all[k] : k \in {n \in DOMAIN all : \A m \in 1..(n - 1) : all[m].name # all[n].name}}

\* For completion: those declared before the cursor in its batch.
ResolveBatchLocalVariables(tokens, cursor) ==
  CollectBatchLocalVariables(tokens, cursor,
    [i \in Declares(tokens, cursor, BatchTokenRangeAtCursor(tokens, cursor)) |->
       StatementTokenRangeAtCursor(tokens, tokens[i].end).end])

\* For the errors: all of a batch, where a DECLARE that is in no statement declares nothing.
ResolveLocalVariablesInBatch(tokens, batch, statements) ==
  LET cursor == tokens[batch.end - 1].end
      Of(i) == {s \in statements : s.start <= i /\ i < s.end}
  IN  CollectBatchLocalVariables(tokens, cursor,
        [i \in {d \in Declares(tokens, cursor, batch) : Of(d) # {}} |-> (CHOOSE s \in Of(i) : TRUE).end])

\* The places of variables that are only declared in an earlier batch.
MissingVariables(tokens) ==
  LET statements == DocumentStatementTokenRanges(tokens)
      batches == {b \in DocumentBatchTokenRanges(tokens) : ~IsModuleDefinitionBatch(tokens, b.start, b.end)}
      Of(b) == ResolveLocalVariablesInBatch(tokens, b, {s \in statements : b.start <= s.start /\ s.end <= b.end})
      Missing(b) ==
        {i \in UNION {s.start..(s.end - 1) : s \in {c \in CheckedStatements(tokens) :
                                                       b.start <= c.start /\ c.end <= b.end}} :
           /\ tokens[i].kind = "variable"
           /\ ~\E v \in Of(b) : v.name = tokens[i].text /\ v.start <= tokens[i].start
           /\ \E c \in batches : c.end <= b.start /\ \E v \in Of(c) : v.name = tokens[i].text}
  IN  UNION {Missing(b) : b \in batches}
=============================================================================
