------------------------- MODULE JoinRelationships -------------------------
(***************************************************************************)
(* The relationship that a JOIN of a query says                            *)
(* (relationships/ResolvedJoinRelationship.ts), what becomes of it when it *)
(* is saved or learned, and the predicates that completion offers for a    *)
(* JOIN (completion/CandidateFactory.ts).                                  *)
(*                                                                         *)
(* A query is a sequence of tokens of three kinds: a word or a sign, a     *)
(* table with the name it is known by, a column with its qualifier.        *)
(***************************************************************************)
EXTENDS ConfiguredRelationships

BoundaryWords ==
  {"join", "inner", "left", "right", "full", "cross", "outer", "where", "group", "having",
   "order", "union", "intersect", "except", "option", "for", ";"}

\* The words that a name says to code that does not ask whether it is quoted.
Spoken(name) == IF Len(name.pieces) = 1 THEN {name.pieces[1]} ELSE {}
NoName == Name(<<>>)
Word(w) == [kind |-> "word", words |-> {w}, name |-> NoName, qualifier |-> NoName]
Source(name, qualifier) == [kind |-> "source", words |-> {}, name |-> name, qualifier |-> qualifier]
Column(qualifier, name) ==
  [kind |-> "column", words |-> Spoken(qualifier) \cup Spoken(name), name |-> name, qualifier |-> qualifier]

Says(token, word) == word \in token.words
CountBefore(query, i, word) == Cardinality({j \in 1..(i - 1) : Says(query[j], word)})
\* Not in a parenthesis: of the query itself.
Outermost(query, i) == CountBefore(query, i, "(") = CountBefore(query, i, ")")

\* The row sources of the query, at the places where they are named.
RowSources(query) == {i \in DOMAIN query : query[i].kind = "source" /\ Outermost(query, i)}

\* The JOINs: from the keyword to the next word that ends a predicate.
JoinSlices(query) ==
  LET Before(on) == {s \in RowSources(query) : s < on}
      Keywords(on) == {j \in 1..(on - 1) : /\ Outermost(query, j) /\ Says(query[j], "join")
                                           /\ j <= Max(Before(on))}
      ons == {i \in DOMAIN query : Says(query[i], "on") /\ Outermost(query, i)}
      Crossed(join) == join > 1 /\ Says(query[join - 1], "cross")
      Ends(on) == {i \in DOMAIN query : i > on /\ Outermost(query, i)
                                        /\ query[i].words \cap BoundaryWords # {}}
  IN  {[on |-> on, end |-> Min(Ends(on) \cup {Len(query) + 1}), right |-> Max(Before(on)),
        visible |-> Before(on), start |-> Max(Keywords(on))] :
         on \in {o \in ons : /\ Before(o) # {} /\ Keywords(o) # {}
                             /\ ~Crossed(Max(Keywords(o)))}}

ObjectOf(query, source, index) == FindObject(index, query[source].name)
\* The row source and the column that a reference names, if only one source is called so.
ColumnReference(query, i, visible, index) ==
  LET called == {s \in visible : Normalize(query[s].qualifier) = Normalize(query[i].qualifier)}
  IN  IF query[i].kind # "column" \/ Cardinality(called) # 1 THEN {}
      ELSE {<<s, c>> : s \in called,
              c \in UNION {ColumnNamed(o, query[i].name) : o \in ObjectOf(query, CHOOSE x \in called : TRUE, index)}}

\* The equations of a predicate that is nothing but equations; each a set of two references.
EqualityTerms(query, slice, index) ==
  LET length == slice.end - slice.on - 1
      At(i) == query[slice.on + i]
      Refers(i) == ColumnReference(query, slice.on + i, slice.visible, index)
      well == /\ length % 4 = 3
              /\ \A i \in 1..length :
                   CASE i % 2 = 1 -> Outermost(query, slice.on + i) /\ Refers(i) # {}
                     [] i % 4 = 2 -> Says(At(i), "=")
                     [] OTHER -> Says(At(i), "and")
  IN  IF ~well THEN <<>>
      ELSE [k \in 1..((length + 1) \div 4) |->
              <<CHOOSE r \in Refers(4 * k - 3) : TRUE, CHOOSE r \in Refers(4 * k - 1) : TRUE>>]

CoversUnfilteredKey(index, object, columns) ==
  \E key \in KeysForObject(index, object) :
    /\ ~key.filtered
    /\ Len(key.columns) = Cardinality(columns)
    /\ \A i \in DOMAIN key.columns :
         \E c \in columns : Normalize(object.columns[c].name) = Normalize(key.columns[i])

\* The table that is unique by these columns is the one the other refers to.
ResolveDirection(index, a, b, pairs) ==
  LET aUnique == CoversUnfilteredKey(index, a, {p[1] : p \in pairs})
      bUnique == CoversUnfilteredKey(index, b, {p[2] : p \in pairs})
  IN  CASE aUnique = bUnique -> "ambiguous"
        [] aUnique /\ ~bUnique -> "bToA"
        [] OTHER -> "aToB"

\* The pairs of columns as the first and the second row source have them.
PairsOf(terms, a) ==
  {IF t[1][1] = a THEN <<t[1][2], t[2][2]>> ELSE <<t[2][2], t[1][2]>> : t \in Range(terms)}

\* What the JOIN at a place of the query says, or nothing.
ResolveJoin(query, place, index) ==
  LET here == {s \in JoinSlices(query) : s.start <= place /\ place < s.end}
      slice == CHOOSE s \in here : TRUE
      terms == EqualityTerms(query, slice, index)
      bindings == {t[k][1] : t \in Range(terms), k \in {1, 2}}
      a == Min(bindings)
      b == Max(bindings)
      Table(s) == CHOOSE o \in ObjectOf(query, s, index) : TRUE
      pairs == PairsOf(terms, a)
      ok == /\ Cardinality(here) = 1
            /\ terms # <<>>
            /\ Cardinality(bindings) = 2 /\ slice.right \in bindings
            /\ Table(a).kind = "table" /\ Table(b).kind = "table"
            /\ Cardinality({p[1] : p \in pairs}) = Len(terms)
            /\ Cardinality({p[2] : p \in pairs}) = Len(terms)
            /\ \A p \in pairs : Compatible(Table(a).columns[p[1]], Table(b).columns[p[2]])
            /\ ~(Table(a).id = Table(b).id /\ \A p \in pairs : p[1] = p[2])
  IN  IF ~ok THEN {}
      ELSE {[a |-> Table(a), b |-> Table(b),
             pairs |-> SetToSortSeq(pairs, LAMBDA p, q : p[1] < q[1]),
             direction |-> ResolveDirection(index, Table(a), Table(b), pairs)]}

\* The candidate as a definition in one direction (userConfirmedDefinition, and with the
\* direction of the keys learnedEvidenceFromResolvedJoin).
DirectedDefinition(provenance, join, direction, index) ==
  LET Endpoint(o) == [database |-> index.metadata.database, name |-> o.name]
      columns == [k \in DOMAIN join.pairs |->
                    Mapping(join.a.columns[join.pairs[k][1]].name, join.b.columns[join.pairs[k][2]].name)]
  IN  IF direction = "aToB" THEN Definition(provenance, Endpoint(join.a), Endpoint(join.b), columns)
      ELSE Definition(provenance, Endpoint(join.b), Endpoint(join.a),
             [k \in DOMAIN columns |-> Mapping(columns[k].target, columns[k].source)])

\* The directions in which it may be saved: what the keys say, or what the user chooses.
Directions(join) == IF join.direction = "ambiguous" THEN {"aToB", "bToA"} ELSE {join.direction}

JoinIdentity(join, index) == DefinitionIdentity(DirectedDefinition("userConfirmed", join, "aToB", index))
Duplicate(join, index) ==
  \E r \in Range(index.relationships) : RelationshipSemanticIdentity(r) = JoinIdentity(join, index)

-----------------------------------------------------------------------------
\* The last part of a predicate being written, after the last AND that is not of a BETWEEN.
CurrentTerm(query, slice) ==
  LET Step(state, i) ==
        CASE ~Outermost(query, i) -> state
          [] Outermost(query, i) /\ Says(query[i], "between") -> [state EXCEPT !.between = TRUE]
          [] OTHER ->
               IF Says(query[i], "and") /\ state.between THEN [state EXCEPT !.between = FALSE]
               ELSE IF Says(query[i], "and") \/ Says(query[i], "or")
                    THEN [from |-> i + 1, between |-> FALSE]
                    ELSE state
  IN  FoldLeft(Step, [from |-> slice.on + 1, between |-> FALSE],
               [i \in 1..(slice.end - slice.on - 1) |-> slice.on + i]).from

\* Nothing, or one reference, has been written since.
PredicateReady(query, slice) ==
  LET from == CurrentTerm(query, slice)
  IN  from = slice.end \/ (from + 1 = slice.end /\ query[from].kind = "column")

Compared(query, i) ==
  {<<Normalize(query[j].qualifier), Normalize(query[j].name)>> : j \in {i - 1, i + 1}}
UsedComparisons(query, slice) ==
  {Compared(query, i) :
     i \in {j \in (slice.on + 2)..(CurrentTerm(query, slice) - 2) :
              Says(query[j], "=") /\ query[j - 1].kind = "column" /\ query[j + 1].kind = "column"}}

\* The two columns of a mapping at the joined table and at the other one.
Sides(relationship, table, mapping) ==
  IF table.id = relationship.source.id THEN <<mapping.source, mapping.target>>
  ELSE <<mapping.target, mapping.source>>

RenderJoinPredicate(relationship, table, right, left, mappings) ==
  LET Term(m) == <<Column(right, Sides(relationship, table, m)[1]), Word("="),
                   Column(left, Sides(relationship, table, m)[2])>>
  IN  FlattenSeq([i \in DOMAIN mappings |->
                    (IF i = 1 THEN <<>> ELSE <<Word("and")>>) \o Term(mappings[i])])

\* The predicates offered at the end of a JOIN: of every relationship to a table before it,
\* the comparisons that are not there yet.
JoinPredicates(query, slice, index) ==
  LET right == query[slice.right].qualifier
      tables(s) == {o \in ObjectOf(query, s, index) : o.kind = "table"}
      Joining(table, other) ==
        ProductionBetween(index, table, other) \cup ResolveHeuristicCandidate(index, table, other)
      Missing(r, table, left) ==
        SelectSeq(r.mappings, LAMBDA m :
          {<<Normalize(right), Normalize(Sides(r, table, m)[1])>>,
           <<Normalize(left), Normalize(Sides(r, table, m)[2])>>} \notin UsedComparisons(query, slice))
      Offers(s, table, other) ==
        {[relationship |-> r, left |-> s,
          terms |-> RenderJoinPredicate(r, table, right, query[s].qualifier,
                                        Missing(r, table, query[s].qualifier))] :
           r \in Joining(table, other)}
  IN  {offer \in UNION {UNION {Offers(s, table, other) :
                                 table \in tables(slice.right), other \in tables(s)} :
                          s \in slice.visible \ {slice.right}} :
         offer.terms # <<>>}

\* The query with an offered predicate put where the last term was being written.
Accept(query, slice, offer) ==
  SubSeq(query, 1, CurrentTerm(query, slice) - 1) \o offer.terms
    \o SubSeq(query, slice.end, Len(query))
=============================================================================
