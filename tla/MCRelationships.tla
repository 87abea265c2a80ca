-------------------------- MODULE MCRelationships --------------------------
(* The workspaces and the queries that the relationships are checked with.  *)
EXTENDS RelationshipOffers

Shop == Name(<<"shop">>)
Id == Name(<<"id">>)
CustomerId == Name(<<"customer", "id">>)
Customers == Name(<<"customer", "s">>)
Orders == Name(<<"order", "s">>)
Report == Name(<<"report">>)

\* Two tables and a view.  The columns that differ: the type of customerid, and the name of
\* a column that both tables have.
Types == {"bigint", "guid", "own"}
TypeOf(type) ==
  CASE type = "bigint" -> Known("bigint")
    [] type = "guid" -> Known("uniqueidentifier")
    [] type = "own" -> UserDefined("dbo.key", "int")
Field(name, type) == [name |-> name, type |-> type]
Objects3(type, shared) ==
  <<[id |-> 1, kind |-> "table", name |-> Customers,
     columns |-> <<Field(Id, Known("int")), Field(shared, Sized("varchar", 10))>>],
    [id |-> 2, kind |-> "table", name |-> Orders,
     columns |-> <<Field(Id, Known("int")), Field(shared, Sized("nvarchar", 10)),
                   Field(CustomerId, TypeOf(type))>>],
    [id |-> 3, kind |-> "view", name |-> Report, columns |-> <<Field(Id, Known("int"))>>]>>

Key(object, columns, filtered) == [object |-> object, columns |-> columns, filtered |-> filtered]
KeysOf(keys, shared) ==
  CASE keys = "none" -> {}
    [] keys = "primary" -> {Key(1, <<Id>>, FALSE), Key(2, <<Id>>, FALSE)}
    [] keys = "filtered" -> {Key(1, <<Id>>, TRUE), Key(2, <<CustomerId>>, FALSE)}
    [] keys = "wide" -> {Key(1, <<shared, Id>>, FALSE), Key(2, <<Id, CustomerId>>, FALSE)}

ForeignKeysOf(foreign, shared, objects) ==
  LET One == <<Mapping(CustomerId, Id)>>
      Two == <<Mapping(CustomerId, Id), Mapping(shared, shared)>>
      Foreign(n, target, columns, disabled) ==
        [id |-> n, parent |-> objects[2], referenced |-> objects[target], columns |-> columns,
         disabled |-> disabled]
  IN  CASE foreign = "none" -> <<>>
        [] foreign = "enabled" -> <<Foreign(1, 1, One, FALSE)>>
        [] foreign = "disabled" -> <<Foreign(1, 1, One, TRUE)>>
        [] foreign = "several" -> <<Foreign(1, 1, One, TRUE), Foreign(2, 1, One, FALSE), Foreign(3, 1, Two, FALSE)>>
        [] foreign = "self" -> <<Foreign(1, 2, One, FALSE)>>

\* A catalog by its parts; a foreign key has columns of types that convert.
CatalogNames ==
  {c \in [type : Types, shared : {"code", "group"}, keys : {"none", "primary", "filtered", "wide"},
          foreign : {"none", "enabled", "disabled", "several", "self"}] :
     c.type = "guid" => c.foreign = "none"}
CatalogOf(c) ==
  LET shared == Name(<<c.shared>>)
      objects == Objects3(c.type, shared)
  IN  [database |-> Shop, objects |-> objects, keys |-> KeysOf(c.keys, shared),
       foreignKeys |-> ForeignKeysOf(c.foreign, shared, objects)]

End(name) == [database |-> Shop, name |-> name]
Pairs(pairs, shared) ==
  LET Field2(f) == CASE f = "id" -> Id [] f = "ID" -> Capital(Id.pieces) [] f = "customerid" -> CustomerId
                     [] f = "CUSTOMERID" -> Capital(CustomerId.pieces) [] f = "shared" -> shared
  IN  [i \in DOMAIN pairs |-> Mapping(Field2(pairs[i][1]), Field2(pairs[i][2]))]

\* What the file and the evidence may say, by name: [provenance, count, ends, columns].
Key1 == <<<<"customerid", "id">>>>
Items ==
  {[said |-> p, count |-> 0, ends |-> <<2, 1>>, pairs |-> Key1] : p \in {NotGiven, "userConfirmed", "heuristicCandidate"}}
  \cup {[said |-> NotGiven, count |-> 0, ends |-> e, pairs |-> p] :
          <<e, p>> \in
            {<<<<1, 2>>, <<<<"ID", "CUSTOMERID">>>>>>,
             <<<<2, 1>>, <<<<"shared", "shared">>, <<"customerid", "id">>>>>>,
             <<<<1, 2>>, <<<<"id", "customerid">>, <<"shared", "shared">>>>>>,
             <<<<2, 2>>, Key1>>, <<<<2, 2>>, <<<<"id", "customerid">>>>>>, <<<<2, 2>>, <<<<"id", "id">>>>>>,
             <<<<2, 1>>, <<<<"customerid", "id">>, <<"customerid", "shared">>>>>>,
             <<<<2, 1>>, <<>>>>, <<<<2, 4>>, Key1>>, <<<<3, 1>>, <<<<"id", "id">>>>>>,
             <<<<2, 1>>, <<<<"shared", "id">>>>>>}}
Records ==
  {[said |-> "learned", count |-> n, ends |-> e, pairs |-> p] :
     <<e, p>> \in {<<<<2, 1>>, Key1>>, <<<<1, 2>>, <<<<"id", "customerid">>>>>>, <<<<2, 1>>, <<<<"id", "id">>>>>>},
     n \in 2..4}
Ends == <<End(Customers), End(Orders), End(Report), [database |-> Name(<<"other">>), name |-> Customers]>>
DefinitionOf(i, shared) == Definition(i.said, Ends[i.ends[1]], Ends[i.ends[2]], Pairs(i.pairs, shared))
RecordOf(i, shared) ==
  [source |-> Ends[i.ends[1]], target |-> Ends[i.ends[2]], mappings |-> Pairs(i.pairs, shared), count |-> i.count]

WorkspaceOf(catalog, entries, evidence) ==
  LET shared == Name(<<catalog.shared>>)
  IN  [catalog |-> CatalogOf(catalog),
       entries |-> [i \in DOMAIN entries |-> DefinitionOf(entries[i], shared)],
       evidence |-> [i \in DOMAIN evidence |-> RecordOf(evidence[i], shared)]]

A == Name(<<"a">>)
B == Name(<<"b">>)
From(left, right) == <<Word("select"), Word("from"), left, Word("join"), right, Word("on")>>
Equal(p, n, q, m) == <<Column(p, n), Word("="), Column(q, m)>>
QueryParts ==
  {"customer order", "order customer", "order order", "two of a name", "report order", "three", "cross"}
PredicateParts ==
  {"a.id = b.customerid", "B.CUSTOMERID = a.id", "a.shared = b.shared", "a.customerid = b.id",
   "c.customerid = a.id", "and B.CUSTOMERID = a.id", "b.id", "and", "or", "(", ")", "between", "where"}
Part(p, shared) ==
  CASE p = "customer order" -> From(Source(Customers, A), Source(Orders, B))
    [] p = "order customer" -> From(Source(Orders, A), Source(Customers, B))
    [] p = "order order" -> From(Source(Orders, A), Source(Orders, B))
    [] p = "two of a name" -> From(Source(Orders, A), Source(Orders, Capital(A.pieces)))
    [] p = "report order" -> From(Source(Report, A), Source(Orders, B))
    [] p = "three" -> From(Source(Customers, A), Source(Orders, B)) \o Equal(A, Id, B, CustomerId)
                      \o <<Word("inner"), Word("join"), Source(Orders, Name(<<"c">>)), Word("on")>>
    [] p = "cross" -> <<Word("select"), Word("from"), Source(Orders, Name(<<"c">>)), Word("cross"),
                        Word("join"), Source(Customers, A), Word("on")>>
    [] p = "a.id = b.customerid" -> Equal(A, Id, B, CustomerId)
    [] p = "B.CUSTOMERID = a.id" -> Equal(Capital(B.pieces), Capital(CustomerId.pieces), A, Id)
    [] p = "and B.CUSTOMERID = a.id" -> <<Word("and")>> \o Equal(Capital(B.pieces), Capital(CustomerId.pieces), A, Id)
    [] p = "a.shared = b.shared" -> Equal(A, shared, B, shared)
    [] p = "a.customerid = b.id" -> Equal(A, CustomerId, B, Id)
    [] p = "c.customerid = a.id" -> Equal(Name(<<"c">>), CustomerId, A, Id)
    [] p = "b.id" -> <<Column(B, Id)>>
    [] OTHER -> IF p \in {"and", "or", "(", ")", "between", "where"} THEN <<Word(p)>> ELSE <<>>
QueryOf(parts, catalog) ==
  FlattenSeq([i \in DOMAIN parts |-> Part(parts[i], Name(<<catalog.shared>>))])
=============================================================================
