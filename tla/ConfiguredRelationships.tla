---------------------- MODULE ConfiguredRelationships ----------------------
(***************************************************************************)
(* What becomes of the definitions of a relationship file                  *)
(* (relationships/ProjectRelationshipConfig.ts), of what was learned from  *)
(* saved queries (LearnedRelationshipCandidatePolicy.ts) and of what names *)
(* and keys suggest (HeuristicRelationshipCandidatePolicy.ts), when they   *)
(* meet the catalog.                                                       *)
(***************************************************************************)
EXTENDS Relationships

Persisted == {"projectDefined", "userConfirmed"}
NotGiven == ""

\* The elements of a list at some places, in their order (Array.filter).
Kept(list, places) ==
  LET kept[i \in 0..Len(list)] ==
        IF i = 0 THEN <<>> ELSE IF i \in places THEN Append(kept[i - 1], list[i]) ELSE kept[i - 1]
  IN  kept[Len(list)]

\* An entry of the file: provenance, two endpoints [database, name], pairs of columns.
Definition(provenance, source, target, mappings) ==
  [provenance |-> provenance, source |-> source, target |-> target, mappings |-> mappings]

ValidName(name) == name.pieces # <<>>
ParsesEndpoint(endpoint) == ValidName(endpoint.database) /\ ValidName(endpoint.name)
ParsesMappings(mappings) ==
  mappings # <<>> /\ \A i \in DOMAIN mappings : ValidName(mappings[i].source) /\ ValidName(mappings[i].target)
ParsesDefinition(raw) ==
  /\ raw.provenance \in Persisted \cup {NotGiven}
  /\ ParsesEndpoint(raw.source) /\ ParsesEndpoint(raw.target)
  /\ ParsesMappings(raw.mappings)

\* The entries that can be read; the others are reported.
ParseDefinitions(entries) == Kept(entries, {i \in DOMAIN entries : ParsesDefinition(entries[i])})

ProvenanceOf(definition) ==
  IF definition.provenance = "userConfirmed" THEN "userConfirmed" ELSE "projectDefined"
DefinitionIdentity(definition) ==
  RelationshipMappingIdentity(definition.source, definition.target, definition.mappings)

\* What adding an entry to the file does: nothing while an entry cannot be read or one of
\* the same identity is there.
AppendDefinition(entries, definition) ==
  CASE \E i \in DOMAIN entries : ~ParsesDefinition(entries[i]) -> [kind |-> "invalid", entries |-> entries]
    [] \E i \in DOMAIN entries : /\ \A j \in DOMAIN entries : ParsesDefinition(entries[j])
                                 /\ DefinitionIdentity(entries[i]) = DefinitionIdentity(definition) ->
         [kind |-> "duplicate", entries |-> entries]
    [] OTHER -> [kind |-> "written", entries |-> Append(entries, definition)]

\* The columns that one pair of names stands for, if both tables have them.
ResolvedMapping(source, target, mapping) ==
  {<<source.columns[i], target.columns[j]>> :
     i \in ColumnNamed(source, mapping.source), j \in ColumnNamed(target, mapping.target)}

Compatible(left, right) == CompareSqlTypes(left.type, right.type) # "incompatible"

\* The relationship of a definition in this catalog, or none.
ResolveDefinition(definition, index) ==
  LET current == Normalize(index.metadata.database)
      local == /\ Normalize(definition.source.database) = current
               /\ Normalize(definition.target.database) = current
      Tables(name) == {o \in FindObject(index, name) : o.kind = "table"}
      Columns(s, t) == [i \in DOMAIN definition.mappings |->
                          ResolvedMapping(s, t, definition.mappings[i])]
      Found(s, t) == \A i \in DOMAIN definition.mappings :
                       \E pair \in Columns(s, t)[i] : Compatible(pair[1], pair[2])
      Repeats == \E i, j \in DOMAIN definition.mappings :
                   /\ i # j
                   /\ \/ Normalize(definition.mappings[i].source) = Normalize(definition.mappings[j].source)
                      \/ Normalize(definition.mappings[i].target) = Normalize(definition.mappings[j].target)
      OntoItself(s, t) == s.id = t.id /\ \A pair \in MappingNames(definition.mappings) : pair[1] = pair[2]
      Catalogued(s, t) == [i \in DOMAIN definition.mappings |->
                             LET pair == CHOOSE p \in Columns(s, t)[i] : TRUE
                             IN  Mapping(pair[1].name, pair[2].name)]
      ends == {st \in Tables(definition.source.name) \X Tables(definition.target.name) :
                 /\ local /\ definition.mappings # <<>>
                 /\ Found(st[1], st[2]) /\ ~Repeats /\ ~OntoItself(st[1], st[2])}
  IN  {Relationship(ProvenanceOf(definition), Reference(index.metadata.database, st[1]),
                    Reference(index.metadata.database, st[2]), Catalogued(st[1], st[2])) : st \in ends}

\* A definition of an identity that is there only makes it confirmed by the user.
AddConfigured(result, r) ==
  LET same == {i \in DOMAIN result :
                 RelationshipSemanticIdentity(result[i]) = RelationshipSemanticIdentity(r)}
  IN  CASE same = {} -> Append(result, r)
        [] same # {} /\ r.provenance = "userConfirmed" /\ result[Min(same)].provenance = "projectDefined" ->
             [result EXCEPT ![Min(same)] = r]
        [] OTHER -> result

AddDefinition(index, result, definition) ==
  LET resolved == ResolveDefinition(definition, index)
  IN  IF resolved = {} THEN result ELSE AddConfigured(result, CHOOSE r \in resolved : TRUE)

ResolveProjectRelationships(definitions, index) ==
  LET result[i \in 0..Len(definitions)] ==
        IF i = 0 THEN <<>> ELSE AddDefinition(index, result[i - 1], definitions[i])
  IN  result[Len(definitions)]

\* The catalog with the relationships of the file over it.
WithProject(index, definitions) ==
  LET resolved == ResolveProjectRelationships(definitions, index)
  IN  IF resolved = <<>> THEN index ELSE DatabaseIndex(index.metadata, resolved)

-----------------------------------------------------------------------------
Threshold == 3  \* LEARNED_RELATIONSHIP_CANDIDATE_THRESHOLD

NoneStronger(index) == {}

\* What a learned candidate may not repeat: keys and definitions of the file.
Stronger(index) ==
  {RelationshipSemanticIdentity(r) : r \in {q \in Range(index.relationships) : TrustRank(q) <= 2}}

\* One more record of evidence: enough of it, still true of the catalog, and nothing
\* stronger says the same.  Of two records of one relationship the more frequent counts.
AddLearned(index, result, record) ==
  LET resolved == ResolveDefinition(Definition(NotGiven, record.source, record.target, record.mappings), index)
      Candidate(r) == [r EXCEPT !.provenance = "learnedFromQuery", !.count = record.count]
      same(r) == {i \in DOMAIN result :
                    RelationshipSemanticIdentity(result[i]) = RelationshipSemanticIdentity(r)}
  IN  IF \/ record.count < Threshold \/ resolved = {}
         \/ \E r \in resolved : RelationshipSemanticIdentity(r) \in Stronger(index)
      THEN result
      ELSE LET r == CHOOSE q \in resolved : TRUE
           IN  CASE same(r) = {} -> Append(result, Candidate(r))
                 [] same(r) # {} /\ result[Min(same(r))].count < record.count ->
                      [result EXCEPT ![Min(same(r))] = Candidate(r)]
                 [] OTHER -> result

ResolveLearnedCandidates(evidence, index) ==
  LET result[i \in 0..Len(evidence)] ==
        IF i = 0 THEN <<>> ELSE AddLearned(index, result[i - 1], evidence[i])
  IN  result[Len(evidence)]

\* The relationships that are not foreign keys of the catalog, in their order.
Additional(relationships) ==
  Kept(relationships, {i \in DOMAIN relationships : ~IsDeclared(relationships[i])})

\* The catalog with the learned candidates beside what is configured.
WithLearned(index, evidence) ==
  LET learned == ResolveLearnedCandidates(evidence, index)
  IN  IF learned = <<>> THEN index
      ELSE DatabaseIndex(index.metadata, Additional(index.relationships) \o learned)

-----------------------------------------------------------------------------
\* The name of a table as a column may begin with it: all of it, or without its last s.
TargetNameForms(name) ==
  LET exact == Normalize(name)
      plural == /\ Len(exact) > 1 /\ Last(exact) = "s"
                /\ Last(Front(exact)) \notin {"s", "ie", "se"}
  IN  {exact} \cup (IF plural THEN {Front(exact)} ELSE {})

KnownCompatible(source, target) ==
  /\ source.type.kind = "known" /\ target.type.kind = "known"
  /\ CompareSqlTypes(target.type, source.type) \in Close

\* The columns of source that may be meant by one key column, and whether the name of the
\* table is in them; those that carry it come before those that only have the same name.
Assignments(source, target, column) ==
  LET Usable(c) == KnownCompatible(c, column)
      aware == {i \in DOMAIN source.columns :
                  /\ Usable(source.columns[i])
                  /\ \E form \in TargetNameForms(target.name) :
                       Normalize(source.columns[i].name) = form \o Normalize(column.name)}
      alike == {i \in DOMAIN source.columns :
                  /\ Usable(source.columns[i])
                  /\ Normalize(source.columns[i].name) = Normalize(column.name)}
  IN  IF aware # {} THEN [columns |-> aware, aware |-> TRUE] ELSE [columns |-> alike, aware |-> FALSE]

\* The mappings that cover a whole key of target: every column in exactly one way, no
\* column twice, and at least one named after the table.
MappingsForCompleteKey(source, target, key) ==
  LET found == \A i \in DOMAIN key.columns : ColumnNamed(target, key.columns[i]) # {}
      Part(i) == Assignments(source, target,
                   target.columns[CHOOSE j \in ColumnNamed(target, key.columns[i]) : TRUE])
      Chosen(i) == CHOOSE c \in Part(i).columns : TRUE
  IN  IF \/ key.columns = <<>> \/ ~found
         \/ \E i \in DOMAIN key.columns : Cardinality(Part(i).columns) # 1
         \/ \E i, j \in DOMAIN key.columns : i # j /\ Chosen(i) = Chosen(j)
         \/ \A i \in DOMAIN key.columns : ~Part(i).aware
      THEN {}
      ELSE {[i \in DOMAIN key.columns |->
               Mapping(source.columns[Chosen(i)].name,
                       target.columns[CHOOSE j \in ColumnNamed(target, key.columns[i]) : TRUE].name)]}

ProposalsForDirection(index, source, target) ==
  UNION {{<<key, Relationship("heuristicCandidate", Reference(index.metadata.database, source),
                              Reference(index.metadata.database, target), mappings)>> :
            mappings \in MappingsForCompleteKey(source, target, key)} :
           key \in {k \in KeysForObject(index, target) : ~k.filtered}}

\* The one relationship that names and keys of two tables suggest, if nothing stronger is
\* known between them.
ResolveHeuristicCandidate(index, left, right) ==
  LET proposals == ProposalsForDirection(index, left, right) \cup ProposalsForDirection(index, right, left)
  IN  IF \/ left.kind # "table" \/ right.kind # "table" \/ left.id = right.id
         \/ RelationshipsBetween(index, left, right) # {}
         \/ Cardinality(proposals) # 1
      THEN {} ELSE {p[2] : p \in proposals}
=============================================================================
