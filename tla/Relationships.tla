--------------------------- MODULE Relationships ---------------------------
(***************************************************************************)
(* Relationships between tables (relationships/RelationshipModels.ts) and  *)
(* the catalog they are found in (metadata/DatabaseIndex.ts).              *)
(*                                                                         *)
(* A name is written [pieces, upper]: the pieces are what it says in lower *)
(* case, and upper is whether it is spelled with capitals.  A table has    *)
(* one name where the code has a schema and a name.                        *)
(***************************************************************************)
EXTENDS SqlTypes

Name(pieces) == [pieces |-> pieces, upper |-> FALSE]
Capital(pieces) == [pieces |-> pieces, upper |-> TRUE]
Normalize(name) == name.pieces

Provenance == {"declaredForeignKey", "userConfirmed", "projectDefined", "learnedFromQuery",
               "heuristicCandidate"}

Reference(database, object) == [database |-> database, name |-> object.name, id |-> object.id]
Mapping(source, target) == [source |-> source, target |-> target]
Relationship(provenance, source, target, mappings) ==
  [provenance |-> provenance, source |-> source, target |-> target, mappings |-> mappings,
   constraint |-> 0, disabled |-> FALSE, count |-> 0]

\* A foreign key of the catalog as a relationship: from its parent to what it references.
RelationshipFromForeignKey(database, key) ==
  [Relationship("declaredForeignKey", Reference(database, key.parent),
                Reference(database, key.referenced), key.columns)
     EXCEPT !.constraint = key.id, !.disabled = key.disabled]

IsDeclared(r) == r.provenance = "declaredForeignKey"

\* How far a relationship is trusted, and whether completion may offer it at all.
TrustRank(r) ==
  CASE r.provenance = "declaredForeignKey" -> 0
    [] r.provenance = "userConfirmed" -> 1
    [] r.provenance = "projectDefined" -> 2
    [] r.provenance = "learnedFromQuery" -> 3
    [] OTHER -> 4
IsProduction(r) == ~(IsDeclared(r) /\ r.disabled)

MappingNames(mappings) ==
  {<<Normalize(mappings[i].source), Normalize(mappings[i].target)>> : i \in DOMAIN mappings}
Turned(pairs) == {<<pair[2], pair[1]>> : pair \in pairs}
ObjectIdentity(reference) == <<Normalize(reference.database), Normalize(reference.name)>>

\* One way to read a relationship.
DirectedIdentity(source, target, mappings) ==
  {<<ObjectIdentity(source), ObjectIdentity(target), MappingNames(mappings)>>}

\* Its identity is the same whichever end it is read from, and in whatever order.  The code
\* takes the first of the two readings in the order of their texts.
RelationshipMappingIdentity(source, target, mappings) ==
  DirectedIdentity(source, target, mappings) \cup
  {<<ObjectIdentity(target), ObjectIdentity(source), Turned(MappingNames(mappings))>>}

RelationshipSemanticIdentity(r) == RelationshipMappingIdentity(r.source, r.target, r.mappings)

\* One more relationship: it stands beside those of its identity only if all are foreign
\* keys; otherwise the one that is trusted most stays, the first among equals.
AddRelationship(result, r) ==
  LET same == {i \in DOMAIN result :
                 RelationshipSemanticIdentity(result[i]) = RelationshipSemanticIdentity(r)}
      first == Min(same)
      existing == result[first]
      Rank(x) == IF IsProduction(x) THEN TrustRank(x) ELSE 5
  IN  CASE same = {} -> Append(result, r)
        [] same # {} /\ IsDeclared(existing) -> IF IsDeclared(r) THEN Append(result, r) ELSE result
        [] OTHER -> IF IsDeclared(r) \/ (IsProduction(r) /\ TrustRank(r) < Rank(existing))
                    THEN [result EXCEPT ![first] = r] ELSE result

DeduplicateRelationships(relationships) ==
  LET result[i \in 0..Len(relationships)] ==
        IF i = 0 THEN <<>> ELSE AddRelationship(result[i - 1], relationships[i])
  IN  result[Len(relationships)]

-----------------------------------------------------------------------------
\* A catalog: its tables and views with their columns, its keys, its foreign keys.
DatabaseIndex(metadata, additional) ==
  LET keys == metadata.foreignKeys
  IN  [metadata |-> metadata,
       relationships |->
         DeduplicateRelationships(
           [i \in DOMAIN keys |-> RelationshipFromForeignKey(metadata.database, keys[i])]
             \o additional)]

Objects(index) == Range(index.metadata.objects)
\* The object of a name; none, or at most one, for capitals are not told apart.
FindObject(index, name) == {o \in Objects(index) : Normalize(o.name) = Normalize(name)}
KeysForObject(index, object) == {k \in index.metadata.keys : k.object = object.id}
ColumnNamed(object, name) ==
  {i \in DOMAIN object.columns : Normalize(object.columns[i].name) = Normalize(name)}

Outgoing(index, id) == {r \in Range(index.relationships) : r.source.id = id}
\* Between two tables, in either direction.
RelationshipsBetween(index, left, right) ==
  {r \in Outgoing(index, left.id) : r.target.id = right.id} \cup
  {r \in Outgoing(index, right.id) : r.target.id = left.id}

ProductionBetween(index, left, right) ==
  {r \in RelationshipsBetween(index, left, right) : IsProduction(r)}
=============================================================================
