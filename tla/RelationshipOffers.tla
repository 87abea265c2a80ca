------------------------- MODULE RelationshipOffers -------------------------
(***************************************************************************)
(* What the relationships of one workspace promise each other: those of    *)
(* the keys, of the file, of saved queries and of names, and the JOINs     *)
(* that are offered from them and read back into them.                     *)
(***************************************************************************)
EXTENDS JoinRelationships

\* A workspace: its catalog, the entries of its file and the records of its evidence.
Configured(workspace) ==
  WithProject(DatabaseIndex(workspace.catalog, <<>>), ParseDefinitions(workspace.entries))
Complete(workspace) == WithLearned(Configured(workspace), workspace.evidence)

Identities(relationships) == {RelationshipSemanticIdentity(r) : r \in relationships}
OfIdentity(relationships, identity) ==
  {r \in Range(relationships) : RelationshipSemanticIdentity(r) = identity}

\* Columns that are named like a word that ends a predicate: ResolvedJoinRelationship.ts:72 and
\* :349 do not ask whether a name is quoted, and quoteIdentifier leaves such a name bare.
NamedLikeAWord(token) == token.words \cap (BoundaryWords \cup {"on", "and", "or", "between"}) # {}

(* What says the same is offered once: beside a foreign key there are only foreign keys,
   all of them, and otherwise one relationship, of the source that is trusted most.  Nothing that the
   file or the evidence says gets lost, unless a foreign key that is disabled says it too:
   that one hides it and is not offered either. *)
OfferedOnce(workspace) ==
  LET index == Complete(workspace)
      configured == Configured(workspace)
      base == DatabaseIndex(workspace.catalog, <<>>)
      keys == Range(base.relationships)
      file == Range(ResolveProjectRelationships(ParseDefinitions(workspace.entries), base))
      learned == Range(ResolveLearnedCandidates(workspace.evidence, configured))
      known == keys \cup file \cup learned
  IN  /\ Identities(Range(index.relationships)) = Identities(known)
      /\ keys \subseteq Range(index.relationships)
      /\ \A identity \in Identities(known) :
           LET offered == OfIdentity(index.relationships, identity)
               Ranks(rs) == {TrustRank(r) : r \in {q \in rs : RelationshipSemanticIdentity(q) = identity}}
           IN  /\ Cardinality(offered) = 1 \/ \A r \in offered : IsDeclared(r)
               /\ Ranks(offered) = {Min(Ranks(known))}
      /\ Identities(learned) \cap Identities(keys \cup file) = {}
      /\ Len(ResolveLearnedCandidates(workspace.evidence, configured)) = Cardinality(Identities(learned))

(* Names and keys suggest at most one relationship, the same whichever table is joined to
   the other, and only where nothing is known of the two tables: it has the identity of
   nothing that the catalog, the file or the evidence says. *)
SuggestedLast(workspace) ==
  LET index == Complete(workspace)
  IN  \A left, right \in Range(workspace.catalog.objects) :
        LET suggested == ResolveHeuristicCandidate(index, left, right)
        IN  /\ Cardinality(suggested) <= 1
            /\ Identities(suggested) = Identities(ResolveHeuristicCandidate(index, right, left))
            /\ suggested # {} => \A r \in Range(index.relationships) :
                                    {r.source.id, r.target.id} # {left.id, right.id}
            /\ Identities(suggested) \cap Identities(Range(index.relationships)) = {}

(* A JOIN that is not known yet is written to the file in the direction of its keys or in
   either one, the file then resolves to it, it is known from then on, and neither is it
   learned again nor suggested. *)
SavedOnce(workspace, query) ==
  LET index == Complete(workspace)
  IN  \A place \in DOMAIN query : \A join \in ResolveJoin(query, place, Configured(workspace)) :
        ~Duplicate(join, Configured(workspace)) =>
          \A direction \in Directions(join) :
            LET definition == DirectedDefinition("userConfirmed", join, direction, index)
                result == AppendDefinition(workspace.entries, definition)
                record == [source |-> definition.source, target |-> definition.target,
                           mappings |-> definition.mappings, count |-> Threshold]
                saved == [workspace EXCEPT !.entries = result.entries, !.evidence = Append(@, record)]
                after == Complete(saved)
            IN  result.kind # "invalid" =>
                  /\ result.kind = "written"
                  /\ \A again \in ResolveJoin(query, place, after) : Duplicate(again, after)
                  /\ ResolveJoin(query, place, after) # {}
                  /\ \E r \in OfIdentity(after.relationships, JoinIdentity(join, index)) :
                       r.provenance = "userConfirmed" /\ IsProduction(r)
                  /\ ResolveHeuristicCandidate(after, join.a, join.b) = {}

\* The comparisons of a relationship between two row sources.
Comparisons(query, slice, offer, table) ==
  {{<<Normalize(query[slice.right].qualifier), Normalize(Sides(offer.relationship, table, m)[1])>>,
    <<Normalize(query[offer.left].qualifier), Normalize(Sides(offer.relationship, table, m)[2])>>} :
     m \in Range(offer.relationship.mappings)}

(* A JOIN whose predicate is completed with what was offered says the relationship it was
   offered from, and that one is not offered again: if what was written before is part of
   the relationship and nothing else, and the row sources have names of their own. *)
AcceptedIsUnderstood(workspace, query) ==
  LET index == Complete(workspace)
  IN  \A slice \in {s \in JoinSlices(query) : PredicateReady(query, s)} :
        \A offer \in JoinPredicates(query, slice, index) :
          LET accepted == Accept(query, slice, offer)
              from == CurrentTerm(query, slice)
              table == CHOOSE o \in ObjectOf(query, slice.right, index) : TRUE
              written == SubSeq(query, slice.on + 1, from - 1)
              plain == /\ Len(written) % 4 = 0
                       /\ \A i \in DOMAIN written :
                            CASE i % 2 = 1 -> written[i].kind = "column"
                              [] i % 4 = 2 -> Says(written[i], "=")
                              [] OTHER -> Says(written[i], "and")
                       /\ Len(written) = 4 * Cardinality(UsedComparisons(query, slice))
                       /\ UsedComparisons(query, slice) \subseteq Comparisons(query, slice, offer, table)
              named == /\ \A s, t \in slice.visible :
                            Normalize(query[s].qualifier) = Normalize(query[t].qualifier) => s = t
                       /\ ~\E i \in DOMAIN accepted : accepted[i].kind = "column" /\ NamedLikeAWord(accepted[i])
              end == slice.end + Len(accepted) - Len(query)
              more == SubSeq(accepted, 1, end - 1) \o <<Word("and")>> \o SubSeq(accepted, end, Len(accepted))
          IN  (plain /\ named) =>
                /\ \E join \in ResolveJoin(accepted, slice.on, index) :
                     JoinIdentity(join, index) = RelationshipSemanticIdentity(offer.relationship)
                /\ \A other \in JoinPredicates(more, [slice EXCEPT !.end = end + 1], index) :
                     RelationshipSemanticIdentity(other.relationship) # RelationshipSemanticIdentity(offer.relationship)
                       \/ other.left # offer.left
=============================================================================
