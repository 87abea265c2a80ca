-------------------------- MODULE LearnedEvidence --------------------------
(***************************************************************************)
(* What a saved document teaches about relationships                       *)
(* (src/src/relationships/LearnedRelationshipEvidence.ts).                 *)
(*                                                                         *)
(* A relationship identity and the hash of a document are numbers, in the  *)
(* order localeCompare gives them.  A document's text is the sequence of   *)
(* the relationships its resolved JOINs stand for, in source order.        *)
(***************************************************************************)
EXTENDS Naturals, Sequences, FiniteSets

CONSTANTS
  Document, Relationship,
  EvidenceLimit,    \* MAX_LEARNED_RELATIONSHIP_EVIDENCE
  OccurrenceLimit   \* MAX_LEARNED_RELATIONSHIP_SEEN_OCCURRENCES

ASSUME IdentityAssumption ==
  /\ Document \subseteq Nat /\ Relationship \subseteq Nat
  /\ IsFiniteSet(Relationship)
ASSUME LimitAssumption == EvidenceLimit \in Nat /\ OccurrenceLimit \in Nat

(* The observation count of each relationship, 0 if there is no record.    *)
Evidence == [Relationship -> Nat]

(* The seen occurrences; order is the order of their insertion.            *)
Occurrence ==
  [document : Document, relationship : Relationship, ordinal : Nat, order : Nat]

(* One save: the document, its JOINs, and the relationships that are       *)
(* declared, confirmed or defined by the project already.                  *)
Save == [document : Document, joins : Seq(Relationship),
         known : SUBSET Relationship]

NoEvidence == [r \in Relationship |-> 0]

-----------------------------------------------------------------------------
(* Bounds: the strongest evidence and the newest occurrences stay, ties go *)
(* to the smaller identity.                                                *)
Stronger(evidence, r, s) ==
  evidence[r] > evidence[s] \/ (evidence[r] = evidence[s] /\ r < s)
StrongestEvidence(evidence) ==
  [r \in Relationship |->
    IF Cardinality({s \in Relationship : Stronger(evidence, s, r)}) < EvidenceLimit
    THEN evidence[r] ELSE 0]

Smaller(o, p) ==
  \/ o.document < p.document
  \/ /\ o.document = p.document
     /\ \/ o.relationship < p.relationship
        \/ o.relationship = p.relationship /\ o.ordinal < p.ordinal
Newer(o, p) == o.order > p.order \/ (o.order = p.order /\ Smaller(o, p))
BoundSeenOccurrences(seen) ==
  {o \in seen : Cardinality({p \in seen : Newer(p, o)}) < OccurrenceLimit}

-----------------------------------------------------------------------------
(* applyLearnedRelationshipEvidenceSave()                                  *)

Removals(save) == {r \in save.known : \E i \in DOMAIN save.joins : save.joins[i] = r}
Observed(save) == {i \in DOMAIN save.joins : save.joins[i] \notin save.known}

(* The zero-based ordinal among the JOINs of the same relationship.        *)
Ordinal(save, i) == Cardinality({j \in 1..(i - 1) : save.joins[j] = save.joins[i]})

IsOccurrence(o, save, i) ==
  /\ o.document = save.document /\ o.relationship = save.joins[i]
  /\ o.ordinal = Ordinal(save, i)
EveryObserved(seen, save) == Observed(save)
Fresh(seen, save) ==
  {i \in Observed(save) : ~\E o \in seen : IsOccurrence(o, save, i)}
LastOrder(seen) ==
  CHOOSE n \in {0} \cup {o.order : o \in seen} : \A o \in seen : o.order <= n

OrderOncePerSave(seen, save, i) ==
  IF i \in Fresh(seen, save)
  THEN LastOrder(seen) + 1
  ELSE (CHOOSE o \in seen : IsOccurrence(o, save, i)).order
OrderOf(seen, save, i) ==
  IF i \in Fresh(seen, save)
  THEN LastOrder(seen) + Cardinality({j \in Fresh(seen, save) : j <= i})
  ELSE (CHOOSE o \in seen : IsOccurrence(o, save, i)).order

SeenAfterUnremoved(seen, save) ==
  BoundSeenOccurrences(
    {o \in seen : o.document # save.document}
      \cup {[document |-> save.document, relationship |-> save.joins[i],
             ordinal |-> Ordinal(save, i), order |-> OrderOf(seen, save, i)] :
               i \in Observed(save)})

(* The occurrences of the document are replaced by those it has now, and   *)
(* those of a removed relationship go.                                     *)
SeenAfter(seen, save) ==
  BoundSeenOccurrences(
    {o \in seen : o.document # save.document /\ o.relationship \notin Removals(save)}
      \cup {[document |-> save.document, relationship |-> save.joins[i],
             ordinal |-> Ordinal(save, i), order |-> OrderOf(seen, save, i)] :
               i \in Observed(save)})

(* Only an occurrence that was not seen before counts.                     *)
EvidenceAfter(evidence, seen, save) ==
  StrongestEvidence(
    [r \in Relationship |->
      IF r \in Removals(save) THEN 0
      ELSE evidence[r] +
             Cardinality({i \in Fresh(seen, save) : save.joins[i] = r})])
=============================================================================
