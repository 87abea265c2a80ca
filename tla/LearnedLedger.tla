--------------------------- MODULE LearnedLedger ---------------------------
(***************************************************************************)
(* What docs/IMPLEMENTATION_PLAN.md promises of relationship learning:     *)
(* "Count each distinct occurrence-count increase once".  The ledger marks *)
(* the JOINs each document had when it was last observed, and counts those *)
(* that are not marked yet.  It remembers at most Limit marks.             *)
(***************************************************************************)
EXTENDS Naturals, FiniteSets

CONSTANTS Document, Relationship, Limit, MaxJoins

VARIABLES
  count,   \* observations of each relationship
  marked   \* <<d, r, n>>: document d has an n-th JOIN of r, and it was counted

vars == <<count, marked>>

Nothing == [r \in Relationship |-> 0]

Init == count \in [Relationship -> 0..1] /\ marked = {}

(* Document d has joins[r] JOINs of r now; the removed relationships are   *)
(* no longer learned.                                                      *)
Observe(d, joins, removed) ==
  LET now == {m \in {d} \X (Relationship \ removed) \X (1..MaxJoins) : m[3] <= joins[m[2]]}
      remembered == now \cup {m \in marked : m[1] # d /\ m[2] \notin removed}
  IN
  /\ count' = [r \in Relationship |->
       IF r \in removed THEN 0
       ELSE count[r] + Cardinality({m \in now \ marked : m[2] = r})]
  /\ marked' \subseteq remembered
  /\ marked' # remembered => Cardinality(marked') = Limit

Clear == count' = Nothing /\ marked' = {}

Next ==
  \/ Clear
  \/ \E d \in Document, joins \in [Relationship -> 0..MaxJoins],
        removed \in SUBSET Relationship : Observe(d, joins, removed)

Spec == Init /\ [][Next]_vars
=============================================================================
