-------------------------- MODULE TriggerLifecycle --------------------------
(***************************************************************************)
(* What docs/COMPLETION_PIPELINE.md:510-517 promises of automatic          *)
(* completion: one lifecycle per trigger.  A trigger waits, is cancelled   *)
(* or begins to resolve, and then opens the suggestions once or not at     *)
(* all.  Only the newest trigger waits, and one resolves at a time.        *)
(***************************************************************************)
CONSTANT Trigger

VARIABLE stage

Stage == {"untyped", "waiting", "resolving", "opening", "over"}

In(s) == {t \in Trigger : stage[t] = s}
Moves(t, s) == stage' = [stage EXCEPT ![t] = s]

Init == stage = [t \in Trigger |-> "untyped"]

(* The next edit: what waited is over, and the edit is a trigger or none.  *)
Types(t) ==
  /\ stage[t] = "untyped"
  /\ \E s \in {"waiting", "over"} :
       stage' = [u \in Trigger |->
         IF u = t THEN s
         ELSE IF stage[u] = "waiting" THEN "over" ELSE stage[u]]

Cancels(t) == stage[t] = "waiting" /\ Moves(t, "over")

Resolves(t) ==
  /\ stage[t] = "waiting"
  /\ In("resolving") \cup In("opening") = {}
  /\ Moves(t, "resolving")

Opens(t) == stage[t] = "resolving" /\ Moves(t, "opening")

Ends(t) == stage[t] \in {"resolving", "opening"} /\ Moves(t, "over")

Next ==
  \E t \in Trigger :
    Types(t) \/ Cancels(t) \/ Resolves(t) \/ Opens(t) \/ Ends(t)

Spec == Init /\ [][Next]_stage
=============================================================================
