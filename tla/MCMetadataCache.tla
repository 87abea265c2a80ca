------------------------- MODULE MCMetadataCache -------------------------
(***************************************************************************)
(* Constants for the runs of the schema cache and its status item, and for *)
(* the run about liveness, which symmetry may not reduce, a specification  *)
(* that names the objects of the cache in one way only.                    *)
(***************************************************************************)
EXTENDS MetadataLifecycleStatus, TLC

CONSTANTS k1, n1, e1, e2, t1, t2, t3, t4, c1, c2

MCConnectionOf == k1 :> n1
MCSymmetry ==
  Permutations(Entry) \cup Permutations(Task) \cup Permutations(Caller)

-----------------------------------------------------------------------------
(* An entry has at most one initialization and one refresh (SingleFlight), *)
(* so its promises can be named after it: there always is one to start.    *)
MCTask == Entry \X {"initialization", "refresh"}

(* Of the names that mean the same, a step takes a fixed one: the promise  *)
(* its entry and kind name, the first entry nobody holds, and the first    *)
(* caller that is idle.                                                    *)
Canonical ==
  /\ \A t \in Task : ~Free(t)' => t = <<task'[t].entry, task'[t].kind>>
  /\ \A e, f \in Entry :
       f < e /\ ~Referenced(e) /\ Referenced(e)' => Referenced(f)
  /\ \A c, d \in Caller :
       d < c /\ caller[c].pc = "idle" /\ caller'[c].pc # "idle" =>
         caller[d].pc # "idle"

MCFairSpec ==
  StatusInit /\ [][StatusNext /\ Canonical]_statusVars /\ Fairness
=============================================================================
