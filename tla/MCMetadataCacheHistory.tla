---------------------- MODULE MCMetadataCacheHistory ----------------------
(* Constants for the runs of the cache with its status item and history.   *)
EXTENDS MetadataCacheHistory, TLC

CONSTANTS k1, n1, e1, e2, t1, t2, t3, t4, c1, c2

MCConnectionOf == k1 :> n1
MCSymmetry ==
  Permutations(Entry) \cup Permutations(Task) \cup Permutations(Caller)
=============================================================================
