-------------------------- MODULE MCSnapshotStore --------------------------
(* Constants for the runs of the snapshot files.                           *)
EXTENDS SnapshotStore, TLC

CONSTANTS w1, w2, o1, o2, o3, n1, n2, n3, s1, s2

MCSymmetry ==
  Permutations(Window) \cup Permutations(Operation) \cup Permutations(Name)
    \cup Permutations(Snapshot)
=============================================================================
