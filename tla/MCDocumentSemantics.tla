------------------------ MODULE MCDocumentSemantics ------------------------
(* Constants for the runs of the semantic models.                          *)
EXTENDS DocumentSemantics, TLC

CONSTANTS r1, r2, c1, c2, k1

MCSymmetry == Permutations(Request) \cup Permutations(Cursor)
=============================================================================
