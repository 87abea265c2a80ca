----------------------- MODULE MCLearnedEvidenceStore -----------------------
(* Constants for the runs of the learned evidence.                         *)
EXTENDS LearnedEvidenceStore

MCTexts == {<<>>, <<1>>, <<1, 1>>, <<2, 1>>}
=============================================================================
