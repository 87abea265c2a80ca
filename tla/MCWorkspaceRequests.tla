------------------------ MODULE MCWorkspaceRequests ------------------------
(* Constants for the run of the workspace requests.                        *)
EXTENDS WorkspaceRequests, TLC

CONSTANTS a, b, c1, c2, d1, d2, x1, x2, r1, r2

MCConnectionOf == a :> c1 @@ b :> None
MCKindOf == r1 :> "observe" @@ r2 :> "save"
MCDatabaseOf == x1 :> d1 @@ x2 :> d2
=============================================================================
