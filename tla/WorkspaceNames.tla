--------------------------- MODULE WorkspaceNames ---------------------------
(* What the connection of an editor and the relationships of a workspace   *)
(* folder both speak of.                                                   *)
CONSTANTS
  Database,  \* databases of a connection
  None       \* the value undefined
=============================================================================
