-------------------------- MODULE MCEditorTriggers --------------------------
(* Constants for the runs of the automatic triggers: two panes of one      *)
(* document, and a document nobody shows, such as an output channel.       *)
EXTENDS EditorTriggers, TLC

CONSTANTS left, right, sql, log

MCDocumentOf == (left :> sql) @@ (right :> sql)
=============================================================================
