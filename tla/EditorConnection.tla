-------------------------- MODULE EditorConnection --------------------------
(***************************************************************************)
(* Which connection and database the active editor has, asked through the  *)
(* connection sharing API of the mssql extension.                          *)
(*                                                                         *)
(* A lookup is one promise of resolveActive().  Callers that ask while it  *)
(* is in flight share it.  The user may switch editors and databases       *)
(* between any two of its awaits.                                          *)
(***************************************************************************)
EXTENDS Naturals, WorkspaceNames

CONSTANTS
  Editor,        \* editors of SQL documents
  Connection,    \* connections of the mssql extension
  ConnectionOf,  \* the connection of an editor, or None
  Lookup,        \* identities of the promises of resolveActive()
  MaxSwitches    \* bound on the switches of editors and databases

ASSUME ConnectionAssumption ==
  /\ ConnectionOf \in [Editor -> Connection \cup {None}]
  /\ None \notin Editor \cup Connection \cup Database \cup Lookup
  /\ MaxSwitches \in Nat

VARIABLES
  focus,          \* the active editor, or None
  database,       \* the database each connection is using
  sharing,        \* the API: "none", "acquiring" or "held"
  lookup,         \* the promises
  activeRequest,  \* the promise callers join, or None
  switches        \* how often the user switched

connectionVars == <<focus, database, sharing, lookup, activeRequest, switches>>

Context == [connection : Connection, database : Database]
Free == [pc |-> "free", connection |-> None, answer |-> None, calm |-> TRUE]

ConnectionTypeOK ==
  /\ focus \in Editor \cup {None}
  /\ database \in [Connection -> Database]
  /\ sharing \in {"none", "acquiring", "held"}
  /\ lookup \in [Lookup ->
       [pc : {"free", "api", "connection", "database", "fallback", "done"},
        connection : Connection \cup {None},
        answer : {None} \cup Context,
        calm : BOOLEAN]]
  /\ activeRequest \in Lookup \cup {None}
  /\ switches \in 0..MaxSwitches

ConnectionInit ==
  /\ focus \in Editor
  /\ database \in [Connection -> Database]
  /\ sharing = "none"
  /\ lookup = [l \in Lookup |-> Free]
  /\ activeRequest = None
  /\ switches = 0

-----------------------------------------------------------------------------
(* What the mssql extension would answer now. *)
ActiveConnection == IF focus = None THEN None ELSE ConnectionOf[focus]
ActiveContext ==
  IF ActiveConnection = None THEN None
  ELSE [connection |-> ActiveConnection, database |-> database[ActiveConnection]]

(* A promise that has come to its end answers every waiter, and active()   *)
(* forgets it.                                                             *)
AnsweredForEver(l, answer) ==
  /\ lookup' = [lookup EXCEPT ![l].pc = "done", ![l].answer = answer]
  /\ UNCHANGED activeRequest
Answered(l, answer) ==
  /\ lookup' = [lookup EXCEPT ![l].pc = "done", ![l].answer = answer]
  /\ activeRequest' = IF activeRequest = l THEN None ELSE activeRequest

(* active(): join the lookup in flight, or start one.                      *)
Joins(l) ==
  /\ activeRequest = l
  /\ UNCHANGED connectionVars

Starts(l) ==
  /\ activeRequest = None
  /\ lookup[l].pc = "free"
  /\ activeRequest' = l
  /\ lookup' = [lookup EXCEPT ![l].pc = IF sharing = "held" THEN "connection" ELSE "api"]
  /\ sharing' = IF sharing = "held" THEN sharing ELSE "acquiring"
  /\ UNCHANGED <<focus, database, switches>>

(* A caller that starts a lookup, or joins one that saw no switch yet, can *)
(* rely on its answer until the next switch.                               *)
Reliable == activeRequest = None \/ lookup[activeRequest].pc = "done" \/ lookup[activeRequest].calm

(* The API was acquired: it is kept for the session and the lookup goes on. *)
Acquired ==
  /\ sharing = "acquiring"
  /\ sharing' = "held"
  /\ lookup' = [l \in Lookup |-> IF lookup[l].pc = "api"
                                 THEN [lookup[l] EXCEPT !.pc = "connection"] ELSE lookup[l]]
  /\ UNCHANGED <<focus, database, activeRequest, switches>>

(* It is not installed, not usable or threw: nothing is remembered, and the *)
(* lookup answers that there is no connection or rejects.                  *)
NotAcquired ==
  /\ sharing = "acquiring"
  /\ sharing' = "none"
  /\ \E l \in Lookup : lookup[l].pc = "api" /\ Answered(l, None)
  /\ UNCHANGED <<focus, database, switches>>

GetActiveEditorConnectionId(l) ==
  /\ lookup[l].pc = "connection"
  /\ IF ActiveConnection = None
     THEN Answered(l, None)
     ELSE /\ lookup' = [lookup EXCEPT ![l].pc = "database", ![l].connection = ActiveConnection]
          /\ UNCHANGED activeRequest
  /\ UNCHANGED <<focus, database, sharing, switches>>

GetActiveDatabase(l) ==
  /\ lookup[l].pc = "database"
  /\ IF ActiveContext = None
     THEN lookup' = [lookup EXCEPT ![l].pc = "fallback"] /\ UNCHANGED activeRequest
     ELSE Answered(l, [connection |-> lookup[l].connection,
                       database |-> ActiveContext.database])
  /\ UNCHANGED <<focus, database, sharing, switches>>

GetDatabaseUnchecked(l) ==
  /\ lookup[l].pc = "fallback"
  /\ Answered(l, [connection |-> lookup[l].connection, database |-> None])
  /\ UNCHANGED <<focus, database, sharing, switches>>
GetDatabaseForConnectionId(l) ==
  /\ lookup[l].pc = "fallback"
  /\ Answered(l, [connection |-> lookup[l].connection,
                  database |-> database[lookup[l].connection]])
  /\ UNCHANGED <<focus, database, sharing, switches>>

(* A call of the API rejects, or knows no database.                        *)
LookupFails(l) ==
  /\ lookup[l].pc \in {"connection", "database", "fallback"}
  /\ Answered(l, None)
  /\ UNCHANGED <<focus, database, sharing, switches>>

LookupRuns(l) ==
  \/ GetActiveEditorConnectionId(l)
  \/ GetActiveDatabase(l)
  \/ GetDatabaseForConnectionId(l)
  \/ LookupFails(l)

Acquisition == Acquired \/ NotAcquired

-----------------------------------------------------------------------------
Switched ==
  /\ switches < MaxSwitches
  /\ switches' = switches + 1
  /\ lookup' = [l \in Lookup |-> [lookup[l] EXCEPT !.calm = lookup[l].pc = "free"]]
  /\ UNCHANGED <<sharing, activeRequest>>

SwitchEditor ==
  /\ Switched
  /\ focus' \in (Editor \cup {None}) \ {focus}
  /\ UNCHANGED database

SwitchDatabase ==
  /\ Switched
  /\ \E c \in Connection, d \in Database :
       d # database[c] /\ database' = [database EXCEPT ![c] = d]
  /\ UNCHANGED focus
=============================================================================
