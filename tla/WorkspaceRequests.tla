------------------------- MODULE WorkspaceRequests -------------------------
(***************************************************************************)
(* Requests for the documents of a workspace folder, across their awaits:  *)
(* completion, the observation of a saved document and the action that     *)
(* saves a JOIN as a relationship.  Each asks for the active connection,   *)
(* takes a catalog of it, and applies the project relationships; the save  *)
(* action then writes the relationship file.                               *)
(***************************************************************************)
EXTENDS EditorConnection, ProjectRelationships

CONSTANT KindOf   \* the kind of a request: "complete", "observe" or "save"

ASSUME RequestAssumption ==
  /\ KindOf \in [Request -> {"complete", "observe", "save"}]
  /\ Save = {r \in Request : KindOf[r] = "save"}

VARIABLE work   \* per request: what it waits for and what it knows

vars == <<connectionVars, projectVars, work>>

Idle == [pc |-> "idle", lookup |-> None, calm |-> TRUE,
         database |-> None]

TypeOK ==
  /\ ConnectionTypeOK
  /\ ProjectTypeOK
  /\ work \in [Request ->
       [pc : {"idle", "connecting", "applying", "choosing", "saving"},
        lookup : Lookup \cup {None},
        calm : BOOLEAN,
        database : Database \cup {None}]]

Init == ConnectionInit /\ ProjectInit /\ work = [r \in Request |-> Idle]

-----------------------------------------------------------------------------
(* A request begins while its folder is open; an observation only for the  *)
(* document of the active editor.                                          *)
MayObserve == focus # None

NewLookup == LET free == {l \in Lookup : lookup[l].pc = "free"} IN
             IF free = {} THEN None ELSE CHOOSE l \in free : TRUE

Begin(r) ==
  /\ work[r].pc = "idle"
  /\ state # None
  /\ KindOf[r] = "observe" => MayObserve
  /\ \E l \in {activeRequest, NewLookup} :
       /\ l # None
       /\ Joins(l) \/ Starts(l)
       /\ work' = [work EXCEPT ![r] = [pc |-> "connecting", lookup |-> l,
                                       calm |-> Reliable, database |-> None]]
  /\ UNCHANGED projectVars

(* Lookups that answered are collected when their last caller went on.     *)
Collected(l, works) ==
  lookup' = IF \E q \in Request : works[q].lookup = l THEN lookup
            ELSE [lookup EXCEPT ![l] = Free]

(* There is no connection, no catalog of it, or no open folder any more.   *)
GiveUp(r) ==
  /\ work[r].pc = "connecting"
  /\ lookup[work[r].lookup].pc = "done"
  /\ work' = [work EXCEPT ![r] = Idle]
  /\ Collected(work[r].lookup, work')
  /\ UNCHANGED <<focus, database, sharing, activeRequest, switches, projectVars>>

(* The catalog of the connection is there: cached for an observation,      *)
(* loaded for the others.  The relationships are applied to it, unless the *)
(* folder was closed.                                                      *)
Connected(r) ==
  /\ work[r].pc = "connecting"
  /\ lookup[work[r].lookup].pc = "done"
  /\ lookup[work[r].lookup].answer # None
  /\ work' = [work EXCEPT ![r].pc = "applying", ![r].lookup = None,
                          ![r].database = lookup[work[r].lookup].answer.database]
  /\ Collected(work[r].lookup, work')
  /\ Apply(r)
  /\ UNCHANGED <<focus, database, sharing, activeRequest, switches>>

(* The relationships are applied.  A save goes on with a JOIN they do not  *)
(* represent yet; the others are done.                                     *)
Known(r) == IF Overlay(r, work[r].database) = None THEN {} ELSE Overlay(r, work[r].database)

MayChoose(r) ==
  \E x \in Definition \ Known(r) : DatabaseOf[x] = work[r].database

Finish(r) ==
  /\ work[r].pc = "applying"
  /\ Applied(r, work[r].database)
  /\ work' = [work EXCEPT ![r] =
       IF KindOf[r] = "save" /\ MayChoose(r) THEN [@ EXCEPT !.pc = "choosing"] ELSE Idle]
  /\ UNCHANGED connectionVars

(* The user picks the direction, or leaves the list.                       *)
Choose(r) ==
  /\ work[r].pc = "choosing"
  /\ \E x \in Definition : DatabaseOf[x] = work[r].database /\ StartSave(r, x)
  /\ work' = [work EXCEPT ![r].pc = "saving"]
  /\ UNCHANGED connectionVars

Leave(r) ==
  /\ work[r].pc = "choosing"
  /\ work' = [work EXCEPT ![r] = Idle]
  /\ UNCHANGED <<connectionVars, projectVars>>

Saved(r) ==
  /\ work[r].pc = "saving"
  /\ SaveRuns(r)
  /\ work' = [work EXCEPT ![r] = IF saving'[r].pc = "idle" THEN Idle ELSE @]
  /\ UNCHANGED connectionVars

(* The command that opens the file, run as a request of its own.           *)
Open(r) ==
  /\ work[r].pc = "idle"
  /\ OpenMissing(r)
  /\ work' = [work EXCEPT ![r].pc = "saving"]
  /\ UNCHANGED connectionVars

-----------------------------------------------------------------------------
Switch ==
  /\ SwitchEditor \/ SwitchDatabase
  /\ work' = [r \in Request |-> [work[r] EXCEPT !.calm = work[r].pc = "idle"]]
  /\ UNCHANGED projectVars

Outside == (EditFile \/ RemoveFolder \/ AddFolder) /\ UNCHANGED <<connectionVars, work>>
Watcher == Notify /\ UNCHANGED <<connectionVars, work>>
Reads(l) == ReadConfiguration(l) /\ UNCHANGED <<connectionVars, work>>
Looks(l) == LookupRuns(l) /\ UNCHANGED <<projectVars, work>>
Acquires == Acquisition /\ UNCHANGED <<projectVars, work>>
Resumes(r) == Connected(r) \/ GiveUp(r)

Next ==
  \/ \E r \in Request : Begin(r) \/ Resumes(r) \/ Finish(r)
  \/ \E r \in Save : Choose(r) \/ Leave(r) \/ Saved(r) \/ Open(r)
  \/ \E l \in LoadId : Reads(l)
  \/ \E l \in Lookup : Looks(l)
  \/ Acquires \/ Watcher \/ Switch \/ Outside

Spec == Init /\ [][Next]_vars

-----------------------------------------------------------------------------
(* Every change of the file has been reported.                             *)
Quiet == state # None /\ ~pending

(* Once every change has been reported, what is remembered is what the     *)
(* file says: the promise of the configuration holds its definitions, or a *)
(* read that failed, and every overlay of the folder's state object was    *)
(* computed from that promise, whichever request made it and however long  *)
(* it waited.                                                              *)
ServedIsFile ==
  /\ Quiet /\ entry # None /\ load[entry].pc = "done"
       => load[entry].value \in {Parsed(file), Failed}
  /\ state # None => \A d \in Database :
       overlays[state][d] # None =>
         /\ entry # None
         /\ load[entry].pc = "done"
         /\ overlays[state][d] = Resolved(Definitions(load[entry].value), d)

(* A save, or the open command, never removes a definition and never       *)
(* replaces text it could not read in full, unless the file was written by *)
(* another after this save had read it.                                    *)
SavesKeep ==
  [][\A v \in Save : Truncate(v) /\ saving[v].exclusive =>
       ~Faulty(file) /\ Parsed(file) \subseteq saving[v].text.definitions]_vars

(* A lookup that no switch has disturbed answers with the connection and   *)
(* the database the active editor has: neither is remembered from before.  *)
SwitchesAreObserved ==
  [][\A r \in Request :
       work[r].pc = "connecting" /\ work'[r].pc = "applying" /\ work[r].calm =>
         lookup[work[r].lookup].answer = ActiveContext]_vars
=============================================================================
