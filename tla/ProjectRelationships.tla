------------------------ MODULE ProjectRelationships ------------------------
(***************************************************************************)
(* The project relationships of one workspace folder: the file             *)
(* .query-puppy/relationships.json, the promise its parsed contents are    *)
(* remembered as, and the overlays computed from them.                     *)
(*                                                                         *)
(* A state object holds the overlays; a change of the file replaces it and *)
(* forgets the promise.  A request keeps the state object and the promise  *)
(* it began with, whatever is replaced while it waits.  The file is        *)
(* written by the user, by other programs and by saves of the code action, *)
(* which read it, add one definition and write all of it.                  *)
(***************************************************************************)
EXTENDS Naturals, WorkspaceNames

CONSTANTS
  Definition,   \* relationships a file may define
  DatabaseOf,   \* the database a definition is about
  Request,      \* requests that apply the relationships to a catalog
  Save,         \* runs of the save action and of the open command
  StateId,      \* identities of state objects
  LoadId,       \* identities of promises of the configuration
  MaxChanges,   \* bound on changes of the file and the folder from outside
  Absent,       \* there is no file
  Failed        \* a read that was rejected

(* The definitions a text holds, and whether anything else in it is faulty: *)
(* an entry, or all of it.                                                 *)
Text == {Absent} \cup [definitions : SUBSET Definition, faulty : BOOLEAN]
Torn == [definitions |-> {}, faulty |-> TRUE]
Sound(definitions) == [definitions |-> definitions, faulty |-> FALSE]

ASSUME ProjectAssumption ==
  /\ DatabaseOf \in [Definition -> Database]
  /\ MaxChanges \in Nat
  /\ StateId # {}
  /\ \A text \in SUBSET Definition : text \notin {Failed, None}
  /\ Absent \notin [definitions : SUBSET Definition, faulty : BOOLEAN]
  /\ None \notin StateId \cup LoadId \cup Definition

VARIABLES
  file,       \* what the file holds
  pending,    \* the watcher has a change to report
  state,      \* the state object of the folder, None while it is not open
  overlays,   \* per state object and database: the overlay, None before it is made
  entry,      \* the promise in the configuration cache
  load,       \* the promises
  applying,   \* per request: the state and promise it holds while it waits
  saving,     \* the saves
  changes     \* how often something outside changed the file or the folder

projectVars ==
  <<file, pending, state, overlays, entry, load, applying, saving, changes>>

AnyOf(S) == CHOOSE s \in S : TRUE
Unread == [pc |-> "reading", value |-> None]
NoOverlays == [d \in Database |-> None]
SaveState == [pc : {"idle", "reading", "writing", "truncated", "written"},
              definition : Definition \cup {None},
              text : {None} \cup [definitions : SUBSET Definition, faulty : {FALSE}],
              exclusive : BOOLEAN]
NotSaving == [pc |-> "idle", definition |-> None, text |-> None, exclusive |-> TRUE]

ProjectTypeOK ==
  /\ file \in Text
  /\ pending \in BOOLEAN
  /\ state \in StateId \cup {None}
  /\ overlays \in [StateId -> [Database -> {None} \cup SUBSET Definition]]
  /\ entry \in LoadId \cup {None}
  /\ load \in [LoadId -> [pc : {"reading", "done"},
                          value : {Failed, None} \cup SUBSET Definition]]
  /\ applying \in [Request -> {None} \cup [state : StateId, load : LoadId]]
  /\ saving \in [Save -> SaveState]
  /\ changes \in 0..MaxChanges

ProjectInit ==
  /\ file \in Text
  /\ pending = FALSE
  /\ state = AnyOf(StateId)
  /\ overlays = [s \in StateId |-> NoOverlays]
  /\ entry = None
  /\ load = [l \in LoadId |-> Unread]
  /\ applying = [r \in Request |-> None]
  /\ saving = [v \in Save |-> NotSaving]
  /\ changes = 0

-----------------------------------------------------------------------------
(* The definitions of a text: faulty entries are ignored one by one, and a *)
(* file that is missing or does not parse has none.                        *)
Parsed(text) == IF text = Absent THEN {} ELSE text.definitions
Faulty(text) == text # Absent /\ text.faulty

(* What a load found, also when its read was rejected.                     *)
Definitions(value) == IF value \in {Failed, None} THEN {} ELSE value

(* The relationships of a catalog: the definitions that resolve in it.     *)
Resolved(definitions, d) == {x \in definitions : DatabaseOf[x] = d}

(* A save adds its definition, unless the file is faulty or defines it.    *)
AppendsToAnything(text, x) == x \notin Parsed(text)
Appends(text, x) == ~Faulty(text) /\ x \notin Parsed(text)
Appended(text, x) == Sound(Parsed(text) \cup {x})

(* Promises and state objects that nobody holds are collected.             *)
Holds(claims, field) == {claims[r][field] : r \in {q \in Request : claims[q] # None}}
KeptLoads(loads, cached, claims) ==
  [l \in LoadId |-> IF l = cached \/ l \in Holds(claims, "load") THEN loads[l] ELSE Unread]
KeptOverlays(made, current, claims) ==
  [s \in StateId |-> IF s = current \/ s \in Holds(claims, "state") THEN made[s] ELSE NoOverlays]

FreeStates == {s \in StateId \ {state} : s \notin Holds(applying, "state")}
FreeLoads == {l \in LoadId \ {entry} : l \notin Holds(applying, "load")}

(* invalidate(): the promise is forgotten and a new state object replaces  *)
(* the old one; a folder that is not open has neither.                     *)
Invalidated ==
  IF state = None THEN UNCHANGED <<state, overlays, entry, load>>
  ELSE /\ entry' = None
       /\ load' = KeptLoads(load, None, applying)
       /\ FreeStates # {}
       /\ state' = AnyOf(FreeStates)
       /\ overlays' = KeptOverlays(overlays, state', applying)

-----------------------------------------------------------------------------
(* apply(): take the state object and the promise, or start to read.       *)
Apply(r) ==
  /\ applying[r] = None
  /\ state # None
  /\ entry = None => FreeLoads # {}
  /\ entry' = IF entry = None THEN AnyOf(FreeLoads) ELSE entry
  /\ applying' = [applying EXCEPT ![r] = [state |-> state, load |-> entry']]
  /\ UNCHANGED <<file, pending, state, overlays, load, saving, changes>>

(* load(): the read returns, or is rejected, and is remembered either way. *)
ReadConfiguration(l) ==
  /\ l = entry \/ l \in Holds(applying, "load")
  /\ load[l].pc = "reading"
  /\ \E value \in {Failed, Parsed(file)} :
       load' = [load EXCEPT ![l] = [pc |-> "done", value |-> value]]
  /\ UNCHANGED <<file, pending, state, overlays, entry, applying, saving, changes>>

(* The overlay a request gets in the state object it holds: the one that   *)
(* is there, or one made now from the promise it holds.  Without any       *)
(* definitions no overlay is kept.                                         *)
Overlay(r, d) ==
  LET held == applying[r]
      definitions == Definitions(load[held.load].value) IN
  IF definitions = {} THEN None
  ELSE IF overlays[held.state][d] # None THEN overlays[held.state][d]
  ELSE Resolved(definitions, d)

CurrentOverlayState(r) == IF state = None THEN applying[r].state ELSE state
OverlayState(r) == applying[r].state

Applied(r, d) ==
  /\ applying[r] # None
  /\ load[applying[r].load].pc = "done"
  /\ applying' = [applying EXCEPT ![r] = None]
  /\ overlays' = KeptOverlays(
       IF Overlay(r, d) = None THEN overlays
       ELSE [overlays EXCEPT ![OverlayState(r)][d] = Overlay(r, d)],
       state, applying')
  /\ load' = KeptLoads(load, entry, applying')
  /\ UNCHANGED <<file, pending, state, entry, saving, changes>>

-----------------------------------------------------------------------------
(* Somebody wrote the file: what others are about to write is based on an  *)
(* older text, and the watcher of an open folder will tell.                *)
Rewritten(text) ==
  /\ file' = text
  /\ pending' = (state # None)

Overtaken(saves) == [v \in Save |-> [saves[v] EXCEPT !.exclusive = saves[v].pc # "writing"]]

StartSave(v, x) ==
  /\ saving[v].pc = "idle"
  /\ state # None
  /\ saving' = [saving EXCEPT ![v].pc = "reading", ![v].definition = x]
  /\ UNCHANGED <<file, pending, state, overlays, entry, load, applying, changes>>

(* The read returns; the result is a duplicate, a faulty file, or a text   *)
(* that is written after the directory is there.                           *)
ReadForSave(v) ==
  /\ saving[v].pc = "reading"
  /\ saving' = [saving EXCEPT ![v] =
       IF Appends(file, saving[v].definition)
       THEN [@ EXCEPT !.pc = "writing", !.exclusive = TRUE,
                      !.text = Appended(file, saving[v].definition)]
       ELSE NotSaving]
  /\ UNCHANGED <<file, pending, state, overlays, entry, load, applying, changes>>

(* openForActiveWorkspace(): a file that is missing is created empty.      *)
OpenMissing(v) ==
  /\ saving[v].pc = "idle"
  /\ state # None
  /\ file = Absent
  /\ saving' = [saving EXCEPT ![v].pc = "writing", ![v].text = Sound({})]
  /\ UNCHANGED <<file, pending, state, overlays, entry, load, applying, changes>>

(* writeFile() of the editor truncates the file and then fills it; either  *)
(* change is seen by readers and by the watcher.                           *)
Truncate(v) ==
  /\ saving[v].pc = "writing"
  /\ Rewritten(Torn)
  /\ saving' = Overtaken([saving EXCEPT ![v].pc = "truncated"])
  /\ UNCHANGED <<state, overlays, entry, load, applying, changes>>

WriteFile(v) ==
  /\ saving[v].pc = "truncated"
  /\ Rewritten(saving[v].text)
  /\ saving' = Overtaken([saving EXCEPT ![v] =
       IF @.definition = None THEN NotSaving ELSE [@ EXCEPT !.pc = "written"]])
  /\ UNCHANGED <<state, overlays, entry, load, applying, changes>>

(* The read, the directory or the write is rejected.                       *)
SaveRejects(v) ==
  /\ saving[v].pc \in {"reading", "writing", "truncated"}
  /\ saving' = [saving EXCEPT ![v] = NotSaving]
  /\ UNCHANGED <<file, pending, state, overlays, entry, load, applying, changes>>

SaveInvalidates(v) ==
  /\ saving[v].pc = "written"
  /\ saving' = [saving EXCEPT ![v] = NotSaving]
  /\ Invalidated
  /\ UNCHANGED <<file, pending, applying, changes>>

(* The watcher reports a created, changed or deleted file.                 *)
Notify ==
  /\ pending
  /\ pending' = FALSE
  /\ Invalidated
  /\ UNCHANGED <<file, applying, saving, changes>>

-----------------------------------------------------------------------------
EditFile ==
  /\ changes < MaxChanges
  /\ changes' = changes + 1
  /\ \E text \in Text \ {file} : Rewritten(text)
  /\ saving' = Overtaken(saving)
  /\ UNCHANGED <<state, overlays, entry, load, applying>>

(* The folder leaves the workspace: its watcher is disposed, its state and *)
(* its promise are forgotten.                                              *)
RemoveFolder ==
  /\ changes < MaxChanges
  /\ changes' = changes + 1
  /\ state # None
  /\ state' = None
  /\ entry' = None
  /\ pending' = FALSE
  /\ overlays' = KeptOverlays(overlays, None, applying)
  /\ load' = KeptLoads(load, None, applying)
  /\ UNCHANGED <<file, applying, saving>>

AddFolder ==
  /\ state = None
  /\ FreeStates # {}
  /\ state' = AnyOf(FreeStates)
  /\ UNCHANGED <<file, pending, overlays, entry, load, applying, saving, changes>>

SaveRuns(v) ==
  \/ ReadForSave(v) \/ Truncate(v) \/ WriteFile(v)
  \/ SaveRejects(v) \/ SaveInvalidates(v)
=============================================================================
