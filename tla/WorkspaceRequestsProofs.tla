----------------------- MODULE WorkspaceRequestsProofs -----------------------
(***************************************************************************)
(* Proofs about the requests of a workspace folder, for any editors,       *)
(* databases, definitions, requests and saves.                             *)
(*                                                                         *)
(* The invariant has two halves.  That of the connection says that whoever *)
(* waits for a calm lookup waits for what the active editor has.  That of  *)
(* the relationships says who may still write into the state object of the *)
(* folder: only requests that hold the promise remembered now, because a   *)
(* state object and a promise are taken and replaced together.             *)
(***************************************************************************)
EXTENDS WorkspaceRequests, TLAPS

WorkTyped ==
  /\ work \in [Request ->
       [pc : {"idle", "connecting", "applying", "choosing", "saving"},
        lookup : Lookup \cup {None}, calm : BOOLEAN, database : Database \cup {None}]]
  /\ \A r \in Request : work[r].pc = "applying" => work[r].database \in Database

JoinedIsRunning ==
  activeRequest # None =>
    lookup[activeRequest].pc \in {"api", "connection", "database", "fallback"}

CalmIsCurrent ==
  \A l \in Lookup :
    /\ lookup[l].pc = "free" => lookup[l].calm
    /\ lookup[l].pc \in {"database", "fallback"} =>
         /\ lookup[l].connection \in Connection
         /\ lookup[l].calm => lookup[l].connection = ActiveConnection
    /\ lookup[l].pc = "done" /\ lookup[l].calm => lookup[l].answer \in {None, ActiveContext}

WaitersAreServed ==
  \A r \in Request : work[r].pc = "connecting" =>
    /\ work[r].lookup \in Lookup
    /\ lookup[work[r].lookup].pc # "free"
    /\ work[r].calm => lookup[work[r].lookup].calm

ConnectionInv ==
  ConnectionTypeOK /\ WorkTyped /\ JoinedIsRunning /\ CalmIsCurrent /\ WaitersAreServed

ClosedHasNoPromise == state = None => entry = None

UnheldIsFresh ==
  /\ \A l \in LoadId : l # entry /\ l \notin Holds(applying, "load") => load[l] = Unread
  /\ \A s \in StateId :
       s # state /\ s \notin Holds(applying, "state") => overlays[s] = NoOverlays

HeldTogether ==
  \A r \in Request :
    applying[r] # None /\ state # None /\ applying[r].state = state => applying[r].load = entry

(* A save that may still write has a whole text, and unless it was         *)
(* overtaken, one that keeps what the file defines now.                    *)
WholeSave(save) ==
  /\ save.pc = "reading" => save.definition \in Definition
  /\ save.pc \in {"writing", "truncated"} =>
       save.text \in [definitions : SUBSET Definition, faulty : {FALSE}]

SoundSave(save, now) ==
  /\ WholeSave(save)
  /\ save.pc = "writing" /\ save.exclusive =>
       ~Faulty(now) /\ Parsed(now) \subseteq save.text.definitions

SavesAreSound == \A v \in Save : SoundSave(saving[v], file)

ProjectInv ==
  /\ ProjectTypeOK /\ ClosedHasNoPromise /\ UnheldIsFresh /\ HeldTogether
  /\ ServedIsFile /\ SavesAreSound

IInv == ConnectionInv /\ ProjectInv

-----------------------------------------------------------------------------
(* The connection.                                                         *)

LEMMA ContextTyped ==
  ASSUME ConnectionTypeOK
  PROVE  /\ ActiveConnection \in Connection \cup {None}
         /\ ActiveConnection # None => ActiveConnection \in Connection
         /\ ActiveContext \in Context \cup {None}
         /\ ActiveConnection # None =>
              ActiveContext = [connection |-> ActiveConnection,
                               database |-> database[ActiveConnection]]
         /\ ActiveConnection = None => ActiveContext = None
<1>1. ActiveConnection \in Connection \cup {None}
  BY ConnectionAssumption DEF ConnectionTypeOK, ActiveConnection
<1> QED BY <1>1 DEF ConnectionTypeOK, ActiveContext, Context

LEMMA ConnectionInitHolds == ConnectionInit /\ work = [r \in Request |-> Idle] => ConnectionInv
<1> SUFFICES ASSUME ConnectionInit, work = [r \in Request |-> Idle] PROVE ConnectionInv
  OBVIOUS
<1>1. ConnectionTypeOK
  BY ConnectionAssumption DEF ConnectionInit, ConnectionTypeOK, Free
<1>2. WorkTyped
  BY DEF WorkTyped, Idle
<1> QED BY <1>1, <1>2 DEF ConnectionInit, ConnectionInv, JoinedIsRunning, CalmIsCurrent,
                          WaitersAreServed, Free, Idle

(* A lookup that answers, with a current answer when it is calm.           *)
LEMMA AnsweredPreserves ==
  ASSUME ConnectionInv, NEW l \in Lookup, lookup[l].pc # "free",
         NEW answer \in {None} \cup Context,
         lookup[l].calm => answer \in {None, ActiveContext},
         Answered(l, answer), UNCHANGED <<focus, database, switches, work>>,
         sharing' \in {"none", "acquiring", "held"}
  PROVE  ConnectionInv'
<1> USE DEF ConnectionInv
<1>1. ConnectionTypeOK'
  BY DEF ConnectionTypeOK, Answered
<1>2. JoinedIsRunning'
  BY DEF JoinedIsRunning, Answered, ConnectionTypeOK
<1>3. ActiveConnection' = ActiveConnection /\ ActiveContext' = ActiveContext
  BY DEF ActiveConnection, ActiveContext
<1>4. CalmIsCurrent'
  BY <1>3 DEF CalmIsCurrent, Answered, ConnectionTypeOK
<1>5. WaitersAreServed'
  BY DEF WaitersAreServed, Answered, ConnectionTypeOK
<1> QED BY <1>1, <1>2, <1>4, <1>5 DEF WorkTyped

LEMMA LookupRunsPreserves ==
  ASSUME ConnectionInv, NEW l \in Lookup, LookupRuns(l), UNCHANGED work
  PROVE  ConnectionInv'
<1> USE DEF ConnectionInv
<1>t. ConnectionTypeOK /\ lookup[l].calm \in BOOLEAN
  BY DEF ConnectionTypeOK
<1>a. ActiveConnection' = ActiveConnection /\ ActiveContext' = ActiveContext
  BY DEF ActiveConnection, ActiveContext, LookupRuns, GetActiveEditorConnectionId,
         GetActiveDatabase, GetDatabaseForConnectionId, LookupFails
<1>1. CASE GetActiveEditorConnectionId(l)
  <2>1. CASE ActiveConnection = None
    BY <1>1, <2>1, <1>t, AnsweredPreserves DEF GetActiveEditorConnectionId, ConnectionTypeOK
  <2>2. CASE ActiveConnection # None
    <3>1. lookup' = [lookup EXCEPT ![l].pc = "database", ![l].connection = ActiveConnection]
          /\ UNCHANGED <<focus, database, sharing, switches, activeRequest>>
          /\ ActiveConnection \in Connection
      BY <1>1, <2>2, ContextTyped DEF GetActiveEditorConnectionId
    <3>2. ConnectionTypeOK'
      BY <3>1 DEF ConnectionTypeOK
    <3>3. CalmIsCurrent'
      BY <3>1, <1>a, <1>t DEF CalmIsCurrent, ConnectionTypeOK
    <3>4. JoinedIsRunning' /\ WaitersAreServed'
      BY <3>1, <1>t DEF JoinedIsRunning, WaitersAreServed, ConnectionTypeOK
    <3> QED BY <3>2, <3>3, <3>4 DEF WorkTyped
  <2> QED BY <2>1, <2>2
<1>2. CASE GetActiveDatabase(l)
  <2>1. CASE ActiveContext = None
    <3>1. lookup' = [lookup EXCEPT ![l].pc = "fallback"] /\ lookup[l].pc = "database"
          /\ UNCHANGED <<focus, database, sharing, switches, activeRequest>>
      BY <1>2, <2>1 DEF GetActiveDatabase
    <3>2. ConnectionTypeOK'
      BY <3>1 DEF ConnectionTypeOK
    <3>3. CalmIsCurrent'
      BY <3>1, <1>a, <1>t DEF CalmIsCurrent, ConnectionTypeOK
    <3>4. JoinedIsRunning' /\ WaitersAreServed'
      BY <3>1, <1>t DEF JoinedIsRunning, WaitersAreServed, ConnectionTypeOK
    <3> QED BY <3>2, <3>3, <3>4 DEF WorkTyped
  <2>2. CASE ActiveContext # None
    <3> DEFINE answer == [connection |-> lookup[l].connection,
                          database |-> ActiveContext.database]
    <3>1. ActiveContext = [connection |-> ActiveConnection,
                           database |-> database[ActiveConnection]]
          /\ ActiveConnection \in Connection
      BY <2>2, <1>t, ContextTyped
    <3>2. lookup[l].pc = "database" /\ Answered(l, answer)
          /\ UNCHANGED <<focus, database, sharing, switches>>
      BY <1>2, <2>2 DEF GetActiveDatabase
    <3>3. answer \in Context
      BY <3>1, <3>2 DEF CalmIsCurrent, Context, ConnectionTypeOK
    <3>4. lookup[l].calm => answer = ActiveContext
      BY <3>1, <3>2 DEF CalmIsCurrent
    <3>5. sharing' \in {"none", "acquiring", "held"}
      BY <3>2 DEF ConnectionTypeOK
    <3> HIDE DEF answer
    <3> QED BY <3>2, <3>3, <3>4, <3>5, AnsweredPreserves
  <2> QED BY <2>1, <2>2
<1>3. CASE GetDatabaseForConnectionId(l)
  <2> DEFINE answer == [connection |-> lookup[l].connection,
                        database |-> database[lookup[l].connection]]
  <2>1. lookup[l].pc = "fallback" /\ Answered(l, answer)
        /\ UNCHANGED <<focus, database, sharing, switches>>
    BY <1>3 DEF GetDatabaseForConnectionId
  <2>2. answer \in Context
    BY <2>1 DEF CalmIsCurrent, Context, ConnectionTypeOK
  <2>3. lookup[l].calm => answer = ActiveContext
    <3>1. SUFFICES ASSUME lookup[l].calm PROVE answer = ActiveContext
      OBVIOUS
    <3>2. lookup[l].connection = ActiveConnection /\ ActiveConnection \in Connection
      BY <2>1, <3>1 DEF CalmIsCurrent
    <3>3. ActiveConnection # None
      BY <3>2, ConnectionAssumption
    <3> QED BY <1>t, <3>2, <3>3, ContextTyped
  <2>4. sharing' \in {"none", "acquiring", "held"}
    BY <2>1 DEF ConnectionTypeOK
  <2> HIDE DEF answer
  <2> QED BY <2>1, <2>2, <2>3, <2>4, AnsweredPreserves
<1>4. CASE LookupFails(l)
  BY <1>4, <1>t, AnsweredPreserves DEF LookupFails, ConnectionTypeOK
<1> QED BY <1>1, <1>2, <1>3, <1>4 DEF LookupRuns

LEMMA AcquisitionPreserves ==
  ASSUME ConnectionInv, Acquisition, UNCHANGED work
  PROVE  ConnectionInv'
<1> USE DEF ConnectionInv
<1>1. CASE Acquired
  <2>1. /\ lookup' = [l \in Lookup |-> IF lookup[l].pc = "api"
                                        THEN [lookup[l] EXCEPT !.pc = "connection"] ELSE lookup[l]]
        /\ sharing' = "held"
        /\ UNCHANGED <<focus, database, activeRequest, switches>>
    BY <1>1 DEF Acquired
  <2>2. ConnectionTypeOK'
    BY <2>1 DEF ConnectionTypeOK
  <2>3. ActiveConnection' = ActiveConnection /\ ActiveContext' = ActiveContext
    BY <2>1 DEF ActiveConnection, ActiveContext
  <2>4. \A l \in Lookup :
          /\ lookup'[l].connection = lookup[l].connection /\ lookup'[l].calm = lookup[l].calm
          /\ lookup'[l].answer = lookup[l].answer
          /\ lookup'[l].pc = IF lookup[l].pc = "api" THEN "connection" ELSE lookup[l].pc
    BY <2>1 DEF ConnectionTypeOK
  <2> QED BY <2>1, <2>2, <2>3, <2>4
       DEF JoinedIsRunning, CalmIsCurrent, WaitersAreServed, WorkTyped, ConnectionTypeOK
<1>2. CASE NotAcquired
  <2>1. PICK l \in Lookup : lookup[l].pc = "api" /\ Answered(l, None)
    BY <1>2 DEF NotAcquired
  <2> QED BY <1>2, <2>1, AnsweredPreserves DEF NotAcquired
<1> QED BY <1>1, <1>2 DEF Acquisition

(* After a switch no lookup in flight is calm.                             *)
LEMMA SwitchPreserves ==
  ASSUME ConnectionInv, Switch
  PROVE  ConnectionInv'
<1> USE DEF ConnectionInv
<1>1. /\ lookup' = [l \in Lookup |-> [lookup[l] EXCEPT !.calm = lookup[l].pc = "free"]]
      /\ work' = [r \in Request |-> [work[r] EXCEPT !.calm = work[r].pc = "idle"]]
      /\ UNCHANGED <<sharing, activeRequest>>
      /\ switches < MaxSwitches /\ switches' = switches + 1
  BY DEF Switch, SwitchEditor, SwitchDatabase, Switched
<1>2. focus' \in Editor \cup {None} /\ database' \in [Connection -> Database]
  BY DEF Switch, SwitchEditor, SwitchDatabase, ConnectionTypeOK
<1>3. switches' \in 0..MaxSwitches
  BY <1>1, ConnectionAssumption DEF ConnectionTypeOK
<1>4. \A l \in Lookup :
        /\ lookup'[l].connection = lookup[l].connection /\ lookup'[l].answer = lookup[l].answer
        /\ lookup'[l].pc = lookup[l].pc /\ lookup'[l].calm = (lookup[l].pc = "free")
  BY <1>1 DEF ConnectionTypeOK
<1>5. ConnectionTypeOK'
  BY <1>1, <1>2, <1>3 DEF ConnectionTypeOK
<1>6. \A r \in Request :
        /\ work'[r].pc = work[r].pc /\ work'[r].lookup = work[r].lookup
        /\ work'[r].database = work[r].database /\ work'[r].calm = (work[r].pc = "idle")
  BY <1>1 DEF WorkTyped
<1>7. WorkTyped'
  BY <1>1 DEF WorkTyped
<1>8. JoinedIsRunning' /\ CalmIsCurrent'
  BY <1>1, <1>4 DEF JoinedIsRunning, CalmIsCurrent, ConnectionTypeOK
<1>9. WaitersAreServed'
  BY <1>4, <1>6 DEF WaitersAreServed
<1> QED BY <1>5, <1>7, <1>8, <1>9

LEMMA BeginPreserves ==
  ASSUME ConnectionInv, NEW r \in Request, Begin(r)
  PROVE  ConnectionInv'
<1> USE DEF ConnectionInv
<1>1. PICK l \in {activeRequest, NewLookup} :
        /\ l # None
        /\ Joins(l) \/ Starts(l)
        /\ work' = [work EXCEPT ![r] = [pc |-> "connecting", lookup |-> l,
                                        calm |-> Reliable, database |-> None]]
  BY DEF Begin
<1>2. NewLookup \in Lookup \cup {None}
  BY DEF NewLookup
<1>3. l \in Lookup
  BY <1>1, <1>2 DEF ConnectionTypeOK
<1>4. Reliable \in BOOLEAN
  BY DEF Reliable, ConnectionTypeOK
<1>5. WorkTyped'
  BY <1>1, <1>3, <1>4 DEF WorkTyped
<1>6. \A q \in Request \ {r} : work'[q] = work[q]
  BY <1>1 DEF WorkTyped
<1>7. work'[r].pc = "connecting" /\ work'[r].lookup = l /\ work'[r].calm = Reliable
  BY <1>1 DEF WorkTyped
<1>8. CASE Joins(l)
  <2>1. UNCHANGED connectionVars /\ activeRequest = l
    BY <1>8 DEF Joins
  <2>2. ConnectionTypeOK' /\ JoinedIsRunning' /\ CalmIsCurrent'
    BY <2>1 DEF connectionVars, ConnectionTypeOK, JoinedIsRunning, CalmIsCurrent,
                ActiveConnection, ActiveContext
  <2>3. lookup[l].pc \notin {"free", "done"} /\ (Reliable => lookup[l].calm)
    BY <1>1, <2>1 DEF JoinedIsRunning, Reliable
  <2>4. WaitersAreServed'
    BY <1>3, <1>6, <1>7, <2>1, <2>3 DEF WaitersAreServed, connectionVars
  <2> QED BY <1>5, <2>2, <2>4
<1>9. CASE Starts(l)
  <2>1. /\ lookup[l].pc = "free"
        /\ activeRequest' = l
        /\ lookup' = [lookup EXCEPT ![l].pc = IF sharing = "held" THEN "connection" ELSE "api"]
        /\ sharing' = IF sharing = "held" THEN sharing ELSE "acquiring"
        /\ UNCHANGED <<focus, database, switches>>
    BY <1>9 DEF Starts
  <2>2. ConnectionTypeOK' /\ JoinedIsRunning'
    BY <1>3, <2>1 DEF ConnectionTypeOK, JoinedIsRunning
  <2>3. \A k \in Lookup :
          /\ lookup'[k].calm = lookup[k].calm
          /\ k # l => lookup'[k] = lookup[k]
    BY <2>1 DEF ConnectionTypeOK
  <2>4. lookup'[l].pc \in {"connection", "api"} /\ lookup'[l].calm
    BY <1>3, <2>1 DEF ConnectionTypeOK, CalmIsCurrent
  <2>5. CalmIsCurrent'
    BY <2>1, <2>3, <2>4 DEF CalmIsCurrent, ActiveConnection, ActiveContext
  <2>6. WaitersAreServed'
    BY <1>3, <1>6, <1>7, <2>1, <2>3, <2>4 DEF WaitersAreServed
  <2> QED BY <1>5, <2>2, <2>5, <2>6
<1> QED BY <1>1, <1>8, <1>9

(* A request that goes on with the answer, or gives up, leaves the lookup  *)
(* to those that still wait for it.                                        *)
LEMMA ResumesPreserves ==
  ASSUME ConnectionInv, NEW r \in Request,
         work[r].pc = "connecting", lookup[work[r].lookup].pc = "done",
         NEW after, after.pc # "connecting", work' = [work EXCEPT ![r] = after],
         WorkTyped', work'[r].lookup = None,
         Collected(work[r].lookup, work'),
         UNCHANGED <<focus, database, sharing, activeRequest, switches>>
  PROVE  ConnectionInv'
<1> USE DEF ConnectionInv
<1> DEFINE l == work[r].lookup
<1>1. l \in Lookup /\ lookup[l].pc = "done" /\ activeRequest # l
  BY ConnectionAssumption DEF WaitersAreServed, JoinedIsRunning
<1>2. \/ lookup' = lookup
      \/ /\ lookup' = [lookup EXCEPT ![l] = Free]
         /\ \A q \in Request : work'[q].lookup # l
  BY DEF Collected
<1>3. \A k \in Lookup : lookup'[k] = lookup[k] \/ (k = l /\ lookup'[k] = Free)
  BY <1>2 DEF ConnectionTypeOK
<1>4. Free \in [pc : {"free", "api", "connection", "database", "fallback", "done"},
                connection : Connection \cup {None}, answer : {None} \cup Context,
                calm : BOOLEAN] /\ Free.pc = "free" /\ Free.calm
  BY DEF Free
<1>5. ConnectionTypeOK'
  BY <1>1, <1>2, <1>4 DEF ConnectionTypeOK
<1>6. JoinedIsRunning'
  BY <1>1, <1>3 DEF JoinedIsRunning, ConnectionTypeOK
<1>7. CalmIsCurrent'
  BY <1>3, <1>4 DEF CalmIsCurrent, ActiveConnection, ActiveContext
<1>8. \A q \in Request \ {r} : work'[q] = work[q]
  BY DEF WorkTyped
<1>9. work'[r].pc # "connecting"
  BY DEF WorkTyped
<1>10. ASSUME NEW q \in Request, work'[q].pc = "connecting"
       PROVE  /\ work'[q].lookup \in Lookup
              /\ lookup'[work'[q].lookup].pc # "free"
              /\ work'[q].calm => lookup'[work'[q].lookup].calm
  <2>1. work'[q] = work[q]
    BY <1>8, <1>9, <1>10
  <2>2. work[q].lookup \in Lookup /\ lookup'[work[q].lookup] = lookup[work[q].lookup]
    BY <1>2, <1>10, <2>1 DEF WaitersAreServed, ConnectionTypeOK
  <2> QED BY <1>10, <2>1, <2>2 DEF WaitersAreServed
<1>11. WaitersAreServed'
  BY <1>10 DEF WaitersAreServed
<1> QED BY <1>5, <1>6, <1>7, <1>11

-----------------------------------------------------------------------------
(* The relationships.                                                      *)

LEMMA AnyOfIsMember == ASSUME NEW S, S # {} PROVE AnyOf(S) \in S
  BY DEF AnyOf

LEMMA ParsedTyped == ASSUME NEW text \in Text PROVE Parsed(text) \in SUBSET Definition
  BY DEF Text, Parsed

LEMMA ProjectInitHolds == ProjectInit => ProjectInv
<1> SUFFICES ASSUME ProjectInit PROVE ProjectInv
  OBVIOUS
<1>1. state \in StateId
  BY ProjectAssumption, AnyOfIsMember DEF ProjectInit
<1>2. ProjectTypeOK
  <2>1. 0 \in 0..MaxChanges
    BY ProjectAssumption
  <2>2. NotSaving \in SaveState
    BY DEF NotSaving, SaveState
  <2>3. Unread \in [pc : {"reading", "done"}, value : {Failed, None} \cup SUBSET Definition]
    BY DEF Unread
  <2>4. NoOverlays \in [Database -> {None} \cup SUBSET Definition]
    BY DEF NoOverlays
  <2> QED BY <1>1, <2>1, <2>2, <2>3, <2>4 DEF ProjectInit, ProjectTypeOK
<1>3. ClosedHasNoPromise /\ UnheldIsFresh /\ HeldTogether
  BY DEF ProjectInit, ClosedHasNoPromise, UnheldIsFresh, HeldTogether
<1>4. ServedIsFile
  BY <1>1 DEF ProjectInit, ServedIsFile, NoOverlays
<1>5. SavesAreSound
  BY DEF ProjectInit, SavesAreSound, SoundSave, WholeSave, NotSaving
<1> QED BY <1>2, <1>3, <1>4, <1>5 DEF ProjectInv

LEMMA ApplyPreserves ==
  ASSUME ProjectInv, NEW r \in Request, Apply(r)
  PROVE  ProjectInv'
<1> USE DEF ProjectInv
<1>1. /\ applying[r] = None /\ state \in StateId
      /\ applying' = [applying EXCEPT ![r] = [state |-> state, load |-> entry']]
      /\ UNCHANGED <<file, pending, state, overlays, load, saving, changes>>
  BY DEF Apply, ProjectTypeOK
<1>2. \/ entry' = entry /\ entry \in LoadId
      \/ entry = None /\ entry' \in LoadId /\ entry' \in FreeLoads
  BY AnyOfIsMember DEF Apply, ProjectTypeOK, FreeLoads
<1>3. ProjectTypeOK'
  BY <1>1, <1>2 DEF ProjectTypeOK
<1>4. \A q \in Request : applying[q] # None => applying'[q] = applying[q]
  BY <1>1 DEF ProjectTypeOK
<1>5. \A field : Holds(applying, field) \subseteq Holds(applying', field)
  BY <1>4 DEF Holds
<1>6. UnheldIsFresh'
  BY <1>1, <1>2, <1>5, ProjectAssumption DEF UnheldIsFresh
<1>7. HeldTogether'
  <2>1. ASSUME NEW q \in Request, applying'[q] # None, applying'[q].state = state
        PROVE  applying'[q].load = entry'
    <3>1. CASE q = r
      BY <1>1, <3>1 DEF ProjectTypeOK
    <3>2. CASE q # r
      <4>1. applying'[q] = applying[q]
        BY <1>1, <3>2 DEF ProjectTypeOK
      <4>2. applying[q].load = entry /\ applying[q].load \in LoadId
        BY <1>1, <2>1, <4>1, ProjectAssumption DEF HeldTogether, ProjectTypeOK
      <4> QED BY <1>2, <4>1, <4>2, ProjectAssumption
    <3> QED BY <3>1, <3>2
  <2> QED BY <1>1, <2>1 DEF HeldTogether
<1>8. ServedIsFile'
  <2>1. CASE entry' = entry
    BY <1>1, <2>1 DEF ServedIsFile, Quiet
  <2>2. CASE entry = None /\ entry' \in FreeLoads
    <3>1. load[entry'] = Unread /\ load'[entry'].pc = "reading"
      BY <1>1, <2>2 DEF UnheldIsFresh, FreeLoads, Unread
    <3>2. \A d \in Database : overlays'[state'][d] = None
      BY <1>1, <2>2, ProjectAssumption DEF ServedIsFile, ProjectTypeOK
    <3> QED BY <1>1, <3>1, <3>2 DEF ServedIsFile, Quiet
  <2> QED BY <1>2, <2>1, <2>2
<1> QED BY <1>1, <1>3, <1>6, <1>7, <1>8, ProjectAssumption
     DEF ClosedHasNoPromise, SavesAreSound

LEMMA ReadPreserves ==
  ASSUME ProjectInv, NEW l \in LoadId, ReadConfiguration(l)
  PROVE  ProjectInv'
<1> USE DEF ProjectInv
<1>1. PICK value \in {Failed, Parsed(file)} :
        load' = [load EXCEPT ![l] = [pc |-> "done", value |-> value]]
  BY DEF ReadConfiguration
<1>2. /\ l = entry \/ l \in Holds(applying, "load")
      /\ load[l].pc = "reading"
      /\ UNCHANGED <<file, pending, state, overlays, entry, applying, saving, changes>>
  BY DEF ReadConfiguration
<1>3. ProjectTypeOK'
  BY <1>1, <1>2, ParsedTyped DEF ProjectTypeOK
<1>4. \A k \in LoadId : load'[k] = IF k = l THEN [pc |-> "done", value |-> value] ELSE load[k]
  BY <1>1 DEF ProjectTypeOK
<1>5. UnheldIsFresh'
  BY <1>2, <1>4 DEF UnheldIsFresh
<1>6. ServedIsFile'
  <2>1. CASE entry = l
    <3>1. \A d \in Database : state # None => overlays[state][d] = None
      BY <1>2, <2>1 DEF ServedIsFile
    <3> QED BY <1>1, <1>2, <1>4, <2>1, <3>1 DEF ServedIsFile, Quiet
  <2>2. CASE entry # l
    BY <1>2, <1>4, <2>2 DEF ServedIsFile, Quiet, ProjectTypeOK
  <2> QED BY <2>1, <2>2
<1> QED BY <1>2, <1>3, <1>5, <1>6 DEF ClosedHasNoPromise, HeldTogether, SavesAreSound

LEMMA AppliedPreserves ==
  ASSUME ProjectInv, NEW r \in Request, NEW d \in Database, Applied(r, d)
  PROVE  ProjectInv'
<1> USE DEF ProjectInv
<1> DEFINE held == applying[r]
           made == IF Overlay(r, d) = None THEN overlays
                   ELSE [overlays EXCEPT ![held.state][d] = Overlay(r, d)]
<1>1. /\ held # None /\ held \in [state : StateId, load : LoadId]
      /\ load[held.load].pc = "done"
      /\ applying' = [applying EXCEPT ![r] = None]
      /\ overlays' = KeptOverlays(made, state, applying')
      /\ load' = KeptLoads(load, entry, applying')
      /\ UNCHANGED <<file, pending, state, entry, saving, changes>>
  BY DEF Applied, OverlayState, ProjectTypeOK
<1>2. \A q \in Request : applying'[q] # None => q # r /\ applying'[q] = applying[q]
  BY <1>1 DEF ProjectTypeOK
<1>3. Overlay(r, d) \in {None} \cup SUBSET Definition
  BY <1>1 DEF Overlay, Resolved, Definitions, ProjectTypeOK
<1>4. made \in [StateId -> [Database -> {None} \cup SUBSET Definition]]
  BY <1>1, <1>3 DEF ProjectTypeOK
<1>5. \A s \in StateId : \A e \in Database :
        made[s][e] = IF s = held.state /\ e = d /\ Overlay(r, d) # None
                     THEN Overlay(r, d) ELSE overlays[s][e]
  BY <1>1 DEF ProjectTypeOK
<1> HIDE DEF made
<1>6. /\ overlays' \in [StateId -> [Database -> {None} \cup SUBSET Definition]]
      /\ \A s \in StateId : IF s = state \/ s \in Holds(applying', "state")
                            THEN overlays'[s] = made[s] ELSE overlays'[s] = NoOverlays
  BY <1>1, <1>4 DEF KeptOverlays, NoOverlays
<1>7. \A k \in LoadId : IF k = entry \/ k \in Holds(applying', "load")
                        THEN load'[k] = load[k] ELSE load'[k] = Unread
  BY <1>1 DEF KeptLoads
<1>8. ProjectTypeOK'
  <2>1. load' \in [LoadId -> [pc : {"reading", "done"}, value : {Failed, None} \cup SUBSET Definition]]
    BY <1>1 DEF KeptLoads, Unread, ProjectTypeOK
  <2> QED BY <1>1, <1>6, <2>1 DEF ProjectTypeOK
<1>9. UnheldIsFresh'
  BY <1>1, <1>6, <1>7 DEF UnheldIsFresh
<1>10. HeldTogether'
  BY <1>1, <1>2 DEF HeldTogether
<1>11. ServedIsFile'
  <2>1. ASSUME entry \in LoadId PROVE load'[entry] = load[entry]
    BY <1>7, <2>1
  <2>2. ASSUME state # None, NEW e \in Database, overlays'[state][e] # None
        PROVE  /\ entry # None /\ load[entry].pc = "done"
               /\ overlays'[state][e] = Resolved(Definitions(load[entry].value), e)
    <3>1. state \in StateId /\ overlays'[state][e] = made[state][e]
      BY <1>6, <2>2 DEF ProjectTypeOK
    <3>2. CASE state = held.state /\ e = d /\ Overlay(r, d) # None
      <4>1. held.load = entry /\ made[state][e] = Overlay(r, d)
        BY <1>1, <1>5, <2>2, <3>1, <3>2 DEF HeldTogether
      <4>2. CASE overlays[state][d] # None
        BY <2>2, <3>1, <3>2, <4>1, <4>2 DEF ServedIsFile, Overlay
      <4>3. CASE overlays[state][d] = None
        BY <1>1, <3>1, <3>2, <4>1, <4>3, ProjectAssumption DEF Overlay
      <4> QED BY <4>2, <4>3
    <3>3. CASE ~(state = held.state /\ e = d /\ Overlay(r, d) # None)
      <4>1. overlays'[state][e] = overlays[state][e]
        BY <1>5, <3>1, <3>3
      <4> QED BY <2>2, <4>1 DEF ServedIsFile
    <3> QED BY <3>2, <3>3
  <2> QED BY <1>1, <2>1, <2>2 DEF ServedIsFile, Quiet, ProjectTypeOK
<1> QED BY <1>1, <1>8, <1>9, <1>10, <1>11 DEF ClosedHasNoPromise, SavesAreSound

(* The state object and the promise are replaced or forgotten together:    *)
(* by a report of the watcher, a finished save, or the folder leaving.     *)
LEMMA ReplacedPreserves ==
  ASSUME ProjectInv,
         entry' = None, load' = KeptLoads(load, None, applying),
         overlays' = KeptOverlays(overlays, state', applying),
         state' = None \/ state' \in FreeStates,
         UNCHANGED <<file, applying>>,
         pending' \in BOOLEAN, changes' \in 0..MaxChanges,
         saving' \in [Save -> SaveState],
         SavesAreSound'
  PROVE  ProjectInv'
<1> USE DEF ProjectInv
<1>1. state' \in StateId \cup {None} /\ (state' # None => state' \in StateId \ {state})
  BY ProjectAssumption DEF FreeStates
<1>2. \A l \in LoadId : IF l \in Holds(applying, "load") THEN load'[l] = load[l]
                        ELSE load'[l] = Unread
  BY ProjectAssumption DEF KeptLoads
<1>3. \A s \in StateId : IF s = state' \/ s \in Holds(applying, "state")
                         THEN overlays'[s] = overlays[s] ELSE overlays'[s] = NoOverlays
  BY DEF KeptOverlays
<1>4. ProjectTypeOK'
  <2>1. load' \in [LoadId -> [pc : {"reading", "done"}, value : {Failed, None} \cup SUBSET Definition]]
    BY DEF KeptLoads, Unread, ProjectTypeOK
  <2>2. overlays' \in [StateId -> [Database -> {None} \cup SUBSET Definition]]
    BY DEF KeptOverlays, NoOverlays, ProjectTypeOK
  <2> QED BY <1>1, <2>1, <2>2 DEF ProjectTypeOK
<1>5. UnheldIsFresh'
  BY <1>2, <1>3 DEF UnheldIsFresh
<1>6. state' # None => state' \notin Holds(applying, "state")
  BY DEF FreeStates
<1>7. HeldTogether'
  <2>1. ASSUME NEW q \in Request, applying[q] # None PROVE applying[q].state \in Holds(applying, "state")
    BY <2>1 DEF Holds
  <2> QED BY <1>6, <2>1 DEF HeldTogether
<1>8. state' # None => overlays'[state'] = NoOverlays
  BY <1>1, <1>3, <1>6 DEF UnheldIsFresh
<1>9. ServedIsFile'
  BY <1>8 DEF ServedIsFile, NoOverlays
<1> QED BY <1>4, <1>5, <1>7, <1>9 DEF ClosedHasNoPromise

(* What is remembered does not change.                                     *)
LEMMA RememberedPreserves ==
  ASSUME ProjectInv,
         UNCHANGED <<state, overlays, entry, load, applying>>,
         file' \in Text, pending' \in BOOLEAN, changes' \in 0..MaxChanges,
         (file' = file /\ pending' = pending) \/ pending' = (state # None),
         saving' \in [Save -> SaveState],
         SavesAreSound'
  PROVE  ProjectInv'
<1> USE DEF ProjectInv
<1>1. ProjectTypeOK'
  BY DEF ProjectTypeOK
<1>2. ServedIsFile'
  BY DEF ServedIsFile, Quiet
<1> QED BY <1>1, <1>2 DEF ClosedHasNoPromise, UnheldIsFresh, HeldTogether

(* Whoever writes the file overtakes every save that has read it.          *)
LEMMA OvertakenTyped ==
  ASSUME NEW saves \in [Save -> SaveState],
         \A v \in Save : WholeSave(saves[v]),
         saving' = Overtaken(saves)
  PROVE  /\ saving' \in [Save -> SaveState]
         /\ SavesAreSound'
<1>1. saving' = [v \in Save |-> [saves[v] EXCEPT !.exclusive = saves[v].pc # "writing"]]
  BY DEF Overtaken
<1>2. \A v \in Save :
        /\ saving'[v] \in SaveState /\ saving'[v].pc = saves[v].pc
        /\ saving'[v].definition = saves[v].definition /\ saving'[v].text = saves[v].text
        /\ saving'[v].exclusive = (saves[v].pc # "writing")
  <2> SUFFICES ASSUME NEW v \in Save
               PROVE  /\ saving'[v] \in SaveState /\ saving'[v].pc = saves[v].pc
                      /\ saving'[v].definition = saves[v].definition
                      /\ saving'[v].text = saves[v].text
                      /\ saving'[v].exclusive = (saves[v].pc # "writing")
    OBVIOUS
  <2>1. saves[v] \in SaveState
    OBVIOUS
  <2>2. saving'[v] = [saves[v] EXCEPT !.exclusive = saves[v].pc # "writing"]
    BY <1>1
  <2> QED BY <2>1, <2>2 DEF SaveState
<1>3. saving' \in [Save -> SaveState]
  <2>1. saving' = [v \in Save |-> saving'[v]]
    BY <1>1, Zenon
  <2> QED BY <1>2, <2>1
<1>4. \A v \in Save : WholeSave(saving'[v])
  BY <1>2 DEF WholeSave
<1> QED BY <1>2, <1>3, <1>4 DEF SavesAreSound, SoundSave

LEMMA AppendedKeeps ==
  ASSUME NEW text \in Text, NEW x \in Definition
  PROVE  /\ Appended(text, x) \in [definitions : SUBSET Definition, faulty : {FALSE}]
         /\ Parsed(text) \subseteq Appended(text, x).definitions
<1>1. Parsed(text) \in SUBSET Definition
  BY ParsedTyped
<1> QED BY <1>1 DEF Appended, Sound

LEMMA OutsidePreserves ==
  ASSUME ProjectInv, EditFile \/ RemoveFolder \/ AddFolder
  PROVE  ProjectInv'
<1> USE DEF ProjectInv
<1>0. changes < MaxChanges /\ changes' = changes + 1 => changes' \in 0..MaxChanges
  BY ProjectAssumption DEF ProjectTypeOK
<1>1. CASE EditFile
  <2>1. PICK text \in Text \ {file} : Rewritten(text)
    BY <1>1 DEF EditFile
  <2>2. /\ changes' \in 0..MaxChanges /\ saving' = Overtaken(saving)
        /\ UNCHANGED <<state, overlays, entry, load, applying>>
    BY <1>0, <1>1 DEF EditFile
  <2>3. file' \in Text /\ pending' = (state # None) /\ pending' \in BOOLEAN
    BY <2>1 DEF Rewritten
  <2> QED BY <2>2, <2>3, OvertakenTyped, RememberedPreserves
       DEF ProjectTypeOK, SavesAreSound, SoundSave
<1>2. CASE RemoveFolder
  <2>1. /\ entry' = None /\ load' = KeptLoads(load, None, applying) /\ state' = None
        /\ overlays' = KeptOverlays(overlays, state', applying)
        /\ pending' \in BOOLEAN /\ changes' \in 0..MaxChanges
        /\ UNCHANGED <<file, applying, saving>>
    BY <1>0, <1>2 DEF RemoveFolder
  <2>2. SavesAreSound'
    BY <2>1 DEF SavesAreSound
  <2> QED BY <2>1, <2>2, ReplacedPreserves DEF ProjectTypeOK
<1>3. CASE AddFolder
  <2>1. /\ state = None /\ entry = None /\ state' \in FreeStates
        /\ UNCHANGED <<file, pending, overlays, entry, load, applying, saving, changes>>
    BY <1>3, AnyOfIsMember DEF AddFolder, ClosedHasNoPromise
  <2>2. state' \in StateId /\ overlays'[state'] = NoOverlays
    BY <2>1, ProjectAssumption DEF FreeStates, UnheldIsFresh
  <2>3. \A q \in Request : applying[q] # None => applying[q].state # state'
    BY <2>1 DEF FreeStates, Holds
  <2>4. ProjectTypeOK'
    BY <2>1, <2>2 DEF ProjectTypeOK
  <2>5. UnheldIsFresh'
    BY <2>1, ProjectAssumption DEF UnheldIsFresh
  <2>6. ServedIsFile'
    BY <2>1, <2>2 DEF ServedIsFile, NoOverlays
  <2> QED BY <2>1, <2>3, <2>4, <2>5, <2>6 DEF HeldTogether, ClosedHasNoPromise, SavesAreSound
<1> QED BY <1>1, <1>2, <1>3

LEMMA InvalidatedPreserves ==
  ASSUME ProjectInv, Invalidated, UNCHANGED <<file, applying, changes>>,
         pending' \in BOOLEAN, pending' = pending \/ state # None \/ pending' = FALSE,
         saving' \in [Save -> SaveState],
         SavesAreSound'
  PROVE  ProjectInv'
<1> USE DEF ProjectInv
<1>1. CASE state = None
  <2>1. UNCHANGED <<state, overlays, entry, load>>
    BY <1>1 DEF Invalidated
  <2>2. ProjectTypeOK' /\ ServedIsFile'
    BY <1>1, <2>1 DEF ProjectTypeOK, ServedIsFile, Quiet
  <2> QED BY <2>1, <2>2 DEF ClosedHasNoPromise, UnheldIsFresh, HeldTogether
<1>2. CASE state # None
  <2>1. /\ entry' = None /\ load' = KeptLoads(load, None, applying)
        /\ state' \in FreeStates /\ overlays' = KeptOverlays(overlays, state', applying)
    BY <1>2, AnyOfIsMember DEF Invalidated
  <2>2. changes' \in 0..MaxChanges
    BY DEF ProjectTypeOK
  <2> QED BY <2>1, <2>2, ReplacedPreserves
<1> QED BY <1>1, <1>2

LEMMA NotifyPreserves == ProjectInv /\ Notify => ProjectInv'
<1> SUFFICES ASSUME ProjectInv, Notify PROVE ProjectInv'
  OBVIOUS
<1>1. /\ Invalidated /\ pending' = FALSE /\ pending' \in BOOLEAN
      /\ UNCHANGED <<file, applying, saving, changes>>
  BY DEF Notify
<1>2. SavesAreSound'
  BY <1>1 DEF ProjectInv, SavesAreSound
<1> QED BY <1>1, <1>2, InvalidatedPreserves DEF ProjectInv, ProjectTypeOK

(* The steps of a save.                                                    *)
LEMMA SavingPreserves ==
  ASSUME ProjectInv, NEW v \in Save, NEW after \in SaveState, SoundSave(after, file),
         saving' = [saving EXCEPT ![v] = after],
         UNCHANGED <<file, pending, state, overlays, entry, load, applying, changes>>
  PROVE  ProjectInv'
<1>1. saving' \in [Save -> SaveState]
  BY DEF ProjectInv, ProjectTypeOK
<1>2. SavesAreSound'
  BY DEF ProjectInv, ProjectTypeOK, SavesAreSound
<1> QED BY <1>1, <1>2, RememberedPreserves DEF ProjectInv, ProjectTypeOK

LEMMA StartSavePreserves ==
  ASSUME ProjectInv, NEW v \in Save, NEW x \in Definition, StartSave(v, x)
  PROVE  ProjectInv'
<1> DEFINE after == [saving[v] EXCEPT !.pc = "reading", !.definition = x]
<1>1. saving[v] \in SaveState
  BY DEF ProjectInv, ProjectTypeOK
<1>2. after \in SaveState /\ SoundSave(after, file)
  BY <1>1 DEF SaveState, SoundSave, WholeSave
<1>3. /\ saving' = [saving EXCEPT ![v] = after]
      /\ UNCHANGED <<file, pending, state, overlays, entry, load, applying, changes>>
  BY DEF StartSave
<1> HIDE DEF after
<1> QED BY <1>2, <1>3, SavingPreserves

LEMMA OpenMissingPreserves ==
  ASSUME ProjectInv, NEW v \in Save, OpenMissing(v)
  PROVE  ProjectInv'
<1> DEFINE after == [saving[v] EXCEPT !.pc = "writing", !.text = Sound({})]
<1>1. saving[v] \in SaveState
  BY DEF ProjectInv, ProjectTypeOK
<1>2. /\ saving' = [saving EXCEPT ![v] = after] /\ file = Absent
      /\ UNCHANGED <<file, pending, state, overlays, entry, load, applying, changes>>
  BY DEF OpenMissing
<1>3. ~Faulty(file) /\ Parsed(file) = {}
  BY <1>2 DEF Faulty, Parsed
<1>4. after \in SaveState /\ SoundSave(after, file)
  BY <1>1, <1>3 DEF SaveState, Sound, SoundSave, WholeSave
<1> HIDE DEF after
<1> QED BY <1>2, <1>4, SavingPreserves

LEMMA SaveRunsPreserves ==
  ASSUME ProjectInv, NEW v \in Save, SaveRuns(v)
  PROVE  ProjectInv'
<1>1. saving[v] \in SaveState /\ saving \in [Save -> SaveState] /\ SoundSave(saving[v], file)
      /\ file \in Text
  BY DEF ProjectInv, ProjectTypeOK, SavesAreSound
<1>2. NotSaving \in SaveState /\ NotSaving.pc = "idle" /\ \A text : SoundSave(NotSaving, text)
  BY DEF NotSaving, SaveState, SoundSave, WholeSave
<1>3. CASE ReadForSave(v)
  <2> DEFINE x == saving[v].definition
             read == [saving[v] EXCEPT !.pc = "writing", !.exclusive = TRUE,
                                       !.text = Appended(file, x)]
  <2>1. /\ saving[v].pc = "reading"
        /\ saving' = [saving EXCEPT ![v] = IF Appends(file, x) THEN read ELSE NotSaving]
        /\ UNCHANGED <<file, pending, state, overlays, entry, load, applying, changes>>
    BY <1>1, <1>3 DEF ReadForSave
  <2>2. x \in Definition
    BY <1>1, <2>1 DEF SoundSave, WholeSave
  <2>3. read \in SaveState
    BY <1>1, <2>2, AppendedKeeps DEF SaveState
  <2>4. Appends(file, x) => SoundSave(read, file)
    BY <1>1, <2>2, AppendedKeeps DEF SaveState, SoundSave, WholeSave, Appends
  <2> HIDE DEF x, read
  <2> QED BY <1>2, <2>1, <2>3, <2>4, SavingPreserves
<1>4. CASE SaveRejects(v)
  BY <1>2, <1>4, SavingPreserves DEF SaveRejects
<1>5. CASE SaveInvalidates(v)
  <2>1. /\ saving' = [saving EXCEPT ![v] = NotSaving] /\ Invalidated
        /\ UNCHANGED <<file, pending, applying, changes>>
    BY <1>5 DEF SaveInvalidates
  <2>2. saving' \in [Save -> SaveState] /\ SavesAreSound'
    BY <1>1, <1>2, <2>1 DEF ProjectInv, SavesAreSound
  <2> QED BY <2>1, <2>2, InvalidatedPreserves DEF ProjectInv, ProjectTypeOK
<1>6. ASSUME NEW text \in Text, NEW after \in SaveState, Rewritten(text),
             WholeSave(after),
             saving' = Overtaken([saving EXCEPT ![v] = after]),
             UNCHANGED <<state, overlays, entry, load, applying, changes>>
      PROVE  ProjectInv'
  <2> DEFINE saves == [saving EXCEPT ![v] = after]
  <2>1. saves \in [Save -> SaveState]
    BY <1>1
  <2>2. \A w \in Save : WholeSave(saves[w])
    BY <1>1, <1>6 DEF ProjectInv, SavesAreSound, SoundSave, WholeSave
  <2>3. saving' = Overtaken(saves)
    BY <1>6
  <2> HIDE DEF saves
  <2>4. saving' \in [Save -> SaveState] /\ SavesAreSound'
    BY <2>1, <2>2, <2>3, OvertakenTyped
  <2>5. file' \in Text /\ pending' = (state # None) /\ pending' \in BOOLEAN
    BY <1>6 DEF Rewritten
  <2> QED BY <1>6, <2>4, <2>5, RememberedPreserves DEF ProjectInv, ProjectTypeOK
<1>7. CASE Truncate(v)
  <2> DEFINE after == [saving[v] EXCEPT !.pc = "truncated"]
  <2>1. saving[v].pc = "writing" /\ Rewritten(Torn)
        /\ saving' = Overtaken([saving EXCEPT ![v] = after])
        /\ UNCHANGED <<state, overlays, entry, load, applying, changes>>
    BY <1>1, <1>7 DEF Truncate
  <2>2. after \in SaveState /\ WholeSave(after)
    BY <1>1, <2>1 DEF SaveState, SoundSave, WholeSave
  <2>3. Torn \in Text
    BY DEF Torn, Text
  <2> HIDE DEF after
  <2> QED BY <1>6, <2>1, <2>2, <2>3
<1>8. CASE WriteFile(v)
  <2> DEFINE after == IF saving[v].definition = None THEN NotSaving
                      ELSE [saving[v] EXCEPT !.pc = "written"]
  <2>1. saving[v].pc = "truncated" /\ Rewritten(saving[v].text)
        /\ saving' = Overtaken([saving EXCEPT ![v] = after])
        /\ UNCHANGED <<state, overlays, entry, load, applying, changes>>
    BY <1>1, <1>8 DEF WriteFile
  <2>2. after \in SaveState /\ WholeSave(after)
    BY <1>1, <1>2 DEF SaveState, SoundSave, WholeSave
  <2>3. saving[v].text \in Text
    BY <1>1, <2>1 DEF SoundSave, WholeSave, Text
  <2> HIDE DEF after
  <2> QED BY <1>6, <2>1, <2>2, <2>3
<1> QED BY <1>3, <1>4, <1>5, <1>7, <1>8 DEF SaveRuns

-----------------------------------------------------------------------------
LEMMA InitHolds == Init => IInv
  BY ConnectionInitHolds, ProjectInitHolds DEF Init, IInv

LEMMA ProjectUnchanged ==
  ASSUME ProjectInv, UNCHANGED projectVars
  PROVE  ProjectInv'
<1> USE DEF projectVars
<1>1. ProjectTypeOK' /\ ServedIsFile'
  BY DEF ProjectInv, ProjectTypeOK, ServedIsFile, Quiet
<1> QED BY <1>1 DEF ProjectInv, ClosedHasNoPromise, UnheldIsFresh, HeldTogether, SavesAreSound

LEMMA ConnectionUnchanged ==
  ASSUME ConnectionInv, UNCHANGED connectionVars, WorkTyped',
         \A r \in Request : work'[r].pc = "connecting" => work'[r] = work[r]
  PROVE  ConnectionInv'
<1> USE DEF connectionVars
<1>1. ConnectionTypeOK' /\ JoinedIsRunning' /\ CalmIsCurrent'
  BY DEF ConnectionInv, ConnectionTypeOK, JoinedIsRunning, CalmIsCurrent,
         ActiveConnection, ActiveContext
<1>2. WaitersAreServed'
  BY DEF ConnectionInv, WaitersAreServed
<1> QED BY <1>1, <1>2 DEF ConnectionInv

LEMMA IdleTyped ==
  Idle \in [pc : {"idle", "connecting", "applying", "choosing", "saving"},
            lookup : Lookup \cup {None}, calm : BOOLEAN, database : Database \cup {None}]
  /\ Idle.pc = "idle" /\ Idle.lookup = None
  BY DEF Idle

(* A step that only moves one request on, to a state that waits for no     *)
(* lookup and applies nothing.                                             *)
LEMMA MovedPreserves ==
  ASSUME ConnectionInv, UNCHANGED connectionVars, NEW r \in Request,
         NEW after \in {Idle, [work[r] EXCEPT !.pc = "choosing"],
                        [work[r] EXCEPT !.pc = "saving"], work[r]},
         work[r].pc # "connecting", work[r].pc = "applying" \/ after.pc # "applying",
         work' = [work EXCEPT ![r] = after]
  PROVE  ConnectionInv'
<1>1. WorkTyped
  BY DEF ConnectionInv
<1>2. after \in [pc : {"idle", "connecting", "applying", "choosing", "saving"},
                 lookup : Lookup \cup {None}, calm : BOOLEAN, database : Database \cup {None}]
      /\ after.pc # "connecting" /\ (after.pc = "applying" => after.database = work[r].database)
  BY <1>1, IdleTyped DEF WorkTyped
<1>3. WorkTyped'
  BY <1>1, <1>2 DEF WorkTyped
<1>4. \A q \in Request : work'[q].pc = "connecting" => work'[q] = work[q]
  BY <1>1, <1>2 DEF WorkTyped
<1> QED BY <1>3, <1>4, ConnectionUnchanged

LEMMA RequestPreserves ==
  ASSUME IInv, NEW r \in Request, Begin(r) \/ Resumes(r) \/ Finish(r)
  PROVE  IInv'
<1> USE DEF IInv
<1>1. CASE Begin(r)
  BY <1>1, BeginPreserves, ProjectUnchanged DEF Begin
<1>2. CASE GiveUp(r)
  <2>1. /\ work[r].pc = "connecting" /\ lookup[work[r].lookup].pc = "done"
        /\ work' = [work EXCEPT ![r] = Idle]
        /\ Collected(work[r].lookup, work')
        /\ UNCHANGED <<focus, database, sharing, activeRequest, switches, projectVars>>
    BY <1>2 DEF GiveUp
  <2>2. WorkTyped' /\ work'[r].lookup = None
    BY <2>1, IdleTyped DEF ConnectionInv, WorkTyped
  <2>3. ConnectionInv'
    BY <2>1, <2>2, IdleTyped, ResumesPreserves
  <2> QED BY <2>1, <2>3, ProjectUnchanged
<1>3. CASE Connected(r)
  <2> DEFINE answer == lookup[work[r].lookup].answer
             after == [work[r] EXCEPT !.pc = "applying", !.lookup = None,
                                      !.database = answer.database]
  <2>1. /\ work[r].pc = "connecting" /\ lookup[work[r].lookup].pc = "done"
        /\ answer # None
        /\ work' = [work EXCEPT ![r] = after]
        /\ Collected(work[r].lookup, work')
        /\ Apply(r)
        /\ UNCHANGED <<focus, database, sharing, activeRequest, switches>>
    BY <1>3 DEF Connected, ConnectionInv, WorkTyped
  <2>2. answer \in Context /\ answer.database \in Database
    BY <2>1 DEF ConnectionInv, WaitersAreServed, ConnectionTypeOK, Context
  <2>3. after.pc = "applying" /\ after.lookup = None /\ after.database \in Database
        /\ after \in [pc : {"idle", "connecting", "applying", "choosing", "saving"},
                      lookup : Lookup \cup {None}, calm : BOOLEAN, database : Database \cup {None}]
    BY <2>2 DEF ConnectionInv, WorkTyped
  <2> HIDE DEF after, answer
  <2>4. WorkTyped' /\ work'[r].lookup = None
    BY <2>1, <2>3 DEF ConnectionInv, WorkTyped
  <2>5. ConnectionInv'
    BY <2>1, <2>3, <2>4, ResumesPreserves
  <2> QED BY <2>1, <2>5, ApplyPreserves
<1>4. CASE Finish(r)
  <2>1. /\ work[r].pc = "applying" /\ Applied(r, work[r].database)
        /\ UNCHANGED connectionVars
        /\ work' = [work EXCEPT ![r] =
             IF KindOf[r] = "save" /\ MayChoose(r) THEN [work[r] EXCEPT !.pc = "choosing"] ELSE Idle]
    BY <1>4 DEF Finish, ConnectionInv, WorkTyped
  <2>2. work[r].database \in Database
    BY <2>1 DEF ConnectionInv, WorkTyped
  <2>3. ProjectInv'
    BY <2>1, <2>2, AppliedPreserves
  <2>4. ConnectionInv'
    BY <2>1, IdleTyped, MovedPreserves
  <2> QED BY <2>3, <2>4
<1> QED BY <1>1, <1>2, <1>3, <1>4 DEF Resumes

LEMMA SavePreserves ==
  ASSUME IInv, NEW r \in Save, Choose(r) \/ Leave(r) \/ Saved(r) \/ Open(r)
  PROVE  IInv'
<1> USE DEF IInv
<1>1. r \in Request /\ WorkTyped
  BY RequestAssumption DEF ConnectionInv
<1>2. CASE Choose(r)
  <2>1. /\ work[r].pc = "choosing" /\ UNCHANGED connectionVars
        /\ work' = [work EXCEPT ![r] = [work[r] EXCEPT !.pc = "saving"]]
    BY <1>1, <1>2 DEF Choose, WorkTyped
  <2>2. ProjectInv'
    BY <1>2, StartSavePreserves DEF Choose
  <2>3. ConnectionInv'
    BY <1>1, <2>1, MovedPreserves DEF WorkTyped
  <2> QED BY <2>2, <2>3
<1>3. CASE Leave(r)
  <2>1. ProjectInv'
    BY <1>3, ProjectUnchanged DEF Leave
  <2>2. ConnectionInv'
    BY <1>1, <1>3, IdleTyped, MovedPreserves DEF Leave
  <2> QED BY <2>1, <2>2
<1>4. CASE Saved(r)
  <2>1. /\ work[r].pc = "saving" /\ UNCHANGED connectionVars
        /\ work' = [work EXCEPT ![r] = IF saving'[r].pc = "idle" THEN Idle ELSE work[r]]
    BY <1>1, <1>4 DEF Saved, WorkTyped
  <2>2. ProjectInv'
    BY <1>4, SaveRunsPreserves DEF Saved
  <2>3. ConnectionInv'
    BY <1>1, <2>1, IdleTyped, MovedPreserves
  <2> QED BY <2>2, <2>3
<1>5. CASE Open(r)
  <2>1. /\ work[r].pc = "idle" /\ UNCHANGED connectionVars
        /\ work' = [work EXCEPT ![r] = [work[r] EXCEPT !.pc = "saving"]]
    BY <1>1, <1>5 DEF Open, WorkTyped
  <2>2. ProjectInv'
    BY <1>5, OpenMissingPreserves DEF Open
  <2>3. ConnectionInv'
    BY <1>1, <2>1, MovedPreserves DEF WorkTyped
  <2> QED BY <2>2, <2>3
<1> QED BY <1>2, <1>3, <1>4, <1>5

LEMMA StepPreserves == IInv /\ [Next]_vars => IInv'
<1> SUFFICES ASSUME IInv, [Next]_vars PROVE IInv'
  OBVIOUS
<1> USE DEF IInv
<1>0. ASSUME UNCHANGED <<connectionVars, work>> PROVE ConnectionInv'
  BY <1>0, ConnectionUnchanged DEF ConnectionInv, WorkTyped
<1>1. ASSUME NEW l \in LoadId, Reads(l) PROVE IInv'
  BY <1>0, <1>1, ReadPreserves DEF Reads
<1>2. ASSUME NEW l \in Lookup, Looks(l) PROVE IInv'
  BY <1>2, LookupRunsPreserves, ProjectUnchanged DEF Looks
<1>3. CASE Acquires
  BY <1>3, AcquisitionPreserves, ProjectUnchanged DEF Acquires
<1>4. CASE Watcher
  BY <1>0, <1>4, NotifyPreserves DEF Watcher
<1>5. CASE Switch
  BY <1>5, SwitchPreserves, ProjectUnchanged DEF Switch
<1>6. CASE Outside
  BY <1>0, <1>6, OutsidePreserves DEF Outside
<1>7. CASE UNCHANGED vars
  BY <1>0, <1>7, ProjectUnchanged DEF vars
<1> QED BY <1>1, <1>2, <1>3, <1>4, <1>5, <1>6, <1>7, RequestPreserves, SavePreserves DEF Next

LEMMA Invariance == Spec => []IInv
  BY InitHolds, StepPreserves, PTL DEF Spec

(* Lookups, requests, promises, state objects and saves keep their types,  *)
(* in MssqlConnectionSharingAdapter, WorkspaceProjectRelationships and     *)
(* their callers.                                                          *)
THEOREM TypeCorrect == Spec => []TypeOK
<1>1. IInv => TypeOK
  BY DEF IInv, ConnectionInv, WorkTyped, ProjectInv, TypeOK
<1> QED BY <1>1, Invariance, PTL

(* WorkspaceProjectRelationships never remembers, beyond the report of the *)
(* watcher, relationships that are not those of the file, however many     *)
(* requests hold older states while it is invalidated.                     *)
THEOREM ServesTheFile == Spec => []ServedIsFile
<1>1. IInv => ServedIsFile
  BY DEF IInv, ProjectInv
<1> QED BY <1>1, Invariance, PTL

(* A save of WorkspaceProjectRelationships that nobody overtook replaces a *)
(* text it understood by one that defines at least as much.                *)
THEOREM SavesKeepDefinitions == Spec => SavesKeep
<1>1. IInv /\ [Next]_vars =>
        [\A v \in Save : Truncate(v) /\ saving[v].exclusive =>
           ~Faulty(file) /\ Parsed(file) \subseteq saving[v].text.definitions]_vars
  BY DEF IInv, ProjectInv, SavesAreSound, SoundSave, Truncate
<1> QED BY <1>1, Invariance, PTL DEF Spec, SavesKeep

(* MssqlConnectionSharingAdapter never answers a caller, that no switch    *)
(* has disturbed, with a connection or a database of before.               *)
THEOREM LookupsAreCurrent == Spec => SwitchesAreObserved
<1>1. IInv /\ [Next]_vars =>
        [\A r \in Request :
           work[r].pc = "connecting" /\ work'[r].pc = "applying" /\ work[r].calm =>
             lookup[work[r].lookup].answer = ActiveContext]_vars
  <2> SUFFICES ASSUME IInv, Next, NEW r \in Request,
                      work[r].pc = "connecting", work'[r].pc = "applying", work[r].calm
               PROVE  lookup[work[r].lookup].answer = ActiveContext
    OBVIOUS
  <2> USE DEF IInv, ConnectionInv
  <2>1. WorkTyped /\ Save \subseteq Request
    BY RequestAssumption
  <2>2. ASSUME NEW q \in Request, Begin(q) \/ GiveUp(q) PROVE FALSE
    <3>1. PICK after : after.pc # "applying" /\ work' = [work EXCEPT ![q] = after]
      BY <2>2, IdleTyped DEF Begin, GiveUp
    <3> QED BY <2>1, <3>1 DEF WorkTyped
  <2>3. ASSUME NEW q \in Request, work[q].pc # "connecting",
               NEW after, work' = [work EXCEPT ![q] = after]
        PROVE  FALSE
    BY <2>1, <2>3 DEF WorkTyped
  <2>4. ASSUME NEW q \in Request, Finish(q) PROVE FALSE
    BY <2>3, <2>4 DEF Finish
  <2>5. ASSUME NEW q \in Save, Choose(q) \/ Leave(q) \/ Saved(q) \/ Open(q) PROVE FALSE
    BY <2>1, <2>3, <2>5 DEF Choose, Leave, Saved, Open
  <2>6. ASSUME NEW q \in Request, Connected(q) PROVE q = r
    BY <2>1, <2>6 DEF Connected, WorkTyped
  <2>7. ~Switch
    BY <2>1 DEF Switch, WorkTyped
  <2>8. work' # work
    OBVIOUS
  <2>9. Connected(r)
    BY <2>2, <2>4, <2>5, <2>6, <2>7, <2>8
       DEF Next, Resumes, Reads, Looks, Acquires, Watcher, Outside
  <2> QED BY <2>9 DEF Connected, WaitersAreServed, CalmIsCurrent
<1> QED BY <1>1, Invariance, PTL DEF Spec, SwitchesAreObserved
=============================================================================
