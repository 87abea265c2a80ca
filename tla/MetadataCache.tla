--------------------------- MODULE MetadataCache ---------------------------
(***************************************************************************)
(* The per-database schema cache of the extension host                     *)
(* (src/src/metadata/MetadataCache.ts).                                    *)
(*                                                                         *)
(* JavaScript runs one continuation at a time, so an action is the code    *)
(* between two awaits; what interleaves is the order in which catalog      *)
(* queries, snapshot reads and writes, and promise reactions come back.    *)
(*                                                                         *)
(* A schema is abstracted to the version of the server's catalog it was    *)
(* read at.  A cache identity (connection and database) is a Key; a        *)
(* CacheEntry object is an Entry, because an entry that left the map keeps *)
(* running the promises that captured it; a promise of an entry is a Task. *)
(***************************************************************************)
EXTENDS Naturals, FiniteSets

CONSTANTS
  Key,            \* cache identities
  Connection,     \* connection identities
  ConnectionOf,   \* the connection a key belongs to
  Entry,          \* CacheEntry objects
  Task,           \* promises of entries: initializations and refreshes
  Caller,         \* concurrent async calls into the cache
  Ops,            \* the operations callers use
  EmptyCatalogs,  \* catalog versions in which the database has no object
  MaxCatalog,     \* bound on schema changes
  None

ASSUME KeyAssumption == ConnectionOf \in [Key -> Connection]
ASSUME OpsAssumption == Ops \subseteq {"ensure", "refresh", "clear", "forget"}
ASSUME CatalogAssumption == MaxCatalog \in Nat /\ EmptyCatalogs \subseteq Nat
ASSUME NoneAssumption ==
  None \notin Nat /\ None \notin Key /\ None \notin Entry /\ None \notin Task

VARIABLES
  entries,   \* the Map: Key to its live entry
  cell,      \* the fields of every CacheEntry object
  task,      \* the promises in flight
  caller,    \* the async calls in progress
  file,      \* the persisted snapshot of each key
  catalog    \* the server's catalog version

vars == <<entries, cell, task, caller, file, catalog>>

Index == Nat \cup {None}
State == {"loading", "loaded", "unexpectedEmpty", "refreshing", "failed"}

(* nextRefreshEligibleAt is kept as due: whether the clock has passed it.  *)
CacheEntry ==
  [key : Key \cup {None}, state : State, value : Index,
   initialization : Task \cup {None}, refresh : Task \cup {None},
   persistentChecked : BOOLEAN, sessionRefreshAttempted : BOOLEAN,
   due : BOOLEAN]

(* A promise: reading or having read the snapshot file, running the        *)
(* catalog query, saving its result, the file renamed into place, and      *)
(* settled with its reactions still queued.                                *)
Promise ==
  [pc : {"free", "reading", "read", "loading", "saving", "saved",
         "resolved", "rejected"},
   kind : {"initialization", "refresh"}, entry : Entry \cup {None},
   index : Index]

Call ==
  [pc : {"idle", "initializing", "initialized", "refreshing",
         "quiescing", "deleting"},
   op : {"ensure", "refresh", "clear"}, key : Key \cup {None},
   entry : Entry \cup {None}, awaits : SUBSET Task]

FreshEntry(k) ==
  [key |-> k, state |-> "loading", value |-> None, initialization |-> None,
   refresh |-> None, persistentChecked |-> FALSE,
   sessionRefreshAttempted |-> FALSE, due |-> FALSE]
FreeTask ==
  [pc |-> "free", kind |-> "initialization", entry |-> None, index |-> None]
IdleCaller ==
  [pc |-> "idle", op |-> "ensure", key |-> None, entry |-> None, awaits |-> {}]

StateFor(v) == IF v \in EmptyCatalogs THEN "unexpectedEmpty" ELSE "loaded"

(* An entry object some promise or call still holds, or the map does.      *)
Referenced(e) ==
  \/ \E k \in Key : entries[k] = e
  \/ \E t \in Task : task[t].entry = e
  \/ \E c \in Caller : caller[c].entry = e

(* entry(): e is the key's entry, or a new object if it has none.          *)
Obtained(k, e) ==
  entries[k] = e \/ (entries[k] = None /\ ~Referenced(e))
EntryFor(k, e) == IF entries[k] = e THEN cell[e] ELSE FreshEntry(k)

Free(t) == task[t].pc = "free"
InFlight(t) == task[t].pc \in {"reading", "read", "loading", "saving", "saved"}
(* Mutant: only fulfilled promises have reactions. *)
SettledIfResolved(t) == task[t].pc = "resolved"
Settled(t) == task[t].pc \in {"resolved", "rejected"}
Started(kind, e, pc) ==
  [pc |-> pc, kind |-> kind, entry |-> e, index |-> None]

Slots(e) == {cell[e].initialization, cell[e].refresh} \ {None}

FieldsTyped ==
  /\ entries \in [Key -> Entry \cup {None}]
  /\ cell \in [Entry -> CacheEntry]
  /\ task \in [Task -> Promise]
  /\ caller \in [Caller -> Call]
  /\ file \in [Key -> Index]
  /\ catalog \in Nat

(* No entry holds, and no call awaits, a promise that is gone: a slot that  *)
(* was not emptied would be joined for ever.                               *)
PromisesLive ==
  /\ \A e \in Entry :
       Slots(e) \subseteq {t \in Task : ~Free(t) /\ task[t].entry = e}
  /\ \A c \in Caller : caller[c].awaits \subseteq {t \in Task : ~Free(t)}

TypeOK == FieldsTyped /\ PromisesLive

Init ==
  /\ entries = [k \in Key |-> None]
  /\ cell = [e \in Entry |-> FreshEntry(None)]
  /\ task = [t \in Task |-> FreeTask]
  /\ caller = [c \in Caller |-> IdleCaller]
  /\ file \in [Key -> {0, None}]
  /\ catalog = 0

-----------------------------------------------------------------------------
(* Calls                                                                   *)

ColdLoading(en) ==
  [en EXCEPT !.sessionRefreshAttempted = TRUE, !.due = FALSE]

(* Mutant: persistentChecked is never set. *)
InitializingUnmarked(en, t) ==
  LET begun == [en EXCEPT !.state = "loading", !.initialization = t]
  IN  IF en.persistentChecked THEN ColdLoading(begun) ELSE begun

(* initialize() up to its first await: the disk is read only once.         *)
Initializing(en, t) ==
  LET begun == [en EXCEPT !.state = "loading", !.initialization = t]
  IN  IF en.persistentChecked
      THEN ColdLoading(begun)
      ELSE [begun EXCEPT !.persistentChecked = TRUE]
FirstStep(en) == IF en.persistentChecked THEN "loading" ELSE "reading"

(* Mutant: the time of the attempt is not recorded. *)
RefreshingUndated(en, t) ==
  [en EXCEPT !.sessionRefreshAttempted = TRUE,
             !.state = "refreshing", !.refresh = t]

(* startRefresh() up to its first await.                                   *)
Refreshing(en, t) ==
  [en EXCEPT !.sessionRefreshAttempted = TRUE, !.due = FALSE,
             !.state = "refreshing", !.refresh = t]
(* Mutant: a refresh in progress is not looked for. *)
NeedsAnotherRefresh(en) ==
  en.value # None /\ (~en.sessionRefreshAttempted \/ en.due)

NeedsRefresh(en) ==
  /\ en.value # None /\ en.refresh = None
  /\ ~en.sessionRefreshAttempted \/ en.due

Waiting(op, pc, k, e, awaited) ==
  [pc |-> pc, op |-> op, key |-> k, entry |-> e, awaits |-> awaited]

(* ensureLoaded() of an entry with a snapshot answers at once; only the    *)
(* background refresh it schedules changes anything.                       *)
UseSnapshot(k) ==
  /\ entries[k] # None /\ "ensure" \in Ops
  /\ LET e == entries[k] IN
       /\ NeedsRefresh(cell[e])
       /\ \E t \in Task :
            /\ Free(t)
            /\ cell' = [cell EXCEPT ![e] = Refreshing(cell[e], t)]
            /\ task' = [task EXCEPT ![t] = Started("refresh", e, "loading")]
  /\ UNCHANGED <<entries, caller, file, catalog>>

(* Mutants: one of the early returns of ensureLoaded() is missing. *)
MustInitializeLoaded(en) == en.initialization = None
MustInitializeAgain(en) == en.value = None

(* ensureLoaded() goes past both of its early returns.                     *)
MustInitialize(en) == en.value = None /\ en.initialization = None

(* ensureLoaded(), or refresh() of an entry without a snapshot: join the   *)
(* initialization in progress.                                             *)
JoinInitialization(c, op, k) ==
  /\ caller[c].pc = "idle" /\ op \in Ops \cap {"ensure", "refresh"}
  /\ entries[k] # None
  /\ LET e == entries[k] IN
       /\ cell[e].value = None /\ cell[e].initialization # None
       /\ caller' = [caller EXCEPT ![c] =
            Waiting(op, "initializing", k, e, {cell[e].initialization})]
  /\ UNCHANGED <<entries, cell, task, file, catalog>>

(* The same calls when no initialization is in progress: start one.        *)
StartInitialization(c, op, k) ==
  /\ caller[c].pc = "idle" /\ op \in Ops \cap {"ensure", "refresh"}
  /\ \E e \in Entry, t \in Task :
       LET en == EntryFor(k, e) IN
         /\ Obtained(k, e) /\ Free(t)
         /\ MustInitialize(en)
         /\ entries' = [entries EXCEPT ![k] = e]
         /\ cell' = [cell EXCEPT ![e] = Initializing(en, t)]
         /\ task' = [task EXCEPT ![t] =
              Started("initialization", e, FirstStep(en))]
         /\ caller' = [caller EXCEPT ![c] =
              Waiting(op, "initializing", k, e, {t})]
  /\ UNCHANGED <<file, catalog>>

(* refresh() of an entry with a snapshot: join the refresh in progress or  *)
(* start one whatever its age.                                             *)
RefreshNow(c, k) ==
  /\ caller[c].pc = "idle" /\ "refresh" \in Ops /\ entries[k] # None
  /\ LET e == entries[k] IN
       /\ cell[e].value # None
       /\ \/ /\ cell[e].refresh # None
             /\ caller' = [caller EXCEPT ![c] =
                  Waiting("refresh", "refreshing", k, e, {cell[e].refresh})]
             /\ UNCHANGED <<cell, task>>
          \/ /\ cell[e].refresh = None
             /\ \E t \in Task :
                  /\ Free(t)
                  /\ cell' = [cell EXCEPT ![e] = Refreshing(cell[e], t)]
                  /\ task' = [task EXCEPT ![t] =
                       Started("refresh", e, "loading")]
                  /\ caller' = [caller EXCEPT ![c] =
                       Waiting("refresh", "refreshing", k, e, {t})]
  /\ UNCHANGED <<entries, file, catalog>>

(* refresh() resumed after ensureLoaded(): entry.refresh, if there is one, *)
(* is awaited too; otherwise the call returns what the entry holds.        *)
RefreshAfterInitialization(c) ==
  /\ caller[c].pc = "initialized"
  /\ LET pending == cell[caller[c].entry].refresh IN
       caller' = [caller EXCEPT ![c] =
         IF pending = None THEN IdleCaller
         ELSE [caller[c] EXCEPT !.pc = "refreshing", !.awaits = {pending}]]
  /\ UNCHANGED <<entries, cell, task, file, catalog>>

(* clearDatabase() up to allSettled of the promises the entry has now.     *)
ClearDatabase(c, k) ==
  /\ caller[c].pc = "idle" /\ "clear" \in Ops
  /\ caller' = [caller EXCEPT ![c] =
       Waiting("clear", "quiescing", k, None,
               IF entries[k] = None THEN {} ELSE Slots(entries[k]))]
  /\ UNCHANGED <<entries, cell, task, file, catalog>>

(* clearDatabase() resumed: the entry leaves the map, the unlink starts.   *)
ClearMemory(c) ==
  /\ caller[c].pc = "quiescing" /\ caller[c].awaits = {}
  /\ entries' = [entries EXCEPT ![caller[c].key] = None]
  /\ caller' = [caller EXCEPT ![c].pc = "deleting"]
  /\ UNCHANGED <<cell, task, file, catalog>>

(* store.delete(): the file goes, or the unlink fails and the call rejects.*)
ClearFile(c) ==
  /\ caller[c].pc = "deleting"
  /\ file' = [file EXCEPT ![caller[c].key] = None]
  /\ caller' = [caller EXCEPT ![c] = IdleCaller]
  /\ UNCHANGED <<entries, cell, task, catalog>>

ClearFileFails(c) ==
  /\ caller[c].pc = "deleting"
  /\ caller' = [caller EXCEPT ![c] = IdleCaller]
  /\ UNCHANGED <<entries, cell, task, file, catalog>>

(* invalidate(), invalidateConnection() and clear().                       *)
Forget(keys) ==
  /\ "forget" \in Ops
  /\ entries' = [k \in Key |-> IF k \in keys THEN None ELSE entries[k]]
  /\ UNCHANGED <<cell, task, caller, file, catalog>>

Invalidate(k) == Forget({k})
InvalidateConnection(n) == Forget({k \in Key : ConnectionOf[k] = n})
Clear == Forget(Key)

-----------------------------------------------------------------------------
(* Promises                                                                *)

(* store.load() sees the file, or cannot read it and reports a miss.       *)
ReadSnapshot(t) ==
  /\ task[t].pc = "reading"
  /\ \E seen \in {file[cell[task[t].entry].key], None} :
       task' = [task EXCEPT ![t].pc = "read", ![t].index = seen]
  /\ UNCHANGED <<entries, cell, caller, file, catalog>>

Installed(en, v) == [en EXCEPT !.value = v, !.state = StateFor(v)]

(* A persistent hit: install the snapshot and schedule the first refresh   *)
(* of the session.                                                         *)
Hydrate(t) ==
  /\ task[t].pc = "read" /\ task[t].index # None
  /\ LET e == task[t].entry
         en == Installed(cell[e], task[t].index)
         resolved == [task EXCEPT ![t].pc = "resolved"]
     IN  \/ /\ NeedsRefresh(en)
            /\ \E r \in Task :
                 /\ Free(r)
                 /\ cell' = [cell EXCEPT ![e] = Refreshing(en, r)]
                 /\ task' = [resolved EXCEPT ![r] =
                      Started("refresh", e, "loading")]
         \/ /\ ~NeedsRefresh(en)
            /\ cell' = [cell EXCEPT ![e] = en]
            /\ task' = resolved
  /\ UNCHANGED <<entries, caller, file, catalog>>

(* A persistent miss: fall through to the cold load.                       *)
ColdLoad(t) ==
  /\ task[t].pc = "read" /\ task[t].index = None
  /\ cell' = [cell EXCEPT ![task[t].entry] = ColdLoading(@)]
  /\ task' = [task EXCEPT ![t].pc = "loading"]
  /\ UNCHANGED <<entries, caller, file, catalog>>

(* The catalog query comes back with the schema as it is on the server,    *)
(* and the save starts.                                                    *)
QueryReturns(t) ==
  /\ task[t].pc = "loading"
  /\ task' = [task EXCEPT ![t].pc = "saving", ![t].index = catalog]
  /\ UNCHANGED <<entries, cell, caller, file, catalog>>

(* Mutant: a failure hides a snapshot that is there. *)
FailedOutright(en) == [en EXCEPT !.state = "failed"]

(* A refresh that fails keeps the snapshot; a cold load has none to keep.  *)
Failed(en) ==
  [en EXCEPT !.state = IF en.value = None THEN "failed" ELSE StateFor(en.value)]

Rejects(t) ==
  /\ cell' = [cell EXCEPT ![task[t].entry] = Failed(@)]
  /\ task' = [task EXCEPT ![t].pc = "rejected"]

QueryFails(t) ==
  /\ task[t].pc = "loading"
  /\ Rejects(t)
  /\ UNCHANGED <<entries, caller, file, catalog>>

(* save(): the rename publishes the snapshot.                              *)
SnapshotPersisted(t) ==
  /\ task[t].pc = "saving"
  /\ file' = [file EXCEPT ![cell[task[t].entry].key] = task[t].index]
  /\ task' = [task EXCEPT ![t].pc = "saved"]
  /\ UNCHANGED <<entries, cell, caller, catalog>>

(* The result becomes the entry's value; the next refresh is one interval  *)
(* away.                                                                   *)
Installs(t) ==
  /\ cell' = [cell EXCEPT ![task[t].entry] =
       [Installed(@, task[t].index) EXCEPT !.due = FALSE]]
  /\ task' = [task EXCEPT ![t].pc = "resolved"]

Completed(t) ==
  /\ task[t].pc = "saved"
  /\ Installs(t)
  /\ UNCHANGED <<entries, caller, file, catalog>>

(* Mutant: a refresh shows what it could not persist. *)
SaveFailsUnnoticed(t) ==
  /\ task[t].pc = "saving"
  /\ Installs(t)
  /\ UNCHANGED <<entries, caller, file, catalog>>

(* A failed save is swallowed by a cold load and fails a refresh.          *)
SaveFails(t) ==
  /\ task[t].pc = "saving"
  /\ \/ task[t].kind = "initialization" /\ Installs(t)
     \/ task[t].kind = "refresh" /\ Rejects(t)
  /\ UNCHANGED <<entries, caller, file, catalog>>

(* What a call does when the promise t it awaits settles.                  *)
Woken(call, t) ==
  CASE t \notin call.awaits -> call
    [] t \in call.awaits /\ call.op = "clear" ->
         [call EXCEPT !.awaits = @ \ {t}]
    [] /\ t \in call.awaits /\ call.op = "refresh"
       /\ call.pc = "initializing" /\ task[t].pc = "resolved" ->
         [call EXCEPT !.pc = "initialized", !.awaits = {}]
    [] OTHER -> IdleCaller

(* Mutant: then() instead of finally(): a promise that rejects stays. *)
SlotIfResolved(en, t) ==
  IF task[t].pc = "rejected" THEN en
  ELSE [en EXCEPT !.initialization = IF @ = t THEN None ELSE @,
                  !.refresh = IF @ = t THEN None ELSE @]

Slot(en, t) ==
  [en EXCEPT !.initialization = IF @ = t THEN None ELSE @,
             !.refresh = IF @ = t THEN None ELSE @]

(* The reactions of a settled promise: the slot that holds it is emptied   *)
(* first, then whoever awaits it resumes.                                  *)
React(t) ==
  /\ Settled(t)
  /\ cell' = [cell EXCEPT ![task[t].entry] = Slot(@, t)]
  /\ task' = [task EXCEPT ![t] = FreeTask]
  /\ caller' = [c \in Caller |-> Woken(caller[c], t)]
  /\ UNCHANGED <<entries, file, catalog>>

-----------------------------------------------------------------------------
(* The world                                                               *)

(* Fifteen minutes pass since the last attempt on the key's entry.         *)
Elapse(k) ==
  /\ entries[k] # None
  /\ cell[entries[k]].sessionRefreshAttempted
  /\ cell' = [cell EXCEPT ![entries[k]].due = TRUE]
  /\ UNCHANGED <<entries, task, caller, file, catalog>>

SchemaChanges ==
  /\ catalog < MaxCatalog
  /\ catalog' = catalog + 1
  /\ UNCHANGED <<entries, cell, task, caller, file>>

(* The window is reloaded: memory and calls are gone, files are not.       *)
Restart ==
  /\ entries' = [k \in Key |-> None]
  /\ cell' = [e \in Entry |-> FreshEntry(None)]
  /\ task' = [t \in Task |-> FreeTask]
  /\ caller' = [c \in Caller |-> IdleCaller]
  /\ UNCHANGED <<file, catalog>>

CallStarts(c) ==
  \E k \in Key :
    \/ \E op \in {"ensure", "refresh"} :
         JoinInitialization(c, op, k) \/ StartInitialization(c, op, k)
    \/ RefreshNow(c, k)
    \/ ClearDatabase(c, k)
CallResumes(c) ==
  \/ RefreshAfterInitialization(c)
  \/ ClearMemory(c) \/ ClearFile(c) \/ ClearFileFails(c)
TaskRuns(t) ==
  \/ ReadSnapshot(t) \/ Hydrate(t) \/ ColdLoad(t)
  \/ QueryReturns(t) \/ QueryFails(t)
  \/ SnapshotPersisted(t) \/ SaveFails(t) \/ Completed(t)
  \/ React(t)

Running ==
  \/ \E k \in Key : UseSnapshot(k) \/ Invalidate(k) \/ Elapse(k)
  \/ \E n \in Connection : InvalidateConnection(n)
  \/ Clear
  \/ \E c \in Caller : CallStarts(c) \/ CallResumes(c)
  \/ \E t \in Task : TaskRuns(t)
  \/ SchemaChanges

Next == Running \/ Restart

Spec == Init /\ [][Next]_vars

(* Queries, file operations and promise reactions come back; nobody owes   *)
(* a call, a schema change or the passing of an interval.                  *)
Fairness ==
  /\ \A t \in Task : WF_vars(TaskRuns(t))
  /\ \A c \in Caller : WF_vars(CallResumes(c))
FairSpec == Spec /\ Fairness

-----------------------------------------------------------------------------
(* Properties                                                              *)

KeyOf(t) == cell[task[t].entry].key
IsLoad(t) == task[t].pc \in {"loading", "saving", "saved"}

(* A promise in flight is the one its entry's slot holds, so an entry never *)
(* runs two initializations or two refreshes: callers that come while one  *)
(* runs find it and join it.                                               *)
SingleFlight ==
  \A t \in Task : ~Free(t) =>
    IF task[t].kind = "initialization"
    THEN cell[task[t].entry].initialization = t
    ELSE cell[task[t].entry].refresh = t

(* A cold load never runs over a usable snapshot nor beside a refresh of   *)
(* the same entry, whatever failed before it.                              *)
ColdLoadsAlone ==
  \A t \in Task : InFlight(t) /\ task[t].kind = "initialization" =>
    /\ cell[task[t].entry].value = None
    /\ cell[task[t].entry].refresh = None

(* Loads of an entry are coalesced: there is one at a time, and none that  *)
(* is not needed.                                                          *)
OneLoadAtATime == SingleFlight /\ ColdLoadsAlone

(* status() and snapshots() tell the truth: "loading" and "refreshing" mean *)
(* that work of that kind is in flight, the other states that none is, and *)
(* only an entry without a snapshot is "failed".                           *)
StatusIsTrue ==
  \A e \in Entry : Referenced(e) =>
    LET Working(kind) ==
          \E t \in Task : /\ task[t].entry = e /\ task[t].kind = kind
                          /\ InFlight(t)
        en == cell[e]
    IN  /\ en.state = "loading" <=> Working("initialization")
        /\ en.state = "refreshing" <=> Working("refresh")
        /\ en.state = "failed" => en.value = None
        /\ en.state \in {"loaded", "unexpectedEmpty"} =>
             en.value # None /\ en.state = StateFor(en.value)

(* The disk is consulted before any catalog query of the entry, hence once *)
(* per entry and session: a retry after a failed cold load queries again.  *)
DiskIsReadFirst ==
  \A t \in Task : task[t].pc \in {"reading", "read"} =>
    ~cell[task[t].entry].sessionRefreshAttempted

(* Every usable snapshot has had a catalog query started for it in this    *)
(* session: one that came from disk is being, or has been, refreshed.      *)
UsableIsAttempted ==
  \A e \in Entry :
    cell[e].value # None => cell[e].sessionRefreshAttempted

(* The attempt of a session is marked when a query starts and never taken  *)
(* back: nothing is read from disk after it and nothing used without it.   *)
AttemptsAreMarked == DiskIsReadFirst /\ UsableIsAttempted

(* While an entry object is in use its snapshot is never lost and never    *)
(* replaced by an older one.                                               *)
ValueGoesForward ==
  [][\A e \in Entry :
       Referenced(e) /\ Referenced(e)' /\ cell[e].value # None =>
         cell'[e].value # None /\ cell'[e].value >= cell[e].value]_vars

(* At most one catalog query with its save is in flight per cache identity.*)
OneLoadPerIdentity ==
  \A t, u \in Task :
    IsLoad(t) /\ IsLoad(u) /\ KeyOf(t) = KeyOf(u) => t = u

(* The persisted snapshot is never removed and never replaced by an older  *)
(* one, whatever query or save fails.                                      *)
FileGoesForward ==
  [][\A k \in Key : file[k] # None =>
       file'[k] # None /\ file'[k] >= file[k]]_vars

(* Every call into the cache returns or rejects.                           *)
CallsReturn ==
  \A c \in Caller : caller[c].pc # "idle" ~> caller[c].pc = "idle"

(* An entry in use does not stay at work for ever.                         *)
Busy(e) == Referenced(e) /\ cell[e].state \in {"loading", "refreshing"}
WorkEnds == \A e \in Entry : Busy(e) ~> ~Busy(e)

(* Everything that waits comes to an end: callers, whoever started the     *)
(* promise they joined, and the states that entries show of their work.    *)
WorkSettles == CallsReturn /\ WorkEnds

-----------------------------------------------------------------------------
(* The cache, used without clearing or forgetting, implements              *)
(* CoalescedCatalog: what a session sees of a key is the value of its      *)
(* entry, and a load in flight is the promise of one.                      *)
shown ==
  [k \in Key |-> IF entries[k] = None THEN None ELSE cell[entries[k]].value]
load ==
  [k \in Key |-> {[pc |-> task[t].pc, index |-> task[t].index] :
                    t \in {u \in Task : IsLoad(u) /\ KeyOf(u) = k}}]

Coalesced == INSTANCE CoalescedCatalog WITH stored <- file

(* Every behaviour of the cache is one of CoalescedCatalog: see its header *)
(* for the promise, docs/ARCHITECTURE.md lines 226-261 for the words.      *)
CoalescedSpec == Coalesced!Spec
=============================================================================
