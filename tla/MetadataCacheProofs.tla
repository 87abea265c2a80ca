------------------------ MODULE MetadataCacheProofs ------------------------
(***************************************************************************)
(* What holds of the schema cache for every number of keys, entries,       *)
(* promises, callers and schema changes.  The first part is about a step   *)
(* of the cache, the second about the cache observed over time: a cache    *)
(* whose owner neither clears nor forgets implements CoalescedCatalog, and *)
(* its status item shows what it does; refreshes are paced whatever the    *)
(* owner does.                                                             *)
(***************************************************************************)
EXTENDS MetadataCacheHistory, TLAPS

(* A promise belongs to an entry of some key until it is free, a live      *)
(* entry is one of its own key, a save has a schema to write, and a call   *)
(* that will look at an entry has one.                                     *)
WellFormed ==
  /\ \A t \in Task : ~Free(t) => task[t].entry \in Entry /\ KeyOf(t) \in Key
  /\ \A k \in Key : entries[k] # None => cell[entries[k]].key = k
  /\ \A t \in Task : task[t].pc \in {"saving", "saved"} => task[t].index \in Nat
  /\ \A c \in Caller : caller[c].pc \in {"initializing", "initialized"} =>
       caller[c].entry \in Entry

Typed == FieldsTyped /\ WellFormed

-----------------------------------------------------------------------------
(* The operators the actions are built from stay within their types.       *)

LEMMA Blanks ==
  /\ \A k \in Key \cup {None} : FreshEntry(k) \in CacheEntry
  /\ FreeTask \in Promise /\ FreeTask.pc = "free"
  /\ IdleCaller \in Call /\ IdleCaller.pc = "idle"
  BY DEF FreshEntry, FreeTask, IdleCaller, CacheEntry, Promise, Call, State,
         Index

LEMMA EntryOperators ==
  /\ \A en \in CacheEntry :
       /\ ColdLoading(en) \in CacheEntry /\ ColdLoading(en).key = en.key
       /\ Failed(en) \in CacheEntry /\ Failed(en).key = en.key
       /\ [en EXCEPT !.due = TRUE] \in CacheEntry
       /\ [en EXCEPT !.due = TRUE].key = en.key
  /\ \A en \in CacheEntry, t \in Task :
       /\ Initializing(en, t) \in CacheEntry
       /\ Initializing(en, t).key = en.key
       /\ Refreshing(en, t) \in CacheEntry /\ Refreshing(en, t).key = en.key
       /\ Slot(en, t) \in CacheEntry /\ Slot(en, t).key = en.key
  /\ \A en \in CacheEntry, v \in Nat :
       /\ Installed(en, v) \in CacheEntry /\ Installed(en, v).key = en.key
       /\ [Installed(en, v) EXCEPT !.due = FALSE] \in CacheEntry
       /\ [Installed(en, v) EXCEPT !.due = FALSE].key = en.key
<1>1. ASSUME NEW en \in CacheEntry
      PROVE  /\ ColdLoading(en) \in CacheEntry /\ ColdLoading(en).key = en.key
             /\ Failed(en) \in CacheEntry /\ Failed(en).key = en.key
             /\ [en EXCEPT !.due = TRUE] \in CacheEntry
             /\ [en EXCEPT !.due = TRUE].key = en.key
  BY DEF ColdLoading, Failed, StateFor, CacheEntry, State
<1>2. ASSUME NEW en \in CacheEntry, NEW t \in Task
      PROVE  /\ Initializing(en, t) \in CacheEntry
             /\ Initializing(en, t).key = en.key
             /\ Refreshing(en, t) \in CacheEntry
             /\ Refreshing(en, t).key = en.key
             /\ Slot(en, t) \in CacheEntry /\ Slot(en, t).key = en.key
  BY DEF Initializing, Refreshing, ColdLoading, Slot, CacheEntry, State
<1>3. ASSUME NEW en \in CacheEntry, NEW v \in Nat
      PROVE  /\ Installed(en, v) \in CacheEntry
             /\ Installed(en, v).key = en.key
             /\ [Installed(en, v) EXCEPT !.due = FALSE] \in CacheEntry
             /\ [Installed(en, v) EXCEPT !.due = FALSE].key = en.key
  BY DEF Installed, StateFor, CacheEntry, Index, State
<1> QED BY <1>1, <1>2, <1>3

LEMMA TaskOperators ==
  ASSUME NEW e \in Entry, NEW kind \in {"initialization", "refresh"},
         NEW pc \in {"reading", "loading"}
  PROVE  /\ Started(kind, e, pc) \in Promise
         /\ Started(kind, e, pc).entry = e
         /\ Started(kind, e, pc).pc = pc
  BY DEF Started, Promise, Index

LEMMA CallOperators ==
  ASSUME NEW op \in {"ensure", "refresh", "clear"}, NEW k \in Key,
         NEW e \in Entry \cup {None}, NEW awaited \in SUBSET Task,
         NEW pc \in {"initializing", "refreshing", "quiescing"}
  PROVE  /\ Waiting(op, pc, k, e, awaited) \in Call
         /\ Waiting(op, pc, k, e, awaited).entry = e
         /\ Waiting(op, pc, k, e, awaited).pc = pc
  BY DEF Waiting, Call

-----------------------------------------------------------------------------
(* Type correctness                                                        *)

LEMMA TypeInit == Init => Typed
  BY DEF Init, Typed, FieldsTyped, WellFormed, CacheEntry, Promise, Call, Free,
         FreshEntry, FreeTask, IdleCaller, State, Index

LEMMA TypeNext == Typed /\ [Next]_vars => Typed'
<1> SUFFICES ASSUME Typed, [Next]_vars PROVE Typed'
  OBVIOUS
<1> USE NoneAssumption DEF Typed, FieldsTyped
<1>1. ASSUME NEW k \in Key, UseSnapshot(k) PROVE Typed'
  <2>1. PICK t \in Task :
          /\ Free(t)
          /\ cell' = [cell EXCEPT ![entries[k]] = Refreshing(cell[entries[k]], t)]
          /\ task' = [task EXCEPT ![t] = Started("refresh", entries[k], "loading")]
          /\ entries[k] \in Entry
          /\ UNCHANGED <<entries, caller, file, catalog>>
    BY <1>1 DEF UseSnapshot
  <2>2. cell' \in [Entry -> CacheEntry]
    BY <2>1, EntryOperators
  <2>3. task' \in [Task -> Promise]
    BY <2>1, TaskOperators
  <2>4. \A e \in Entry : cell'[e].key = cell[e].key
    BY <2>1, EntryOperators
  <2>5. WellFormed'
    BY <2>1, <2>4, TaskOperators DEF WellFormed, Free, KeyOf
  <2> QED BY <2>1, <2>2, <2>3, <2>5
<1>2. ASSUME NEW c \in Caller, NEW k \in Key, NEW op \in {"ensure", "refresh"},
             JoinInitialization(c, op, k)
      PROVE Typed'
  <2>1. PICK t \in Task : 
        /\ entries[k] \in Entry
        /\ caller' = [caller EXCEPT ![c] =
              Waiting(op, "initializing", k, entries[k], {t})]
        /\ UNCHANGED <<entries, cell, task, file, catalog>>
    BY <1>2 DEF JoinInitialization, CacheEntry
  <2> QED BY <2>1, CallOperators DEF WellFormed, Free, KeyOf
<1>3. ASSUME NEW c \in Caller, NEW k \in Key, NEW op \in {"ensure", "refresh"},
             StartInitialization(c, op, k)
      PROVE Typed'
  <2>1. PICK e \in Entry, t \in Task :
          /\ entries' = [entries EXCEPT ![k] = e]
          /\ cell' = [cell EXCEPT ![e] = Initializing(EntryFor(k, e), t)]
          /\ task' = [task EXCEPT ![t] =
               Started("initialization", e, FirstStep(EntryFor(k, e)))]
          /\ caller' = [caller EXCEPT ![c] =
               Waiting(op, "initializing", k, e, {t})]
          /\ Obtained(k, e)
          /\ UNCHANGED <<file, catalog>>
    BY <1>3 DEF StartInitialization
  <2>2. EntryFor(k, e) \in CacheEntry
    BY Blanks DEF EntryFor
  <2>3. FirstStep(EntryFor(k, e)) \in {"reading", "loading"}
    BY DEF FirstStep
  <2>4. entries' \in [Key -> Entry \cup {None}] /\ cell' \in [Entry -> CacheEntry]
    BY <2>1, <2>2, EntryOperators
  <2>5. task' \in [Task -> Promise]
    BY <2>1, <2>3, TaskOperators
  <2>6. caller' \in [Caller -> Call]
    BY <2>1, CallOperators
  <2>7. WellFormed'
    <3>1. cell'[e].key = k
      <4>1. EntryFor(k, e).key = k
        BY DEF EntryFor, FreshEntry, WellFormed
      <4> QED BY <2>1, <2>2, <4>1, EntryOperators
    <3>2. \A d \in Entry : d # e => cell'[d] = cell[d]
      BY <2>1
    <3>3. \A j \in Key : entries[j] = e => j = k
      BY <2>1 DEF Obtained, Referenced, WellFormed
    <3>4. \A u \in Task : task[u].entry = e => entries[k] = e
      BY <2>1 DEF Obtained, Referenced
    <3>5. \A u \in Task : ~Free(u)' =>
            task'[u].entry \in Entry /\ KeyOf(u)' \in Key
      BY <2>1, <2>3, <3>1, <3>2, TaskOperators DEF WellFormed, Free, KeyOf
    <3>6. \A j \in Key : entries'[j] # None => cell'[entries'[j]].key = j
      BY <2>1, <3>1, <3>2, <3>3 DEF WellFormed
    <3>7. \A u \in Task :
            task'[u].pc \in {"saving", "saved"} => task'[u].index \in Nat
      BY <2>1, <2>3, TaskOperators DEF WellFormed
    <3>8. \A d \in Caller : caller'[d].pc \in {"initializing", "initialized"}
            => caller'[d].entry \in Entry
      BY <2>1, CallOperators DEF WellFormed
    <3> QED BY <3>5, <3>6, <3>7, <3>8 DEF WellFormed
  <2> QED BY <2>1, <2>4, <2>5, <2>6, <2>7
<1>4. ASSUME NEW c \in Caller, NEW k \in Key, RefreshNow(c, k) PROVE Typed'
  <2>1. CASE /\ cell[entries[k]].refresh # None
             /\ caller' = [caller EXCEPT ![c] =
                  Waiting("refresh", "refreshing", k, entries[k],
                          {cell[entries[k]].refresh})]
             /\ UNCHANGED <<cell, task>>
    <3>1. entries[k] \in Entry /\ UNCHANGED <<entries, file, catalog>>
      BY <1>4 DEF RefreshNow
    <3>2. cell[entries[k]].refresh \in Task
      BY <2>1, <3>1 DEF CacheEntry
    <3> QED BY <2>1, <3>1, <3>2, CallOperators DEF WellFormed, Free, KeyOf
  <2>2. ASSUME NEW t \in Task,
               cell' = [cell EXCEPT ![entries[k]] =
                 Refreshing(cell[entries[k]], t)],
               task' = [task EXCEPT ![t] =
                 Started("refresh", entries[k], "loading")],
               caller' = [caller EXCEPT ![c] =
                 Waiting("refresh", "refreshing", k, entries[k], {t})]
        PROVE  Typed'
    <3>1. entries[k] \in Entry /\ UNCHANGED <<entries, file, catalog>>
      BY <1>4 DEF RefreshNow
    <3>2. cell' \in [Entry -> CacheEntry]
      BY <2>2, <3>1, EntryOperators
    <3>3. task' \in [Task -> Promise]
      BY <2>2, <3>1, TaskOperators
    <3>4. caller' \in [Caller -> Call]
      BY <2>2, <3>1, CallOperators
    <3>5. \A e \in Entry : cell'[e].key = cell[e].key
      BY <2>2, <3>1, EntryOperators
    <3>6. WellFormed'
      BY <2>2, <3>1, <3>5, TaskOperators, CallOperators
         DEF WellFormed, Free, KeyOf
    <3> QED BY <3>1, <3>2, <3>3, <3>4, <3>6
  <2> QED BY <1>4, <2>1, <2>2 DEF RefreshNow
<1>5. ASSUME NEW c \in Caller, NEW k \in Key, ClearDatabase(c, k)
      PROVE Typed'
  <2>1. PICK awaited \in SUBSET Task :
          caller' = [caller EXCEPT ![c] =
            Waiting("clear", "quiescing", k, None, awaited)]
    <3>1. CASE entries[k] = None
      BY <1>5, <3>1 DEF ClearDatabase
    <3>2. CASE entries[k] # None
      <4>1. Slots(entries[k]) \in SUBSET Task
        BY <3>2 DEF Slots, CacheEntry
      <4> QED BY <1>5, <3>2, <4>1 DEF ClearDatabase
    <3> QED BY <3>1, <3>2
  <2>2. UNCHANGED <<entries, cell, task, file, catalog>>
    BY <1>5 DEF ClearDatabase
  <2> QED BY <2>1, <2>2, CallOperators DEF WellFormed, Free, KeyOf
<1>6. ASSUME NEW c \in Caller, CallResumes(c) PROVE Typed'
  <2>1. CASE RefreshAfterInitialization(c)
    <3> DEFINE pending == cell[caller[c].entry].refresh
    <3>1. pending \in Task \cup {None}
      BY <2>1 DEF RefreshAfterInitialization, WellFormed, CacheEntry
    <3> DEFINE joined == [caller[c] EXCEPT !.pc = "refreshing",
                                           !.awaits = {pending}]
    <3>2. pending # None => joined \in Call /\ joined.pc = "refreshing"
      BY <3>1 DEF Call
    <3> HIDE DEF joined
    <3> HIDE DEF pending
    <3>3. /\ caller' = [caller EXCEPT ![c] =
               IF pending = None THEN IdleCaller ELSE joined]
          /\ UNCHANGED <<entries, cell, task, file, catalog>>
      BY <2>1 DEF RefreshAfterInitialization, pending, joined
    <3>4. caller' \in [Caller -> Call]
      BY <3>2, <3>3, Blanks
    <3>5. /\ caller'[c].pc \in {"idle", "refreshing"}
          /\ \A d \in Caller : d # c => caller'[d] = caller[d]
      BY <3>2, <3>3, Blanks
    <3> QED BY <3>3, <3>4, <3>5 DEF WellFormed, Free, KeyOf
  <2>2. CASE ClearMemory(c)
    <3>1. caller' \in [Caller -> Call]
      BY <2>2 DEF ClearMemory, Call
    <3>2. entries' \in [Key -> Entry \cup {None}]
      BY <2>2 DEF ClearMemory
    <3>3. \A d \in Caller : \/ caller'[d] = caller[d]
                            \/ caller'[d].pc = "deleting"
      BY <2>2 DEF ClearMemory, Call
    <3> QED BY <2>2, <3>1, <3>2, <3>3 DEF ClearMemory, WellFormed, Free, KeyOf
  <2>3. CASE ClearFile(c)
    BY <2>3, Blanks DEF ClearFile, WellFormed, Free, KeyOf, Index
  <2>4. CASE ClearFileFails(c)
    BY <2>4, Blanks DEF ClearFileFails, WellFormed, Free, KeyOf
  <2> QED BY <1>6, <2>1, <2>2, <2>3, <2>4 DEF CallResumes
<1>7. ASSUME NEW keys \in SUBSET Key, Forget(keys) PROVE Typed'
  BY <1>7 DEF Forget, WellFormed, Free, KeyOf
<1>8. ASSUME NEW t \in Task, TaskRuns(t) PROVE Typed'
  <2> DEFINE e == task[t].entry
  <2>1. /\ ReadSnapshot(t) \/ Hydrate(t) \/ ColdLoad(t) \/ QueryReturns(t)
           \/ QueryFails(t) \/ SnapshotPersisted(t) \/ SaveFails(t)
           \/ Completed(t) \/ React(t)
        /\ ~Free(t) /\ e \in Entry /\ cell[e] \in CacheEntry
        /\ cell[e].key \in Key
    BY <1>8 DEF TaskRuns, ReadSnapshot, Hydrate, ColdLoad, QueryReturns,
       QueryFails, SnapshotPersisted, SaveFails, Completed, React, Settled,
       WellFormed, Free, KeyOf
  <2> HIDE DEF e
  <2>2. CASE ReadSnapshot(t)
    <3>1. PICK seen \in Index :
            task' = [task EXCEPT ![t].pc = "read", ![t].index = seen]
      BY <2>1, <2>2 DEF ReadSnapshot, Index, e
    <3>2. task' \in [Task -> Promise]
      BY <3>1 DEF Promise
    <3> QED BY <2>2, <3>1, <3>2 DEF ReadSnapshot, WellFormed, Free, KeyOf, Promise
  <2>3. CASE ColdLoad(t)
    <3>1. cell' \in [Entry -> CacheEntry]
      BY <2>1, <2>3, EntryOperators DEF ColdLoad, e
    <3>2. \A d \in Entry : cell'[d].key = cell[d].key
      BY <2>1, <2>3, EntryOperators DEF ColdLoad, e
    <3>3. task' \in [Task -> Promise]
      BY <2>3 DEF ColdLoad, Promise
    <3> QED BY <2>3, <3>1, <3>2, <3>3
            DEF ColdLoad, WellFormed, Free, KeyOf, Promise
  <2>4. CASE QueryReturns(t)
    <3>1. task' \in [Task -> Promise]
      BY <2>4 DEF QueryReturns, Promise, Index
    <3> QED BY <2>4, <3>1 DEF QueryReturns, WellFormed, Free, KeyOf, Promise
  <2>5. CASE SnapshotPersisted(t)
    <3>1. task' \in [Task -> Promise] /\ file' \in [Key -> Index]
      BY <2>1, <2>5 DEF SnapshotPersisted, Promise, e
    <3> QED BY <2>5, <3>1 DEF SnapshotPersisted, WellFormed, Free, KeyOf, Promise
  <2>6. ASSUME NEW en \in CacheEntry, en.key = cell[e].key,
               NEW pc \in {"resolved", "rejected"},
               cell' = [cell EXCEPT ![e] = en],
               task' = [task EXCEPT ![t].pc = pc],
               UNCHANGED <<entries, caller, file, catalog>>
        PROVE  Typed'
    <3>1. /\ cell' \in [Entry -> CacheEntry]
          /\ \A d \in Entry : cell'[d].key = cell[d].key
      BY <2>1, <2>6
    <3>2. task' \in [Task -> Promise]
      BY <2>6 DEF Promise
    <3> QED BY <2>1, <2>6, <3>1, <3>2 DEF WellFormed, Free, KeyOf, Promise
  <2>7. CASE QueryFails(t)
    <3>1. /\ cell' = [cell EXCEPT ![e] = Failed(cell[e])]
          /\ task' = [task EXCEPT ![t].pc = "rejected"]
          /\ UNCHANGED <<entries, caller, file, catalog>>
      BY <2>7 DEF QueryFails, Rejects, e
    <3> QED BY <2>1, <2>6, <3>1, EntryOperators
  <2>8. CASE Completed(t)
    BY <2>1, <2>6, <2>8, EntryOperators DEF Completed, Installs, WellFormed, e
  <2>9. CASE SaveFails(t)
    BY <2>1, <2>6, <2>9, EntryOperators
       DEF SaveFails, Installs, Rejects, WellFormed, e
  <2>10. CASE Hydrate(t)
    <3> DEFINE en == Installed(cell[e], task[t].index)
    <3>1. en \in CacheEntry /\ en.key = cell[e].key
      BY <2>1, <2>10, EntryOperators DEF Hydrate, Promise, Index
    <3> HIDE DEF en
    <3>2. CASE /\ cell' = [cell EXCEPT ![e] = en]
               /\ task' = [task EXCEPT ![t].pc = "resolved"]
      BY <2>6, <2>10, <3>1, <3>2 DEF Hydrate
    <3>3. ASSUME NEW r \in Task, Free(r),
                 cell' = [cell EXCEPT ![e] = Refreshing(en, r)],
                 task' = [[task EXCEPT ![t].pc = "resolved"]
                            EXCEPT ![r] = Started("refresh", e, "loading")]
          PROVE  Typed'
      <4>1. /\ cell' \in [Entry -> CacheEntry]
            /\ \A d \in Entry : cell'[d].key = cell[d].key
        BY <2>1, <3>1, <3>3, EntryOperators
      <4>2. task' \in [Task -> Promise]
        BY <2>1, <3>3, TaskOperators DEF Promise
      <4>3. /\ task'[r] = Started("refresh", e, "loading")
            /\ r # t /\ task'[t].pc = "resolved" /\ task'[t].entry = e
            /\ \A u \in Task : u # r /\ u # t => task'[u] = task[u]
        BY <2>1, <3>3 DEF Promise, e, Free
      <4>4. /\ Started("refresh", e, "loading").entry = e
            /\ Started("refresh", e, "loading").pc = "loading"
        BY DEF Started
      <4>5. \A u \in Task : ~Free(u)' =>
              task'[u].entry \in Entry /\ KeyOf(u)' \in Key
        BY <2>1, <4>1, <4>3, <4>4 DEF WellFormed, Free, KeyOf
      <4>6. \A u \in Task : task'[u].pc \in {"saving", "saved"} =>
              task'[u].index \in Nat
        BY <4>3, <4>4 DEF WellFormed
      <4> QED BY <2>10, <4>1, <4>2, <4>5, <4>6 DEF Hydrate, WellFormed
    <3> QED BY <2>10, <3>2, <3>3 DEF Hydrate, en, e
  <2>11. CASE React(t)
    <3>1. /\ cell' \in [Entry -> CacheEntry]
          /\ \A d \in Entry : cell'[d].key = cell[d].key
      BY <2>1, <2>11, EntryOperators DEF React, e
    <3>2. task' \in [Task -> Promise]
      BY <2>11, Blanks DEF React
    <3>3. \A c \in Caller :
            /\ caller'[c] \in Call
            /\ caller'[c].pc = "initializing" => caller[c].pc = "initializing"
            /\ caller'[c].pc = "initialized" =>
                 caller[c].pc \in {"initializing", "initialized"}
            /\ caller'[c].pc # "idle" => caller'[c].entry = caller[c].entry
      <4> SUFFICES ASSUME NEW c \in Caller PROVE
            LET call == caller[c] now == Woken(call, t) IN
            /\ now \in Call
            /\ now.pc = "initializing" => call.pc = "initializing"
            /\ now.pc = "initialized" =>
                 call.pc \in {"initializing", "initialized"}
            /\ now.pc # "idle" => now.entry = call.entry
        BY <2>11 DEF React
      <4> QED BY Blanks DEF Woken, Call
    <3>4. caller' \in [Caller -> Call]
      BY <2>11, <3>3 DEF React
    <3> QED BY <2>11, <3>1, <3>2, <3>3, <3>4, Blanks
            DEF React, WellFormed, Free, KeyOf
  <2> QED BY <2>1, <2>2, <2>3, <2>4, <2>5, <2>7, <2>8, <2>9, <2>10, <2>11
<1>9. ASSUME NEW k \in Key, Elapse(k) PROVE Typed'
  <2>1. entries[k] \in Entry
    BY <1>9 DEF Elapse
  <2>2. cell' \in [Entry -> CacheEntry]
    BY <1>9, <2>1, EntryOperators DEF Elapse
  <2>3. \A e \in Entry : cell'[e].key = cell[e].key
    BY <1>9, <2>1, EntryOperators DEF Elapse
  <2> QED BY <1>9, <2>2, <2>3 DEF Elapse, WellFormed, Free, KeyOf
<1>10. CASE SchemaChanges
  BY <1>10 DEF SchemaChanges, WellFormed, Free, KeyOf
<1>11. CASE Restart
  BY <1>11, Blanks DEF Restart, WellFormed, Free, KeyOf
<1>12. CASE UNCHANGED vars
  BY <1>12 DEF vars, WellFormed, Free, KeyOf
<1>13. CASE \E k \in Key : UseSnapshot(k) \/ Invalidate(k) \/ Elapse(k)
  BY <1>1, <1>7, <1>9, <1>13 DEF Invalidate
<1>14. CASE (\E n \in Connection : InvalidateConnection(n)) \/ Clear
  BY <1>7, <1>14 DEF InvalidateConnection, Clear
<1>15. CASE \E c \in Caller : CallStarts(c) \/ CallResumes(c)
  BY <1>2, <1>3, <1>4, <1>5, <1>6, <1>15 DEF CallStarts
<1> QED
  BY <1>8, <1>10, <1>11, <1>12, <1>13, <1>14, <1>15 DEF Next, Running

(* What a step may do to the promises that slots hold and calls await.     *)
Kept(t) == ~Free(t) => ~Free(t)' /\ task'[t].entry = task[t].entry
Alive(t) == t \in Task /\ ~Free(t)'
SlotsStep ==
  \A e \in Entry : \A t \in Slots(e)' :
    \/ t \in Slots(e) /\ Kept(t)
    \/ Alive(t) /\ task'[t].entry = e
AwaitsStep ==
  \A c \in Caller : \A t \in caller'[c].awaits :
    \/ t \in caller[c].awaits /\ Kept(t)
    \/ Alive(t)
    \/ \E e \in Entry : t \in Slots(e) /\ Kept(t)

LEMMA PromisesStayLive ==
  ASSUME PromisesLive, SlotsStep, AwaitsStep PROVE PromisesLive'
  BY DEF PromisesLive, SlotsStep, AwaitsStep, Kept, Alive, Free

(* The slots of an entry after each of the operators on entries.           *)
Holds(en) == {en.initialization, en.refresh} \ {None}

LEMMA HoldsOf ==
  /\ \A k : Holds(FreshEntry(k)) = {}
  /\ \A en \in CacheEntry :
       /\ Holds(ColdLoading(en)) = Holds(en)
       /\ Holds(Failed(en)) = Holds(en)
       /\ Holds([en EXCEPT !.due = TRUE]) = Holds(en)
  /\ \A en \in CacheEntry, t \in Task :
       /\ Holds(Initializing(en, t)) \subseteq Holds(en) \cup {t}
       /\ Holds(Refreshing(en, t)) \subseteq Holds(en) \cup {t}
       /\ Holds(Slot(en, t)) \subseteq Holds(en) \ {t}
  /\ \A en \in CacheEntry, v \in Nat :
       /\ Holds(Installed(en, v)) = Holds(en)
       /\ Holds([Installed(en, v) EXCEPT !.due = FALSE]) = Holds(en)
<1>1. \A k : Holds(FreshEntry(k)) = {}
  BY DEF Holds, FreshEntry
<1>2. ASSUME NEW en \in CacheEntry
      PROVE  /\ Holds(ColdLoading(en)) = Holds(en)
             /\ Holds(Failed(en)) = Holds(en)
             /\ Holds([en EXCEPT !.due = TRUE]) = Holds(en)
  BY DEF Holds, ColdLoading, Failed, CacheEntry
<1>3. ASSUME NEW en \in CacheEntry, NEW t \in Task
      PROVE  /\ Holds(Initializing(en, t)) \subseteq Holds(en) \cup {t}
             /\ Holds(Refreshing(en, t)) \subseteq Holds(en) \cup {t}
             /\ Holds(Slot(en, t)) \subseteq Holds(en) \ {t}
  BY NoneAssumption DEF Holds, Initializing, Refreshing, ColdLoading, Slot, CacheEntry
<1>4. ASSUME NEW en \in CacheEntry, NEW v \in Nat
      PROVE  /\ Holds(Installed(en, v)) = Holds(en)
             /\ Holds([Installed(en, v) EXCEPT !.due = FALSE]) = Holds(en)
  BY DEF Holds, Installed, CacheEntry
<1> QED BY <1>1, <1>2, <1>3, <1>4

LEMMA LiveInit == Init => PromisesLive
  BY DEF Init, PromisesLive, Slots, FreshEntry, IdleCaller

(* A promise that starts is put into a slot of its entry.                  *)
LEMMA StartsLive ==
  ASSUME Typed, PromisesLive, NEW e \in Entry, NEW t \in Task, Free(t),
         NEW new, Holds(new) \subseteq Slots(e) \cup {t},
         cell' = [cell EXCEPT ![e] = new],
         NEW p, p.pc # "free", p.entry = e, task' = [task EXCEPT ![t] = p]
  PROVE  SlotsStep /\ (\A u \in Task : Kept(u)) /\ Alive(t)
<1>1. Alive(t) /\ task'[t].entry = e
  BY DEF Typed, FieldsTyped, Alive, Free
<1>2. \A u \in Task : Kept(u)
  BY DEF Typed, FieldsTyped, Kept, Free
<1>3. ASSUME NEW d \in Entry, NEW u \in Slots(d)'
      PROVE  \/ u \in Slots(d) /\ Kept(u)
             \/ Alive(u) /\ task'[u].entry = d
  <2>1. CASE d = e
    <3>1. u \in Holds(new)
      BY <1>3, <2>1 DEF Slots, Holds, Typed, FieldsTyped
    <3>2. u \in Slots(e) => u \in Task
      BY DEF PromisesLive
    <3> QED BY <1>1, <1>2, <2>1, <3>1, <3>2
  <2>2. CASE d # e
    <3>1. u \in Slots(d)
      BY <1>3, <2>2 DEF Slots, Typed, FieldsTyped
    <3>2. u \in Task
      BY <3>1 DEF PromisesLive
    <3> QED BY <1>2, <3>1, <3>2
  <2> QED BY <2>1, <2>2
<1> QED BY <1>1, <1>2, <1>3 DEF SlotsStep

(* Steps that keep every promise and put none into a slot.                 *)
LEMMA RunsLive ==
  ASSUME Typed, PromisesLive, \A t \in Task : Kept(t),
         \A e \in Entry : Slots(e)' \subseteq Slots(e),
         \A c \in Caller : \A t \in caller'[c].awaits :
           t \in caller[c].awaits \/ \E e \in Entry : t \in Slots(e)
  PROVE  PromisesLive'
<1>1. \A e \in Entry : Slots(e) \subseteq Task
  BY DEF PromisesLive
<1>2. \A c \in Caller : caller[c].awaits \subseteq Task
  BY DEF PromisesLive
<1>3. SlotsStep
  BY <1>1 DEF SlotsStep
<1>4. AwaitsStep
  BY <1>1, <1>2 DEF AwaitsStep
<1> QED BY <1>3, <1>4, PromisesStayLive

(* A promise goes on, and its entry with it.                               *)
LEMMA AdvancesLive ==
  ASSUME Typed, PromisesLive, NEW t \in Task, ~Free(t), NEW p,
         p.pc # "free", p.entry = task[t].entry,
         task' = [task EXCEPT ![t] = p],
         NEW new, Holds(new) = Slots(task[t].entry),
         cell' \in {cell, [cell EXCEPT ![task[t].entry] = new]},
         UNCHANGED caller
  PROVE  PromisesLive'
<1>1. \A u \in Task : Kept(u)
  BY DEF Typed, FieldsTyped, Kept, Free
<1>2. \A e \in Entry : Slots(e)' = Slots(e)
  BY DEF Slots, Holds, Typed, FieldsTyped
<1> QED BY <1>1, <1>2, RunsLive

LEMMA LiveNext == Typed /\ PromisesLive /\ [Next]_vars => PromisesLive'
<1> SUFFICES ASSUME Typed, PromisesLive, [Next]_vars PROVE PromisesLive'
  OBVIOUS
<1> USE NoneAssumption
<1>1. ASSUME UNCHANGED <<cell, task>>,
             \A c \in Caller : \A t \in caller'[c].awaits :
               t \in caller[c].awaits \/ \E e \in Entry : t \in Slots(e)
      PROVE  PromisesLive'
  <2>1. (\A t \in Task : Kept(t)) /\ \A e \in Entry : Slots(e)' = Slots(e)
    BY <1>1 DEF Kept, Free, Slots
  <2> QED BY <1>1, <2>1, RunsLive
<1>2. \A e \in Entry : Holds(cell[e]) = Slots(e)
  BY DEF Holds, Slots
<1>3. \A e \in Entry : \A kind : \A pc \in {"reading", "loading"} :
        Started(kind, e, pc).pc # "free" /\ Started(kind, e, pc).entry = e
  BY DEF Started
<1>4. \A e \in Entry : cell[e] \in CacheEntry
  BY DEF Typed, FieldsTyped
<1>5. ASSUME NEW e \in Entry, NEW t \in Task, Free(t),
             cell' = [cell EXCEPT ![e] = Refreshing(cell[e], t)],
             task' = [task EXCEPT ![t] = Started("refresh", e, "loading")]
      PROVE  SlotsStep /\ (\A u \in Task : Kept(u)) /\ Alive(t)
  <2>1. Holds(Refreshing(cell[e], t)) \subseteq Slots(e) \cup {t}
    BY <1>2, <1>4, HoldsOf
  <2> QED BY <1>3, <1>5, <2>1, StartsLive
<1>6. ASSUME NEW k \in Key, UseSnapshot(k) PROVE PromisesLive'
  <2>1. PICK t \in Task :
          /\ Free(t) /\ entries[k] \in Entry
          /\ cell' = [cell EXCEPT ![entries[k]] = Refreshing(cell[entries[k]], t)]
          /\ task' = [task EXCEPT ![t] = Started("refresh", entries[k], "loading")]
          /\ UNCHANGED caller
    BY <1>6 DEF UseSnapshot, Typed, FieldsTyped
  <2>2. SlotsStep /\ \A u \in Task : Kept(u)
    BY <1>5, <2>1
  <2>3. AwaitsStep
    BY <2>1, <2>2 DEF AwaitsStep, PromisesLive
  <2> QED BY <2>2, <2>3, PromisesStayLive
<1>7. ASSUME NEW c \in Caller, NEW k \in Key, NEW op, JoinInitialization(c, op, k)
      PROVE  PromisesLive'
  <2>1. /\ entries[k] \in Entry
        /\ cell[entries[k]].initialization \in Slots(entries[k])
        /\ caller' = [caller EXCEPT ![c] =
             Waiting(op, "initializing", k, entries[k],
                     {cell[entries[k]].initialization})]
        /\ UNCHANGED <<cell, task>>
    BY <1>7 DEF JoinInitialization, Slots, Typed, FieldsTyped
  <2> QED BY <1>1, <2>1 DEF Waiting, Typed, FieldsTyped
<1>8. ASSUME NEW c \in Caller, NEW k \in Key, NEW op, StartInitialization(c, op, k)
      PROVE  PromisesLive'
  <2>1. PICK e \in Entry, t \in Task :
          /\ Free(t)
          /\ cell' = [cell EXCEPT ![e] = Initializing(EntryFor(k, e), t)]
          /\ task' = [task EXCEPT ![t] =
               Started("initialization", e, FirstStep(EntryFor(k, e)))]
          /\ caller' = [caller EXCEPT ![c] = Waiting(op, "initializing", k, e, {t})]
    BY <1>8 DEF StartInitialization
  <2>2. EntryFor(k, e) \in CacheEntry /\ Holds(EntryFor(k, e)) \subseteq Slots(e)
    BY <1>2, <1>4, Blanks, HoldsOf DEF EntryFor
  <2>3. Holds(Initializing(EntryFor(k, e), t)) \subseteq Slots(e) \cup {t}
    BY <2>2, HoldsOf
  <2>4. FirstStep(EntryFor(k, e)) \in {"reading", "loading"}
    BY DEF FirstStep
  <2>5. SlotsStep /\ (\A u \in Task : Kept(u)) /\ Alive(t)
    <3> DEFINE p == Started("initialization", e, FirstStep(EntryFor(k, e)))
               new == Initializing(EntryFor(k, e), t)
    <3>1. p.pc # "free" /\ p.entry = e
      BY <1>3, <2>4
    <3>2. /\ Free(t) /\ Holds(new) \subseteq Slots(e) \cup {t}
          /\ cell' = [cell EXCEPT ![e] = new] /\ task' = [task EXCEPT ![t] = p]
      BY <2>1, <2>3
    <3> HIDE DEF p, new
    <3> QED BY <3>1, <3>2, StartsLive
  <2>6. AwaitsStep
    BY <2>1, <2>5 DEF AwaitsStep, PromisesLive, Waiting, Typed, FieldsTyped
  <2> QED BY <2>5, <2>6, PromisesStayLive
<1>9. ASSUME NEW c \in Caller, NEW k \in Key, RefreshNow(c, k) PROVE PromisesLive'
  <2>1. CASE /\ cell[entries[k]].refresh # None
             /\ caller' = [caller EXCEPT ![c] =
                  Waiting("refresh", "refreshing", k, entries[k],
                          {cell[entries[k]].refresh})]
             /\ UNCHANGED <<cell, task>>
    <3>1. entries[k] \in Entry /\ cell[entries[k]].refresh \in Slots(entries[k])
      BY <1>9, <2>1 DEF RefreshNow, Slots, Typed, FieldsTyped
    <3> QED BY <1>1, <2>1, <3>1 DEF Waiting, Typed, FieldsTyped
  <2>2. ASSUME NEW t \in Task, Free(t), entries[k] \in Entry,
               cell' = [cell EXCEPT ![entries[k]] = Refreshing(cell[entries[k]], t)],
               task' = [task EXCEPT ![t] = Started("refresh", entries[k], "loading")],
               caller' = [caller EXCEPT ![c] =
                 Waiting("refresh", "refreshing", k, entries[k], {t})]
        PROVE  PromisesLive'
    <3>1. SlotsStep /\ (\A u \in Task : Kept(u)) /\ Alive(t)
      BY <1>5, <2>2
    <3>2. AwaitsStep
      BY <2>2, <3>1 DEF AwaitsStep, PromisesLive, Waiting, Typed, FieldsTyped
    <3> QED BY <3>1, <3>2, PromisesStayLive
  <2> QED BY <1>9, <2>1, <2>2 DEF RefreshNow, Typed, FieldsTyped
<1>10. ASSUME NEW c \in Caller, NEW k \in Key, ClearDatabase(c, k)
       PROVE  PromisesLive'
  <2> DEFINE awaited == IF entries[k] = None THEN {} ELSE Slots(entries[k])
  <2>1. /\ UNCHANGED <<cell, task>>
        /\ caller' = [caller EXCEPT ![c] = Waiting("clear", "quiescing", k, None, awaited)]
    BY <1>10 DEF ClearDatabase
  <2>2. \A t \in awaited : \E e \in Entry : t \in Slots(e)
    BY DEF Typed, FieldsTyped
  <2> QED BY <1>1, <2>1, <2>2 DEF Waiting, Typed, FieldsTyped
<1>11. ASSUME NEW c \in Caller, CallResumes(c) PROVE PromisesLive'
  <2>1. CASE RefreshAfterInitialization(c)
    <3>1. caller[c].entry \in Entry
      BY <2>1 DEF RefreshAfterInitialization, Typed, WellFormed
    <3>2. cell[caller[c].entry].refresh # None =>
            cell[caller[c].entry].refresh \in Slots(caller[c].entry)
      BY DEF Slots
    <3>3. \A d \in Caller : \A t \in caller'[d].awaits :
            t \in caller[d].awaits \/ \E e \in Entry : t \in Slots(e)
      BY <2>1, <3>1, <3>2
         DEF RefreshAfterInitialization, IdleCaller, Typed, FieldsTyped, Call
    <3> QED BY <1>1, <2>1, <3>3 DEF RefreshAfterInitialization
  <2>2. CASE ClearMemory(c) \/ ClearFile(c) \/ ClearFileFails(c)
    <3>1. \A d \in Caller : caller'[d].awaits \subseteq caller[d].awaits
      BY <2>2 DEF ClearMemory, ClearFile, ClearFileFails, IdleCaller, Typed,
                  FieldsTyped, Call
    <3> QED BY <1>1, <2>2, <3>1 DEF ClearMemory, ClearFile, ClearFileFails
  <2> QED BY <1>11, <2>1, <2>2 DEF CallResumes
<1>12. ASSUME NEW t \in Task, TaskRuns(t) PROVE PromisesLive'
  <2>1. /\ task[t] \in Promise /\ ~Free(t) /\ task[t].entry \in Entry
        /\ task[t].pc \in {"read", "saving", "saved"} /\ task[t].index # None =>
             task[t].index \in Nat
    BY <1>12 DEF TaskRuns, ReadSnapshot, Hydrate, ColdLoad, QueryReturns,
       QueryFails, SnapshotPersisted, SaveFails, Completed, React, Settled,
       Typed, FieldsTyped, WellFormed, Free, Promise, Index
  <2>13. PICK e \in Entry : e = task[t].entry
    BY <2>1
  <2> USE <2>13
  <2>2. Holds(cell[e]) = Slots(e) /\ cell[e] \in CacheEntry
    BY <1>2, <1>4, <2>1
  <2>3. ASSUME NEW pc \in {"read", "loading", "saving", "saved", "resolved",
                           "rejected"},
               NEW v, \/ task' = [task EXCEPT ![t].pc = pc]
                      \/ task' = [task EXCEPT ![t].pc = pc, ![t].index = v],
               NEW new, Holds(new) = Slots(e), cell' \in {cell, [cell EXCEPT ![e] = new]},
               UNCHANGED caller
        PROVE  PromisesLive'
    <3>1. [task[t] EXCEPT !.pc = pc].pc # "free" /\ [task[t] EXCEPT !.pc = pc].entry = e
      BY <2>1 DEF Promise
    <3>2. /\ [task[t] EXCEPT !.pc = pc, !.index = v].pc # "free"
          /\ [task[t] EXCEPT !.pc = pc, !.index = v].entry = e
      BY <2>1 DEF Promise
    <3>3. PICK p : p.pc # "free" /\ p.entry = e /\ task' = [task EXCEPT ![t] = p]
      BY <2>3, <3>1, <3>2
    <3> QED BY <2>1, <2>3, <3>3, AdvancesLive
  <2>14. ASSUME NEW pc \in {"read", "saving", "saved"},
                NEW v, \/ task' = [task EXCEPT ![t].pc = pc]
                       \/ task' = [task EXCEPT ![t].pc = pc, ![t].index = v],
                UNCHANGED <<cell, caller>>
         PROVE  PromisesLive'
    BY <2>2, <2>3, <2>14
  <2>4. CASE ReadSnapshot(t)
    <3>1. PICK v : task' = [task EXCEPT ![t].pc = "read", ![t].index = v]
      BY <2>4 DEF ReadSnapshot
    <3>2. UNCHANGED <<cell, caller>>
      BY <2>4 DEF ReadSnapshot
    <3> QED BY <2>14, <3>1, <3>2
  <2>5. CASE Hydrate(t)
    <3> DEFINE en == Installed(cell[e], task[t].index)
    <3>1. en \in CacheEntry /\ Holds(en) = Slots(e)
      <4>1. task[t].index \in Nat
        BY <2>1, <2>5 DEF Hydrate
      <4>2. \A x \in CacheEntry, v \in Nat :
              Installed(x, v) \in CacheEntry /\ Holds(Installed(x, v)) = Holds(x)
        BY HoldsOf, EntryOperators
      <4> QED BY <2>2, <4>1, <4>2
    <3>2. CASE cell' = [cell EXCEPT ![e] = en] /\ task' = [task EXCEPT ![t].pc = "resolved"]
      <4> HIDE DEF en
      <4> QED BY <2>3, <2>5, <3>1, <3>2 DEF Hydrate
    <3>3. ASSUME NEW r \in Task, Free(r),
                 cell' = [cell EXCEPT ![e] = Refreshing(en, r)],
                 task' = [[task EXCEPT ![t].pc = "resolved"] EXCEPT ![r] =
                           Started("refresh", e, "loading")]
          PROVE  PromisesLive'
      <4>1. Holds(Refreshing(en, r)) \subseteq Slots(e) \cup {r}
        <5> HIDE DEF en
        <5> QED BY <3>1, HoldsOf
      <4>2. Started("refresh", e, "loading").pc # "free"
            /\ Started("refresh", e, "loading").entry = e
        BY DEF Started
      <4>3. /\ ~Free(r)' /\ task'[r].entry = e
            /\ t # r /\ ~Free(t)' /\ task'[t].entry = e
            /\ \A u \in Task \ {t, r} : task'[u] = task[u]
        BY <2>1, <3>3, <4>2 DEF Free, Typed, FieldsTyped, Promise
      <4>4. \A u \in Task : Kept(u)
        BY <3>3, <4>3 DEF Kept, Free
      <4>5. /\ Slots(e)' \subseteq Slots(e) \cup {r}
            /\ \A d \in Entry \ {e} : Slots(d)' = Slots(d)
        <5>1. cell'[e] = Refreshing(en, r) /\ \A d \in Entry \ {e} : cell'[d] = cell[d]
          BY <2>1, <3>3 DEF Typed, FieldsTyped
        <5>2. Slots(e)' = Holds(cell'[e])
          BY DEF Slots, Holds
        <5> QED BY <4>1, <5>1, <5>2 DEF Slots
      <4>6. \A d \in Entry : Slots(d) \subseteq Task
        BY DEF PromisesLive
      <4>7. SlotsStep
        BY <4>3, <4>4, <4>5, <4>6 DEF SlotsStep, Alive
      <4>8. AwaitsStep
        BY <2>5, <4>4 DEF AwaitsStep, Hydrate, PromisesLive
      <4> QED BY <4>7, <4>8, PromisesStayLive
    <3> QED BY <2>5, <3>2, <3>3 DEF Hydrate
  <2>6. CASE ColdLoad(t)
    <3>1. Holds(ColdLoading(cell[e])) = Slots(e)
      BY <2>2, HoldsOf
    <3> QED BY <2>3, <2>6, <3>1 DEF ColdLoad
  <2>7. CASE QueryReturns(t)
    <3>1. /\ task' = [task EXCEPT ![t].pc = "saving", ![t].index = catalog]
          /\ UNCHANGED <<cell, caller>>
      BY <2>7 DEF QueryReturns
    <3> QED BY <2>14, <3>1
  <2>8. CASE SnapshotPersisted(t)
    BY <2>14, <2>8 DEF SnapshotPersisted
  <2>9. ASSUME Rejects(t), UNCHANGED caller PROVE PromisesLive'
    <3>1. Holds(Failed(cell[e])) = Slots(e)
      BY <2>2, HoldsOf
    <3> QED BY <2>3, <2>9, <3>1 DEF Rejects
  <2>10. ASSUME Installs(t), UNCHANGED caller, task[t].pc \in {"saving", "saved"}
         PROVE  PromisesLive'
    <3>1. task[t].index \in Nat
      BY <2>10 DEF Typed, WellFormed
    <3>2. Holds([Installed(cell[e], task[t].index) EXCEPT !.due = FALSE]) = Slots(e)
      BY <2>2, <3>1, HoldsOf
    <3> QED BY <2>3, <2>10, <3>2 DEF Installs
  <2>11. CASE QueryFails(t) \/ SaveFails(t) \/ Completed(t)
    BY <2>9, <2>10, <2>11 DEF QueryFails, SaveFails, Completed
  <2>12. CASE React(t)
    <3>1. Holds(Slot(cell[e], t)) \subseteq Slots(e) \ {t}
      BY <2>2, HoldsOf
    <3>2. /\ Slots(e)' \subseteq Slots(e) \ {t}
          /\ \A d \in Entry \ {e} : Slots(d)' = Slots(d)
      BY <2>1, <2>12, <3>1 DEF React, Slots, Holds, Typed, FieldsTyped
    <3>3. \A u \in Task \ {t} : Kept(u)
      BY <2>12 DEF React, Kept, Free, Typed, FieldsTyped
    <3>4. \A d \in Entry : Slots(d) \subseteq Task /\ (t \in Slots(d) => d = e)
      BY DEF PromisesLive
    <3>5. SlotsStep
      BY <3>2, <3>3, <3>4 DEF SlotsStep
    <3>6. \A c \in Caller : caller'[c].awaits \subseteq caller[c].awaits \ {t}
      <4>1. ASSUME NEW call \in Call
            PROVE  Woken(call, t).awaits \subseteq call.awaits \ {t}
        BY DEF Woken, IdleCaller, Call
      <4> QED BY <2>12, <4>1 DEF React, Typed, FieldsTyped
    <3>7. AwaitsStep
      BY <3>3, <3>6 DEF AwaitsStep, PromisesLive
    <3> QED BY <3>5, <3>7, PromisesStayLive
  <2> QED BY <1>12, <2>4, <2>5, <2>6, <2>7, <2>8, <2>11, <2>12 DEF TaskRuns
<1>13. ASSUME NEW k \in Key, Elapse(k) PROVE PromisesLive'
  <2>1. entries[k] \in Entry /\ UNCHANGED <<task, caller>>
        /\ cell' = [cell EXCEPT ![entries[k]] = [cell[entries[k]] EXCEPT !.due = TRUE]]
    BY <1>13 DEF Elapse, Typed, FieldsTyped
  <2>2. \A e \in Entry : Slots(e)' = Slots(e)
    BY <1>2, <1>4, <2>1, HoldsOf DEF Slots, Holds, Typed, FieldsTyped
  <2>3. \A t \in Task : Kept(t)
    BY <2>1 DEF Kept, Free
  <2> QED BY <2>1, <2>2, <2>3, RunsLive
<1>14. CASE Restart
  BY <1>14 DEF Restart, PromisesLive, Slots, FreshEntry, IdleCaller
<1>15. ASSUME \/ \E keys \in SUBSET Key : Forget(keys)
              \/ SchemaChanges \/ UNCHANGED vars
       PROVE  PromisesLive'
  BY <1>1, <1>15 DEF Forget, SchemaChanges, vars
<1>16. ASSUME NEW c \in Caller, CallStarts(c) PROVE PromisesLive'
  BY <1>7, <1>8, <1>9, <1>10, <1>16 DEF CallStarts
<1> QED
  BY <1>6, <1>11, <1>12, <1>13, <1>14, <1>15, <1>16
     DEF Next, Running, Invalidate, InvalidateConnection, Clear

(* Type correctness of every variable, in every state; and no slot holds,   *)
(* and no call awaits, a promise that is gone.                             *)
THEOREM TypeCorrect == Spec => []TypeOK
<1>1. Init => Typed /\ PromisesLive
  BY TypeInit, LiveInit
<1>2. Typed /\ PromisesLive /\ [Next]_vars => Typed' /\ PromisesLive'
  BY TypeNext, LiveNext
<1>3. Typed /\ PromisesLive => TypeOK
  BY DEF Typed, TypeOK
<1> QED BY <1>1, <1>2, <1>3, PTL DEF Spec

-----------------------------------------------------------------------------
(* The discipline of the slots                                             *)

(* Only a snapshot is refreshed; what was attempted had its disk checked.  *)
EntryDiscipline ==
  \A e \in Entry :
    /\ cell[e].refresh # None => cell[e].value # None
    /\ cell[e].sessionRefreshAttempted => cell[e].persistentChecked

(* Only an initialization reads the disk, and a load counts as an attempt. *)
TaskDiscipline ==
  \A t \in Task :
    /\ task[t].pc \in {"reading", "read"} =>
         task[t].kind = "initialization" /\ cell[task[t].entry].persistentChecked
    /\ IsLoad(t) => cell[task[t].entry].sessionRefreshAttempted

Discipline ==
  /\ SingleFlight /\ ColdLoadsAlone /\ DiskIsReadFirst /\ UsableIsAttempted
  /\ EntryDiscipline /\ TaskDiscipline

(* What each operator does to the fields these facts are about.            *)
LEMMA EntryFields ==
  /\ \A en \in CacheEntry :
       /\ ColdLoading(en).value = en.value
       /\ ColdLoading(en).initialization = en.initialization
       /\ ColdLoading(en).refresh = en.refresh
       /\ ColdLoading(en).persistentChecked <=> en.persistentChecked
       /\ ColdLoading(en).sessionRefreshAttempted
       /\ Failed(en).value = en.value
       /\ Failed(en).initialization = en.initialization
       /\ Failed(en).refresh = en.refresh
       /\ Failed(en).persistentChecked <=> en.persistentChecked
       /\ Failed(en).sessionRefreshAttempted <=> en.sessionRefreshAttempted
  /\ \A en \in CacheEntry, t \in Task :
       /\ Refreshing(en, t).value = en.value
       /\ Refreshing(en, t).initialization = en.initialization
       /\ Refreshing(en, t).refresh = t
       /\ Refreshing(en, t).persistentChecked <=> en.persistentChecked
       /\ Refreshing(en, t).sessionRefreshAttempted
  /\ \A en \in CacheEntry, t \in Task :
       /\ Initializing(en, t).value = en.value
       /\ Initializing(en, t).initialization = t
       /\ Initializing(en, t).refresh = en.refresh
       /\ Initializing(en, t).persistentChecked
       /\ Initializing(en, t).sessionRefreshAttempted <=>
            (en.persistentChecked \/ en.sessionRefreshAttempted)
  /\ \A en \in CacheEntry, t \in Task :
       /\ Slot(en, t).value = en.value
       /\ Slot(en, t).initialization =
            IF en.initialization = t THEN None ELSE en.initialization
       /\ Slot(en, t).refresh = IF en.refresh = t THEN None ELSE en.refresh
       /\ Slot(en, t).persistentChecked <=> en.persistentChecked
       /\ Slot(en, t).sessionRefreshAttempted <=> en.sessionRefreshAttempted
  /\ \A en \in CacheEntry, v \in Nat :
       /\ Installed(en, v).value = v
       /\ Installed(en, v).initialization = en.initialization
       /\ Installed(en, v).refresh = en.refresh
       /\ Installed(en, v).persistentChecked <=> en.persistentChecked
       /\ Installed(en, v).sessionRefreshAttempted <=> en.sessionRefreshAttempted
<1>1. ASSUME NEW en \in CacheEntry
      PROVE  /\ ColdLoading(en).value = en.value
             /\ ColdLoading(en).initialization = en.initialization
             /\ ColdLoading(en).refresh = en.refresh
             /\ ColdLoading(en).persistentChecked <=> en.persistentChecked
             /\ ColdLoading(en).sessionRefreshAttempted
             /\ Failed(en).value = en.value
             /\ Failed(en).initialization = en.initialization
             /\ Failed(en).refresh = en.refresh
             /\ Failed(en).persistentChecked <=> en.persistentChecked
             /\ Failed(en).sessionRefreshAttempted <=> en.sessionRefreshAttempted
  BY DEF ColdLoading, Failed, CacheEntry
<1>2. ASSUME NEW en \in CacheEntry, NEW t \in Task
      PROVE  /\ Refreshing(en, t).value = en.value
             /\ Refreshing(en, t).initialization = en.initialization
             /\ Refreshing(en, t).refresh = t
             /\ Refreshing(en, t).persistentChecked <=> en.persistentChecked
             /\ Refreshing(en, t).sessionRefreshAttempted
  BY DEF Refreshing, CacheEntry
<1>3. ASSUME NEW en \in CacheEntry, NEW t \in Task
      PROVE  /\ Initializing(en, t).value = en.value
             /\ Initializing(en, t).initialization = t
             /\ Initializing(en, t).refresh = en.refresh
             /\ Initializing(en, t).persistentChecked
             /\ Initializing(en, t).sessionRefreshAttempted <=>
                  (en.persistentChecked \/ en.sessionRefreshAttempted)
  <2>1. CASE en.persistentChecked
    BY <2>1 DEF Initializing, ColdLoading, CacheEntry
  <2>2. CASE ~en.persistentChecked
    BY <2>2 DEF Initializing, CacheEntry
  <2> QED BY <2>1, <2>2
<1>4. ASSUME NEW en \in CacheEntry, NEW t \in Task
      PROVE  /\ Slot(en, t).value = en.value
             /\ Slot(en, t).initialization =
                  IF en.initialization = t THEN None ELSE en.initialization
             /\ Slot(en, t).refresh = IF en.refresh = t THEN None ELSE en.refresh
             /\ Slot(en, t).persistentChecked <=> en.persistentChecked
             /\ Slot(en, t).sessionRefreshAttempted <=> en.sessionRefreshAttempted
  BY DEF Slot, CacheEntry
<1>5. ASSUME NEW en \in CacheEntry, NEW v \in Nat
      PROVE  /\ Installed(en, v).value = v
             /\ Installed(en, v).initialization = en.initialization
             /\ Installed(en, v).refresh = en.refresh
             /\ Installed(en, v).persistentChecked <=> en.persistentChecked
             /\ Installed(en, v).sessionRefreshAttempted <=>
                  en.sessionRefreshAttempted
  BY DEF Installed, CacheEntry
<1> QED BY <1>1, <1>2, <1>3, <1>4, <1>5

LEMMA DisciplineInit == Init => Discipline
  BY NoneAssumption DEF Init, Discipline, SingleFlight, ColdLoadsAlone,
     DiskIsReadFirst, UsableIsAttempted, EntryDiscipline, TaskDiscipline, Free,
     InFlight, IsLoad, FreshEntry, FreeTask

(* A refresh of a usable entry that runs none.                             *)
LEMMA DisciplineOfRefresh ==
  ASSUME Typed, Discipline, NEW e \in Entry, NEW t \in Task, Free(t),
         cell[e].value # None, cell[e].refresh = None,
         cell' = [cell EXCEPT ![e] = Refreshing(cell[e], t)],
         task' = [task EXCEPT ![t] = Started("refresh", e, "loading")]
  PROVE  Discipline'
<1>1. /\ cell'[e] = Refreshing(cell[e], t)
      /\ \A d \in Entry : d # e => cell'[d] = cell[d]
      /\ task'[t] = Started("refresh", e, "loading")
      /\ \A u \in Task : u # t => task'[u] = task[u]
      /\ cell[e] \in CacheEntry
  BY DEF Typed, FieldsTyped
<1>2. /\ task'[t].pc = "loading" /\ task'[t].kind = "refresh"
      /\ task'[t].entry = e
  BY <1>1 DEF Started
<1>3. /\ cell'[e].value = cell[e].value
      /\ cell'[e].initialization = cell[e].initialization
      /\ cell'[e].refresh = t
      /\ cell'[e].persistentChecked <=> cell[e].persistentChecked
      /\ cell'[e].sessionRefreshAttempted
  BY <1>1, EntryFields
<1> USE NoneAssumption DEF Typed, WellFormed, Discipline, Free, InFlight, IsLoad
<1>4. SingleFlight'
  BY <1>1, <1>2, <1>3 DEF SingleFlight
<1>5. ColdLoadsAlone'
  BY <1>1, <1>2, <1>3 DEF ColdLoadsAlone
<1>6. DiskIsReadFirst' /\ TaskDiscipline'
  BY <1>1, <1>2, <1>3 DEF DiskIsReadFirst, TaskDiscipline, ColdLoadsAlone
<1>7. UsableIsAttempted' /\ EntryDiscipline'
  BY <1>1, <1>3 DEF UsableIsAttempted, EntryDiscipline
<1> QED BY <1>4, <1>5, <1>6, <1>7

(* A load that settles, with its result installed or its entry as it was.  *)
LEMMA DisciplineOfSettling ==
  ASSUME Typed, Discipline, NEW t \in Task, IsLoad(t), NEW en \in CacheEntry,
         en.value = cell[task[t].entry].value \/ en.value # None,
         en.initialization = cell[task[t].entry].initialization,
         en.refresh = cell[task[t].entry].refresh,
         en.persistentChecked <=> cell[task[t].entry].persistentChecked,
         en.sessionRefreshAttempted <=>
           cell[task[t].entry].sessionRefreshAttempted,
         NEW pc \in {"resolved", "rejected"},
         cell' = [cell EXCEPT ![task[t].entry] = en],
         task' = [task EXCEPT ![t].pc = pc]
  PROVE  Discipline'
<1> DEFINE e == task[t].entry
<1>1. /\ e \in Entry /\ cell'[e] = en
      /\ \A d \in Entry : d # e => cell'[d] = cell[d]
      /\ task'[t].pc = pc /\ task'[t].kind = task[t].kind
      /\ task'[t].entry = e
      /\ \A u \in Task : u # t => task'[u] = task[u]
  BY DEF Typed, FieldsTyped, WellFormed, IsLoad, Free, Promise
<1>2. \A u \in Task : u # t /\ task[u].entry = e /\ ~Free(u) =>
        task[u].kind # task[t].kind
  BY DEF Discipline, SingleFlight, IsLoad, Free
<1>3. cell[e].sessionRefreshAttempted
  BY <1>1 DEF Discipline, TaskDiscipline
<1>4. /\ task[t].kind = "initialization" => cell[e].refresh = None
      /\ task[t].kind = "refresh" => cell[e].refresh # None
      /\ task[t].kind \in {"initialization", "refresh"}
  BY NoneAssumption DEF Discipline, ColdLoadsAlone, SingleFlight, InFlight,
     IsLoad, Free, Typed, FieldsTyped, Promise
<1>5. \A u \in Task : u # t /\ task[u].entry = e => ~InFlight(u)
  BY <1>2, <1>4, NoneAssumption DEF Discipline, ColdLoadsAlone, SingleFlight, InFlight,
     IsLoad, Free, Typed, FieldsTyped, Promise
<1> HIDE DEF e
<1> USE NoneAssumption DEF Typed, WellFormed, Discipline, Free, InFlight, IsLoad
<1>6. SingleFlight'
  BY <1>1, e = task[t].entry DEF SingleFlight, e
<1>7. ColdLoadsAlone'
  BY <1>1, <1>5 DEF ColdLoadsAlone, e
<1>8. DiskIsReadFirst' /\ TaskDiscipline'
  BY <1>1, <1>5 DEF DiskIsReadFirst, TaskDiscipline, e
<1>9. UsableIsAttempted' /\ EntryDiscipline'
  BY <1>1, <1>3 DEF UsableIsAttempted, EntryDiscipline, e
<1> QED BY <1>6, <1>7, <1>8, <1>9

LEMMA InstalledFields ==
  ASSUME NEW en \in CacheEntry, NEW v \in Nat
  PROVE  LET now == [Installed(en, v) EXCEPT !.due = FALSE] IN
         /\ now.value = v /\ now.value # None
         /\ now.initialization = en.initialization
         /\ now.refresh = en.refresh
         /\ now.persistentChecked <=> en.persistentChecked
         /\ now.sessionRefreshAttempted <=> en.sessionRefreshAttempted
  BY NoneAssumption DEF Installed, CacheEntry

(* A persistent hit installs the snapshot and, the entry never having been *)
(* attempted, starts a refresh.                                            *)
LEMMA DisciplineOfHydration ==
  ASSUME Typed, Discipline, NEW t \in Task, Hydrate(t)
  PROVE  Discipline'
<1> DEFINE e == task[t].entry
           en == Installed(cell[e], task[t].index)
<1>1. /\ e \in Entry /\ cell[e] \in CacheEntry /\ task[t].index \in Nat
      /\ task[t].pc = "read"
  BY DEF Hydrate, Typed, FieldsTyped, WellFormed, Free, Promise, Index
<1>2. /\ cell[e].refresh = None /\ cell[e].initialization = t
      /\ cell[e].persistentChecked /\ ~cell[e].sessionRefreshAttempted
      /\ task[t].kind = "initialization"
  BY <1>1 DEF Discipline, ColdLoadsAlone, SingleFlight, TaskDiscipline,
     DiskIsReadFirst, InFlight, Free
<1> HIDE DEF e
<1>3. /\ en \in CacheEntry /\ en.value = task[t].index
      /\ en.initialization = t /\ en.refresh = None
      /\ en.persistentChecked /\ ~en.sessionRefreshAttempted
  <2>1. en \in CacheEntry
    BY <1>1, EntryOperators
  <2> QED BY <1>1, <1>2, <2>1 DEF Installed, CacheEntry
<1>4. NeedsRefresh(en)
  BY <1>1, <1>3, NoneAssumption DEF NeedsRefresh
<1> HIDE DEF en
<1>5. PICK r \in Task :
        /\ Free(r)
        /\ cell' = [cell EXCEPT ![e] = Refreshing(en, r)]
        /\ task' = [[task EXCEPT ![t].pc = "resolved"]
                     EXCEPT ![r] = Started("refresh", e, "loading")]
  BY <1>4 DEF Hydrate, en, e
<1>6. /\ r # t /\ cell'[e] = Refreshing(en, r)
      /\ \A d \in Entry : d # e => cell'[d] = cell[d]
      /\ \A u \in Task : u # t /\ u # r => task'[u] = task[u]
      /\ task'[t].pc = "resolved" /\ task'[t].kind = "initialization"
      /\ task'[t].entry = e
      /\ task'[r] = Started("refresh", e, "loading")
  BY <1>1, <1>2, <1>5 DEF Free, Typed, FieldsTyped, Promise, e
<1>7. /\ task'[r].pc = "loading" /\ task'[r].kind = "refresh"
      /\ task'[r].entry = e
  BY <1>6 DEF Started
<1>8. /\ cell'[e].value # None /\ cell'[e].initialization = t
      /\ cell'[e].refresh = r /\ cell'[e].persistentChecked
      /\ cell'[e].sessionRefreshAttempted
  BY <1>1, <1>3, <1>6, EntryFields, NoneAssumption
<1>9. \A u \in Task : u # t /\ task[u].entry = e => Free(u)
  BY <1>1, <1>2, NoneAssumption
     DEF Discipline, SingleFlight, Typed, FieldsTyped, Promise
<1> USE NoneAssumption DEF Typed, WellFormed, Discipline, Free, InFlight, IsLoad
<1>10. SingleFlight'
  BY <1>6, <1>7, <1>8, <1>9 DEF SingleFlight
<1>11. ColdLoadsAlone'
  BY <1>6, <1>7, <1>8, <1>9 DEF ColdLoadsAlone
<1>12. DiskIsReadFirst' /\ TaskDiscipline'
  BY <1>6, <1>7, <1>8, <1>9 DEF DiskIsReadFirst, TaskDiscipline
<1>13. UsableIsAttempted' /\ EntryDiscipline'
  BY <1>6, <1>8 DEF UsableIsAttempted, EntryDiscipline
<1> QED BY <1>10, <1>11, <1>12, <1>13

LEMMA DisciplineNext == Typed /\ Discipline /\ [Next]_vars => Discipline'
<1> SUFFICES ASSUME Typed, Discipline, [Next]_vars PROVE Discipline'
  OBVIOUS
<1>1. ASSUME UNCHANGED <<cell, task>> PROVE Discipline'
  BY <1>1 DEF Discipline, SingleFlight, ColdLoadsAlone, DiskIsReadFirst,
     UsableIsAttempted, EntryDiscipline, TaskDiscipline, Free, InFlight, IsLoad
<1>2. ASSUME NEW k \in Key, UseSnapshot(k) PROVE Discipline'
  BY <1>2, DisciplineOfRefresh DEF UseSnapshot, NeedsRefresh, Typed, FieldsTyped
<1>3. ASSUME NEW c \in Caller, NEW k \in Key, RefreshNow(c, k)
      PROVE Discipline'
  <2>1. entries[k] \in Entry
    BY <1>3 DEF RefreshNow, Typed, FieldsTyped
  <2> QED BY <1>1, <1>3, <2>1, DisciplineOfRefresh DEF RefreshNow
<1>4. ASSUME NEW c \in Caller, NEW k \in Key, NEW op \in {"ensure", "refresh"},
             StartInitialization(c, op, k)
      PROVE Discipline'
  <2>1. PICK e \in Entry, t \in Task :
          /\ cell' = [cell EXCEPT ![e] = Initializing(EntryFor(k, e), t)]
          /\ task' = [task EXCEPT ![t] =
               Started("initialization", e, FirstStep(EntryFor(k, e)))]
          /\ Obtained(k, e) /\ Free(t) /\ MustInitialize(EntryFor(k, e))
    BY <1>4 DEF StartInitialization
  <2> DEFINE en == EntryFor(k, e)
  <2>2. /\ en \in CacheEntry /\ en.value = None /\ en.initialization = None
        /\ en.refresh # None => entries[k] = e
        /\ en.refresh = None
        /\ en.sessionRefreshAttempted => en.persistentChecked
    BY <2>1, Blanks DEF EntryFor, MustInitialize, FreshEntry, Discipline,
       EntryDiscipline, Typed, FieldsTyped
  <2>3. \A u \in Task : task[u].entry = e => Free(u)
    BY <2>1, <2>2, NoneAssumption
       DEF Obtained, Referenced, EntryFor, Discipline, SingleFlight, Typed,
           FieldsTyped, Promise
  <2>4. /\ cell'[e] = Initializing(en, t)
        /\ \A d \in Entry : d # e => cell'[d] = cell[d]
        /\ task'[t] = Started("initialization", e, FirstStep(en))
        /\ \A u \in Task : u # t => task'[u] = task[u]
    BY <2>1 DEF Typed, FieldsTyped
  <2>5. /\ task'[t].pc = FirstStep(en) /\ task'[t].kind = "initialization"
        /\ task'[t].entry = e
    BY <2>4 DEF Started
  <2>6. /\ cell'[e].value = None /\ cell'[e].initialization = t
        /\ cell'[e].refresh = None /\ cell'[e].persistentChecked
        /\ cell'[e].sessionRefreshAttempted <=>
             (en.persistentChecked \/ en.sessionRefreshAttempted)
    BY <2>2, <2>4, EntryFields
  <2>7. FirstStep(en) = IF en.persistentChecked THEN "loading" ELSE "reading"
    BY DEF FirstStep
  <2> HIDE DEF en
  <2> USE NoneAssumption DEF Typed, WellFormed, Discipline, Free, InFlight, IsLoad
  <2>8. SingleFlight'
    BY <2>3, <2>4, <2>5, <2>6 DEF SingleFlight
  <2>9. ColdLoadsAlone'
    BY <2>3, <2>4, <2>5, <2>6 DEF ColdLoadsAlone
  <2>10. DiskIsReadFirst'
    BY <2>2, <2>3, <2>4, <2>5, <2>6, <2>7 DEF DiskIsReadFirst
  <2>11. TaskDiscipline'
    BY <2>2, <2>3, <2>4, <2>5, <2>6, <2>7 DEF TaskDiscipline
  <2>12. UsableIsAttempted' /\ EntryDiscipline'
    BY <2>4, <2>6 DEF UsableIsAttempted, EntryDiscipline
  <2> QED BY <2>8, <2>9, <2>10, <2>11, <2>12
<1>5. ASSUME NEW t \in Task, TaskRuns(t) PROVE Discipline'
  <2> DEFINE e == task[t].entry
  <2>1. /\ ~Free(t) /\ e \in Entry /\ cell[e] \in CacheEntry
        /\ task[t] \in Promise
    BY <1>5 DEF TaskRuns, ReadSnapshot, Hydrate, ColdLoad, QueryReturns,
       QueryFails, SnapshotPersisted, SaveFails, Completed, React, Settled,
       Typed, FieldsTyped, WellFormed, Free
  <2>2. CASE ReadSnapshot(t) \/ QueryReturns(t) \/ SnapshotPersisted(t)
    <3>1. /\ cell' = cell
          /\ \A u \in Task : u # t => task'[u] = task[u]
          /\ task'[t].entry = e /\ task'[t].kind = task[t].kind
          /\ \/ task[t].pc = "reading" /\ task'[t].pc = "read"
             \/ IsLoad(t) /\ IsLoad(t)'
      BY <2>1, <2>2 DEF ReadSnapshot, QueryReturns, SnapshotPersisted, IsLoad,
         Promise, Typed, FieldsTyped
    <3> HIDE DEF e
    <3> USE NoneAssumption DEF Typed, WellFormed, Discipline, Free, InFlight, IsLoad
    <3>2. SingleFlight'
      BY <3>1 DEF SingleFlight, e
    <3>3. ColdLoadsAlone'
      BY <3>1 DEF ColdLoadsAlone, e
    <3>4. DiskIsReadFirst' /\ TaskDiscipline'
      BY <3>1 DEF DiskIsReadFirst, TaskDiscipline, e
    <3>5. UsableIsAttempted' /\ EntryDiscipline'
      BY <3>1 DEF UsableIsAttempted, EntryDiscipline
    <3> QED BY <3>2, <3>3, <3>4, <3>5
  <2>3. CASE ColdLoad(t)
    <3>1. /\ cell'[e] = ColdLoading(cell[e])
          /\ \A d \in Entry : d # e => cell'[d] = cell[d]
          /\ \A u \in Task : u # t => task'[u] = task[u]
          /\ task'[t].entry = e /\ task'[t].kind = task[t].kind
          /\ task[t].pc = "read" /\ task'[t].pc = "loading"
          /\ task[t].kind = "initialization"
      BY <2>1, <2>3 DEF ColdLoad, Promise, Typed, FieldsTyped, Discipline,
         TaskDiscipline
    <3>2. \A u \in Task : u # t /\ task[u].entry = e /\ InFlight(u) =>
            task[u].kind = "refresh"
      BY <3>1 DEF Discipline, SingleFlight, InFlight, Free, Typed, FieldsTyped, Promise
    <3>3. /\ cell'[e].value = cell[e].value
          /\ cell'[e].initialization = cell[e].initialization
          /\ cell'[e].refresh = cell[e].refresh
          /\ cell'[e].persistentChecked <=> cell[e].persistentChecked
          /\ cell'[e].sessionRefreshAttempted
      BY <2>1, <3>1, EntryFields
    <3>4. /\ cell[e].value = None /\ cell[e].refresh = None
          /\ cell[e].persistentChecked
      BY <3>1 DEF Discipline, ColdLoadsAlone, InFlight, TaskDiscipline
    <3> HIDE DEF e
    <3> USE NoneAssumption DEF Typed, WellFormed, Discipline, Free, InFlight, IsLoad
    <3>5. SingleFlight'
      BY <3>1, <3>3 DEF SingleFlight, e
    <3>6. ColdLoadsAlone'
      BY <3>1, <3>3 DEF ColdLoadsAlone, e
    <3>7. DiskIsReadFirst'
      BY <3>1, <3>2, <3>3, <3>4 DEF DiskIsReadFirst, TaskDiscipline, e
    <3>8. TaskDiscipline'
      BY <3>1, <3>3, <3>4 DEF TaskDiscipline, e
    <3>9. UsableIsAttempted' /\ EntryDiscipline'
      BY <3>1, <3>3, <3>4 DEF UsableIsAttempted, EntryDiscipline
    <3> QED BY <3>5, <3>6, <3>7, <3>8, <3>9
  <2>4. CASE QueryFails(t)
    BY <2>1, <2>4, EntryOperators, EntryFields, DisciplineOfSettling
       DEF QueryFails, Rejects, IsLoad
  <2>5. CASE Completed(t)
    <3>1. /\ task[t].index \in Nat /\ IsLoad(t)
          /\ cell' = [cell EXCEPT ![e] =
               [Installed(cell[e], task[t].index) EXCEPT !.due = FALSE]]
          /\ task' = [task EXCEPT ![t].pc = "resolved"]
      BY <2>5 DEF Completed, Installs, IsLoad, Typed, WellFormed
    <3> QED BY <2>1, <3>1, EntryOperators, InstalledFields, DisciplineOfSettling
  <2>6. CASE SaveFails(t)
    <3>1. task[t].index \in Nat /\ IsLoad(t)
      BY <2>6 DEF SaveFails, IsLoad, Typed, WellFormed
    <3>2. CASE Installs(t)
      <4>1. /\ cell' = [cell EXCEPT ![e] =
                 [Installed(cell[e], task[t].index) EXCEPT !.due = FALSE]]
            /\ task' = [task EXCEPT ![t].pc = "resolved"]
        BY <3>2 DEF Installs
      <4> QED BY <2>1, <3>1, <4>1, EntryOperators, InstalledFields,
              DisciplineOfSettling
    <3>3. CASE Rejects(t)
      BY <2>1, <3>1, <3>3, EntryOperators, EntryFields, DisciplineOfSettling
         DEF Rejects
    <3> QED BY <2>6, <3>2, <3>3 DEF SaveFails
  <2>7. CASE Hydrate(t)
    BY <2>7, DisciplineOfHydration
  <2>8. CASE React(t)
    <3>1. /\ cell'[e] = Slot(cell[e], t)
          /\ \A d \in Entry : d # e => cell'[d] = cell[d]
          /\ \A u \in Task : u # t => task'[u] = task[u]
          /\ task'[t].pc = "free"
      BY <2>1, <2>8, Blanks DEF React, Typed, FieldsTyped
    <3>2. /\ cell'[e].value = cell[e].value
          /\ cell'[e].initialization =
               IF cell[e].initialization = t THEN None ELSE cell[e].initialization
          /\ cell'[e].refresh =
               IF cell[e].refresh = t THEN None ELSE cell[e].refresh
          /\ cell'[e].persistentChecked <=> cell[e].persistentChecked
          /\ cell'[e].sessionRefreshAttempted <=> cell[e].sessionRefreshAttempted
      BY <2>1, <3>1, EntryFields
    <3> HIDE DEF e
    <3> USE NoneAssumption DEF Typed, WellFormed, Discipline, Free, InFlight, IsLoad
    <3>3. SingleFlight'
      BY <3>1, <3>2 DEF SingleFlight
    <3>4. ColdLoadsAlone'
      BY <3>1, <3>2 DEF ColdLoadsAlone
    <3>5. DiskIsReadFirst' /\ TaskDiscipline'
      BY <3>1, <3>2 DEF DiskIsReadFirst, TaskDiscipline
    <3>6. UsableIsAttempted' /\ EntryDiscipline'
      BY <3>1, <3>2 DEF UsableIsAttempted, EntryDiscipline
    <3> QED BY <3>3, <3>4, <3>5, <3>6
  <2> QED BY <1>5, <2>2, <2>3, <2>4, <2>5, <2>6, <2>7, <2>8 DEF TaskRuns
<1>6. ASSUME NEW k \in Key, Elapse(k) PROVE Discipline'
  <2>1. /\ entries[k] \in Entry /\ task' = task
        /\ cell' = [cell EXCEPT ![entries[k]] =
             [cell[entries[k]] EXCEPT !.due = TRUE]]
    BY <1>6 DEF Elapse, Typed, FieldsTyped
  <2>2. \A e \in Entry :
          /\ cell'[e].value = cell[e].value
          /\ cell'[e].initialization = cell[e].initialization
          /\ cell'[e].refresh = cell[e].refresh
          /\ cell'[e].persistentChecked <=> cell[e].persistentChecked
          /\ cell'[e].sessionRefreshAttempted <=> cell[e].sessionRefreshAttempted
    BY <2>1 DEF Typed, FieldsTyped, CacheEntry
  <2> QED BY <2>1, <2>2 DEF Discipline, SingleFlight, ColdLoadsAlone,
     DiskIsReadFirst, UsableIsAttempted, EntryDiscipline, TaskDiscipline, Free,
     InFlight, IsLoad, Typed, WellFormed
<1>7. CASE Restart
  BY <1>7, NoneAssumption DEF Restart, Discipline, SingleFlight, ColdLoadsAlone,
     DiskIsReadFirst, UsableIsAttempted, EntryDiscipline, TaskDiscipline, Free,
     InFlight, IsLoad, FreshEntry, FreeTask
<1>8. ASSUME NEW c \in Caller, CallStarts(c) PROVE Discipline'
  BY <1>1, <1>3, <1>4, <1>8 DEF CallStarts, JoinInitialization, ClearDatabase
<1>9. ASSUME NEW c \in Caller, CallResumes(c) PROVE Discipline'
  BY <1>1, <1>9 DEF CallResumes, RefreshAfterInitialization, ClearMemory,
     ClearFile, ClearFileFails
<1>10. CASE SchemaChanges \/ UNCHANGED vars
  BY <1>1, <1>10 DEF SchemaChanges, vars
<1>11. ASSUME NEW keys \in SUBSET Key, Forget(keys) PROVE Discipline'
  BY <1>1, <1>11 DEF Forget
<1> QED
  BY <1>2, <1>5, <1>6, <1>7, <1>8, <1>9, <1>10, <1>11
     DEF Next, Running, Invalidate, InvalidateConnection, Clear

Inv == Typed /\ Discipline

LEMMA InvAlways == Spec => []Inv
<1>1. Init => Inv
  BY TypeInit, DisciplineInit DEF Inv
<1>2. Inv /\ [Next]_vars => Inv'
  BY TypeNext, DisciplineNext DEF Inv
<1> QED BY <1>1, <1>2, PTL DEF Spec

(* However calls of MetadataCache and completions interleave, an entry     *)
(* never runs two initializations or two refreshes, and a cold load never  *)
(* runs over a usable snapshot or beside a refresh.                        *)
THEOREM LoadsAreCoalesced == Spec => []OneLoadAtATime
<1>1. Inv => OneLoadAtATime
  BY DEF Inv, Discipline, OneLoadAtATime
<1> QED BY <1>1, InvAlways, PTL

(* MetadataCache reads the disk only before the first catalog query of an  *)
(* entry, and uses no snapshot without a query of this session behind it.  *)
THEOREM SessionsAreAttempted == Spec => []AttemptsAreMarked
<1>1. Inv => AttemptsAreMarked
  BY DEF Inv, Discipline, AttemptsAreMarked
<1> QED BY <1>1, InvAlways, PTL

-----------------------------------------------------------------------------
(* The states tell the truth                                               *)

(* The promises of a kind that an entry has in flight, and what its state  *)
(* says of them: StatusIsTrue for one entry.                               *)
AtWork(e, kind) ==
  {t \in Task : task[t].entry = e /\ task[t].kind = kind /\ InFlight(t)}
StatusOf(e) ==
  /\ cell[e].state = "loading" <=> AtWork(e, "initialization") # {}
  /\ cell[e].state = "refreshing" <=> AtWork(e, "refresh") # {}
  /\ cell[e].state = "failed" => cell[e].value = None
  /\ cell[e].state \in {"loaded", "unexpectedEmpty"} =>
       cell[e].value # None /\ cell[e].state = StateFor(cell[e].value)

LEMMA StatusByEntry ==
  StatusIsTrue <=> \A e \in Entry : Referenced(e) => StatusOf(e)
  BY DEF StatusIsTrue, StatusOf, AtWork

(* A step that leaves the state, the value and the work of an entry.       *)
LEMMA StatusStays ==
  ASSUME NEW e \in Entry, StatusOf(e),
         cell'[e].state = cell[e].state, cell'[e].value = cell[e].value,
         \A t \in Task :
           /\ (task'[t].entry = e /\ InFlight(t)') <=>
                (task[t].entry = e /\ InFlight(t))
           /\ task'[t].entry = e /\ InFlight(t)' =>
                task'[t].kind = task[t].kind
  PROVE  StatusOf(e)'
<1>1. \A kind \in {"initialization", "refresh"} :
        AtWork(e, kind)' = AtWork(e, kind)
  BY DEF AtWork
<1> QED BY <1>1 DEF StatusOf

(* An entry that only has one promise in flight, of a kind its state says. *)
LEMMA StatusOfWork ==
  ASSUME NEW e \in Entry, NEW t \in Task,
         task'[t].entry = e, InFlight(t)',
         \A u \in Task : u # t => task'[u].entry # e \/ ~InFlight(u)',
         \/ task'[t].kind = "initialization" /\ cell'[e].state = "loading"
         \/ task'[t].kind = "refresh" /\ cell'[e].state = "refreshing"
  PROVE  StatusOf(e)'
<1>1. CASE task'[t].kind = "initialization" /\ cell'[e].state = "loading"
  <2>1. AtWork(e, "initialization")' # {} /\ AtWork(e, "refresh")' = {}
    BY <1>1 DEF AtWork
  <2> QED BY <1>1, <2>1 DEF StatusOf
<1>2. CASE task'[t].kind = "refresh" /\ cell'[e].state = "refreshing"
  <2>1. AtWork(e, "refresh")' # {} /\ AtWork(e, "initialization")' = {}
    BY <1>2 DEF AtWork
  <2> QED BY <1>2, <2>1 DEF StatusOf
<1> QED BY <1>1, <1>2

(* An entry that has nothing in flight and shows what it holds.            *)
LEMMA StatusOfRest ==
  ASSUME NEW e \in Entry,
         \A u \in Task : task'[u].entry # e \/ ~InFlight(u)',
         \/ cell'[e].state = "failed" /\ cell'[e].value = None
         \/ cell'[e].value # None /\ cell'[e].state = StateFor(cell'[e].value)
  PROVE  StatusOf(e)'
<1>1. AtWork(e, "initialization")' = {} /\ AtWork(e, "refresh")' = {}
  BY DEF AtWork
<1> QED BY <1>1 DEF StatusOf, StateFor

(* What is used after a step was used before, but for a new entry.         *)
LEMMA ReferencesStay ==
  ASSUME NEW e \in Entry, Referenced(e)',
         \A k \in Key : entries'[k] = e => Referenced(e),
         \A t \in Task : task'[t].entry = e => Referenced(e),
         \A c \in Caller : caller'[c].entry = e => Referenced(e)
  PROVE  Referenced(e)
  BY DEF Referenced

(* Nothing else of an entry is in flight beside a load that runs, nor      *)
(* beside a persistent hit.                                                *)
LEMMA WorksAlone ==
  ASSUME Inv, NEW t \in Task, InFlight(t), NEW u \in Task, u # t,
         task[u].entry = task[t].entry
  PROVE  ~InFlight(u)
  BY NoneAssumption
     DEF Inv, Typed, FieldsTyped, WellFormed, Discipline, SingleFlight,
         ColdLoadsAlone, InFlight, Free, Promise

(* A call that resumes waits for the entry it waited for, or for none.     *)
LEMMA WokenEntry ==
  ASSUME NEW call \in Call, NEW t \in Task
  PROVE  Woken(call, t).entry \in {call.entry, None}
  BY DEF Woken, IdleCaller, Call

(* The states the operators leave an entry in.                             *)
LEMMA StateFields ==
  /\ \A en \in CacheEntry : ColdLoading(en).state = en.state
  /\ \A en \in CacheEntry :
       Failed(en).state = IF en.value = None THEN "failed" ELSE StateFor(en.value)
  /\ \A en \in CacheEntry, t \in Task :
       /\ Refreshing(en, t).state = "refreshing"
       /\ Initializing(en, t).state = "loading"
       /\ Slot(en, t).state = en.state
  /\ \A en \in CacheEntry, v \in Nat :
       [Installed(en, v) EXCEPT !.due = FALSE].state = StateFor(v)
<1>1. ASSUME NEW en \in CacheEntry PROVE ColdLoading(en).state = en.state
  BY DEF ColdLoading, CacheEntry
<1>2. ASSUME NEW en \in CacheEntry
      PROVE  Failed(en).state =
               IF en.value = None THEN "failed" ELSE StateFor(en.value)
  BY DEF Failed, CacheEntry
<1>3. ASSUME NEW en \in CacheEntry, NEW t \in Task
      PROVE  /\ Refreshing(en, t).state = "refreshing"
             /\ Slot(en, t).state = en.state
  BY DEF Refreshing, Slot, CacheEntry
<1>4. ASSUME NEW en \in CacheEntry, NEW t \in Task
      PROVE  Initializing(en, t).state = "loading"
  <2>1. CASE en.persistentChecked
    BY <2>1 DEF Initializing, ColdLoading, CacheEntry
  <2>2. CASE ~en.persistentChecked
    BY <2>2 DEF Initializing, CacheEntry
  <2> QED BY <2>1, <2>2
<1>5. ASSUME NEW en \in CacheEntry, NEW v \in Nat
      PROVE  [Installed(en, v) EXCEPT !.due = FALSE].state = StateFor(v)
  BY DEF Installed, CacheEntry
<1> QED BY <1>1, <1>2, <1>3, <1>4, <1>5

(* A refresh starts in an entry that has a snapshot and no refresh.        *)
LEMMA StatusOfRefresh ==
  ASSUME Inv, NEW d \in Entry, NEW t \in Task, Free(t),
         cell[d].value # None, cell[d].refresh = None,
         cell' = [cell EXCEPT ![d] = Refreshing(cell[d], t)],
         task' = [task EXCEPT ![t] = Started("refresh", d, "loading")],
         NEW e \in Entry, e # d => StatusOf(e)
  PROVE  StatusOf(e)'
<1>1. /\ task'[t].entry = d /\ task'[t].kind = "refresh"
      /\ task'[t].pc = "loading"
      /\ \A u \in Task : u # t => task'[u] = task[u]
      /\ \A c \in Entry : c # d => cell'[c] = cell[c]
      /\ cell'[d].state = "refreshing"
  BY StateFields DEF Inv, Typed, FieldsTyped, Started
<1>2. CASE e = d
  <2>1. \A u \in Task : task[u].entry = d => ~InFlight(u)
    BY NoneAssumption DEF Inv, Typed, FieldsTyped, Discipline, SingleFlight,
       ColdLoadsAlone, InFlight, Free, Promise
  <2> QED BY <1>1, <1>2, <2>1, StatusOfWork DEF InFlight
<1>3. CASE e # d
  BY <1>1, <1>3, StatusStays DEF InFlight, Free
<1> QED BY <1>2, <1>3

(* A load settles: its result is installed, or the entry is as it was.     *)
LEMMA StatusOfSettling ==
  ASSUME Inv, NEW t \in Task, IsLoad(t), Installs(t) \/ Rejects(t),
         Installs(t) => task[t].index \in Nat,
         NEW e \in Entry, e # task[t].entry => StatusOf(e)
  PROVE  StatusOf(e)'
<1> DEFINE d == task[t].entry
<1>1. /\ d \in Entry /\ cell[d] \in CacheEntry /\ InFlight(t)
      /\ task'[t].entry = d /\ task'[t].pc \in {"resolved", "rejected"}
      /\ \A u \in Task : u # t => task'[u] = task[u]
      /\ \A c \in Entry : c # d => cell'[c] = cell[c]
  BY DEF Inv, Typed, FieldsTyped, WellFormed, IsLoad, InFlight, Free, Installs,
     Rejects, Promise
<1>2. CASE e = d
  <2>1. \A u \in Task : u # t /\ task[u].entry = d => ~InFlight(u)
    BY <1>1, WorksAlone
  <2>2. \A u \in Task : task'[u].entry # d \/ ~InFlight(u)'
    BY <1>1, <2>1 DEF InFlight
  <2>3. \/ cell'[d].state = "failed" /\ cell'[d].value = None
        \/ cell'[d].value # None /\ cell'[d].state = StateFor(cell'[d].value)
    <3>1. CASE Installs(t)
      <4>1. cell'[d] = [Installed(cell[d], task[t].index) EXCEPT !.due = FALSE]
        BY <1>1, <3>1 DEF Installs, Inv, Typed, FieldsTyped
      <4> QED BY <1>1, <3>1, <4>1, StateFields, InstalledFields
    <3>2. CASE Rejects(t)
      <4>1. cell'[d] = Failed(cell[d])
        BY <1>1, <3>2 DEF Rejects, Inv, Typed, FieldsTyped
      <4> QED BY <1>1, <4>1, StateFields, EntryFields
    <3> QED BY <3>1, <3>2
  <2> QED BY <1>1, <1>2, <2>2, <2>3, StatusOfRest
<1>3. CASE e # d
  BY <1>1, <1>3, StatusStays DEF InFlight
<1> QED BY <1>2, <1>3

(* A persistent hit: the snapshot is installed and its refresh scheduled.  *)
LEMMA HydrationRefreshes ==
  ASSUME Inv, NEW t \in Task, Hydrate(t)
  PROVE  LET d == task[t].entry
             en == Installed(cell[d], task[t].index)
         IN  /\ d \in Entry /\ cell[d] \in CacheEntry /\ task[t].index \in Nat
             /\ task[t].pc = "read" /\ task[t] \in Promise
             /\ en \in CacheEntry
             /\ \E r \in Task :
                  /\ Free(r)
                  /\ cell' = [cell EXCEPT ![d] = Refreshing(en, r)]
                  /\ task' = [[task EXCEPT ![t].pc = "resolved"]
                               EXCEPT ![r] = Started("refresh", d, "loading")]
<1> DEFINE d == task[t].entry
           en == Installed(cell[d], task[t].index)
<1>1. /\ d \in Entry /\ cell[d] \in CacheEntry /\ task[t].index \in Nat
      /\ task[t].pc = "read" /\ task[t] \in Promise
  BY DEF Inv, Hydrate, Typed, FieldsTyped, WellFormed, Free, Promise, Index
<1>2. cell[d].refresh = None /\ ~cell[d].sessionRefreshAttempted
  BY <1>1 DEF Inv, Discipline, ColdLoadsAlone, TaskDiscipline,
     DiskIsReadFirst, InFlight
<1>3. NeedsRefresh(en) /\ en \in CacheEntry
  <2>1. en \in CacheEntry
    BY <1>1, EntryOperators
  <2>2. en.value = task[t].index /\ en.refresh = cell[d].refresh
    BY <1>1, EntryFields
  <2>3. en.sessionRefreshAttempted <=> cell[d].sessionRefreshAttempted
    BY <1>1, EntryFields
  <2> HIDE DEF en
  <2>4. en.value # None /\ en.refresh = None
    BY <1>1, <1>2, <2>2, NoneAssumption
  <2>5. ~en.sessionRefreshAttempted
    BY <1>2, <2>3
  <2> QED BY <2>1, <2>4, <2>5 DEF NeedsRefresh
<1> QED BY <1>1, <1>3 DEF Hydrate

(* The refresh that a persistent hit schedules is what the entry does now. *)
LEMMA StatusOfHydration ==
  ASSUME Inv, NEW t \in Task, Hydrate(t), NEW e \in Entry,
         e # task[t].entry => StatusOf(e)
  PROVE  StatusOf(e)'
<1> DEFINE d == task[t].entry
           en == Installed(cell[d], task[t].index)
<1>1. /\ d \in Entry /\ cell[d] \in CacheEntry /\ task[t].index \in Nat
      /\ task[t].pc = "read" /\ task[t] \in Promise
  BY HydrationRefreshes
<1>2. en \in CacheEntry
  BY HydrationRefreshes
<1>3. PICK r \in Task :
        /\ Free(r)
        /\ cell' = [cell EXCEPT ![d] = Refreshing(en, r)]
        /\ task' = [[task EXCEPT ![t].pc = "resolved"]
                     EXCEPT ![r] = Started("refresh", d, "loading")]
  BY HydrationRefreshes
<1> HIDE DEF en
<1>4. /\ r # t /\ task'[t].pc = "resolved"
      /\ task'[r].entry = d /\ task'[r].kind = "refresh"
      /\ task'[r].pc = "loading"
      /\ \A u \in Task : u # t /\ u # r => task'[u] = task[u]
      /\ \A c \in Entry : c # d => cell'[c] = cell[c]
      /\ cell'[d].state = "refreshing"
  BY <1>1, <1>2, <1>3, StateFields DEF Inv, Typed, FieldsTyped, Free, Started, Promise
<1>5. CASE e = d
  <2>1. \A u \in Task : u # t /\ task[u].entry = d => ~InFlight(u)
    BY <1>1, WorksAlone DEF InFlight
  <2>2. \A u \in Task : u # r => task'[u].entry # d \/ ~InFlight(u)'
    BY <1>4, <2>1 DEF InFlight
  <2> QED BY <1>4, <1>5, <2>2, StatusOfWork DEF InFlight
<1>6. CASE e # d
  <2>1. /\ ~InFlight(t)' /\ ~InFlight(r) /\ task'[r].entry # e
        /\ task[t].entry # e
    BY <1>3, <1>4, <1>6 DEF InFlight, Free
  <2> QED BY <1>4, <1>6, <2>1, StatusStays DEF InFlight
<1> QED BY <1>5, <1>6

LEMMA StatusStep ==
  ASSUME Inv, StatusIsTrue, [Next]_vars PROVE StatusIsTrue'
<1> SUFFICES ASSUME NEW e \in Entry, Referenced(e)' PROVE StatusOf(e)'
  BY DEF StatusIsTrue, StatusOf, AtWork
<1> USE NoneAssumption DEF Inv, Typed, FieldsTyped
<1>1. Referenced(e) => StatusOf(e)
  BY StatusByEntry
<1>2. ASSUME Referenced(e), UNCHANGED <<cell, task>> PROVE StatusOf(e)'
  BY <1>1, <1>2, StatusStays DEF InFlight
<1>3. ASSUME NEW k \in Key, UseSnapshot(k) PROVE StatusOf(e)'
  <2>1. PICK t \in Task :
          /\ Free(t) /\ entries[k] \in Entry
          /\ cell[entries[k]].value # None /\ cell[entries[k]].refresh = None
          /\ cell' = [cell EXCEPT ![entries[k]] = Refreshing(cell[entries[k]], t)]
          /\ task' = [task EXCEPT ![t] = Started("refresh", entries[k], "loading")]
          /\ UNCHANGED <<entries, caller>>
    BY <1>3 DEF UseSnapshot, NeedsRefresh
  <2>2. Referenced(e)
    <3>1. \A u \in Task : task'[u].entry = e => Referenced(e)
      BY <2>1 DEF Referenced, Started
    <3> QED BY <2>1, <3>1, ReferencesStay DEF Referenced
  <2> QED BY <1>1, <2>1, <2>2, StatusOfRefresh
<1>4. ASSUME NEW c \in Caller, NEW k \in Key, RefreshNow(c, k)
      PROVE  StatusOf(e)'
  <2>1. /\ entries[k] \in Entry /\ cell[entries[k]].value # None
        /\ UNCHANGED entries
    BY <1>4 DEF RefreshNow
  <2>2. \A b \in Caller : caller'[b].entry = e => Referenced(e)
    BY <1>4, <2>1 DEF RefreshNow, Referenced, Waiting
  <2>3. CASE UNCHANGED <<cell, task>>
    BY <1>2, <2>1, <2>2, <2>3, ReferencesStay DEF Referenced
  <2>4. CASE /\ cell[entries[k]].refresh = None
             /\ \E t \in Task :
                  /\ Free(t)
                  /\ cell' = [cell EXCEPT ![entries[k]] =
                       Refreshing(cell[entries[k]], t)]
                  /\ task' = [task EXCEPT ![t] =
                       Started("refresh", entries[k], "loading")]
    <3>1. PICK t \in Task :
            /\ Free(t)
            /\ cell' = [cell EXCEPT ![entries[k]] =
                 Refreshing(cell[entries[k]], t)]
            /\ task' = [task EXCEPT ![t] =
                 Started("refresh", entries[k], "loading")]
      BY <2>4
    <3>2. \A u \in Task : task'[u].entry = e => Referenced(e)
      BY <2>1, <3>1 DEF Referenced, Started
    <3>3. Referenced(e)
      BY <2>1, <2>2, <3>2, ReferencesStay DEF Referenced
    <3> QED BY <1>1, <2>1, <2>4, <3>1, <3>3, StatusOfRefresh
  <2> QED BY <1>4, <2>3, <2>4 DEF RefreshNow
<1>5. ASSUME NEW c \in Caller, NEW k \in Key, NEW op \in {"ensure", "refresh"},
             StartInitialization(c, op, k)
      PROVE  StatusOf(e)'
  <2>1. PICK d \in Entry, t \in Task :
          /\ Obtained(k, d) /\ Free(t) /\ MustInitialize(EntryFor(k, d))
          /\ entries' = [entries EXCEPT ![k] = d]
          /\ cell' = [cell EXCEPT ![d] = Initializing(EntryFor(k, d), t)]
          /\ task' = [task EXCEPT ![t] =
               Started("initialization", d, FirstStep(EntryFor(k, d)))]
          /\ caller' = [caller EXCEPT ![c] =
               Waiting(op, "initializing", k, d, {t})]
    BY <1>5 DEF StartInitialization
  <2>2. /\ task'[t].entry = d /\ task'[t].kind = "initialization"
        /\ task'[t].pc \in {"reading", "loading"}
        /\ \A u \in Task : u # t => task'[u] = task[u]
        /\ \A b \in Entry : b # d => cell'[b] = cell[b]
    BY <2>1 DEF Started, FirstStep
  <2>3. CASE e = d
    <3>1. \A u \in Task : task[u].entry = d => ~InFlight(u)
      <4>1. CASE entries[k] = d
        BY <2>1, <4>1 DEF EntryFor, MustInitialize, Discipline, SingleFlight,
           EntryDiscipline, InFlight, Free, Promise
      <4>2. CASE entries[k] # d
        BY <2>1, <4>2 DEF Obtained, Referenced
      <4> QED BY <4>1, <4>2
    <3>2. EntryFor(k, d) \in CacheEntry
      BY Blanks DEF EntryFor
    <3>3. cell'[d].state = "loading"
      BY <2>1, <3>2, StateFields
    <3> QED BY <2>2, <2>3, <3>1, <3>3, StatusOfWork DEF InFlight
  <2>4. CASE e # d
    <3>1. \A j \in Key : entries'[j] = e => Referenced(e)
      BY <2>1, <2>4 DEF Referenced
    <3>2. \A u \in Task : task'[u].entry = e => Referenced(e)
      BY <2>2, <2>4 DEF Referenced
    <3>3. \A b \in Caller : caller'[b].entry = e => Referenced(e)
      BY <2>1, <2>4 DEF Referenced, Waiting
    <3>4. Referenced(e)
      BY <3>1, <3>2, <3>3, ReferencesStay
    <3> QED BY <1>1, <2>1, <2>2, <2>4, <3>4, StatusStays DEF InFlight, Free
  <2> QED BY <2>3, <2>4
<1>6. ASSUME NEW t \in Task, TaskRuns(t) PROVE StatusOf(e)'
  <2> DEFINE d == task[t].entry
  <2>1. /\ ~Free(t) /\ d \in Entry /\ cell[d] \in CacheEntry
        /\ task[t] \in Promise
    BY <1>6 DEF TaskRuns, ReadSnapshot, Hydrate, ColdLoad, QueryReturns,
       QueryFails, SnapshotPersisted, SaveFails, Completed, React, Settled,
       WellFormed, Free
  <2>2. Referenced(e)
    <3>1. UNCHANGED entries
      BY <1>6 DEF TaskRuns, ReadSnapshot, Hydrate, ColdLoad, QueryReturns,
         QueryFails, SnapshotPersisted, SaveFails, Completed, React
    <3>2. \A u \in Task : task'[u].entry = e => Referenced(e)
      <4>1. CASE Hydrate(t)
        <5>1. \A u \in Task : task'[u].entry \in {task[u].entry, d}
          BY <4>1 DEF Hydrate, Started, Promise
        <5> QED BY <5>1 DEF Referenced
      <4>2. CASE ~Hydrate(t)
        <5>1. \A u \in Task : task'[u].entry \in {task[u].entry, None}
          BY <1>6, <4>2 DEF TaskRuns, ReadSnapshot, ColdLoad, QueryReturns,
             QueryFails, SnapshotPersisted, SaveFails, Completed, React,
             Installs, Rejects, Promise, FreeTask
        <5> QED BY <5>1 DEF Referenced
      <4> QED BY <4>1, <4>2
    <3>3. \A c \in Caller : caller'[c].entry = e => Referenced(e)
      <4>1. CASE React(t)
        <5>1. \A c \in Caller : caller'[c].entry \in {caller[c].entry, None}
          BY <4>1, WokenEntry DEF React
        <5> QED BY <5>1 DEF Referenced
      <4>2. CASE UNCHANGED caller
        BY <4>2 DEF Referenced
      <4> QED BY <1>6, <4>1, <4>2 DEF TaskRuns, ReadSnapshot, Hydrate, ColdLoad,
              QueryReturns, QueryFails, SnapshotPersisted, SaveFails, Completed
    <3> QED BY <3>1, <3>2, <3>3, ReferencesStay DEF Referenced
  <2>3. StatusOf(e)
    BY <1>1, <2>2
  <2>4. CASE \/ ReadSnapshot(t) \/ ColdLoad(t) \/ QueryReturns(t)
             \/ SnapshotPersisted(t)
    <3>1. /\ \A u \in Task : u # t => task'[u] = task[u]
          /\ task'[t].entry = d /\ task'[t].kind = task[t].kind
          /\ InFlight(t) /\ InFlight(t)'
      BY <2>1, <2>4 DEF ReadSnapshot, ColdLoad, QueryReturns,
         SnapshotPersisted, InFlight, Promise
    <3>2. cell'[e].state = cell[e].state /\ cell'[e].value = cell[e].value
      <4>1. CASE ColdLoad(t)
        BY <2>1, <4>1, StateFields, EntryFields DEF ColdLoad
      <4> QED BY <2>4, <4>1 DEF ReadSnapshot, QueryReturns, SnapshotPersisted
    <3> QED BY <2>3, <3>1, <3>2, StatusStays DEF InFlight
  <2>5. CASE React(t)
    <3>1. /\ \A u \in Task : u # t => task'[u] = task[u]
          /\ ~InFlight(t) /\ ~InFlight(t)'
      BY <2>5 DEF React, Settled, InFlight, FreeTask
    <3>2. cell'[e].state = cell[e].state /\ cell'[e].value = cell[e].value
      BY <2>1, <2>5, StateFields, EntryFields DEF React
    <3> QED BY <2>3, <3>1, <3>2, StatusStays DEF InFlight
  <2>6. CASE QueryFails(t) \/ Completed(t) \/ SaveFails(t)
    <3>1. /\ IsLoad(t) /\ (Installs(t) \/ Rejects(t))
          /\ Installs(t) => task[t].index \in Nat
      BY <2>6 DEF QueryFails, Completed, SaveFails, IsLoad, WellFormed,
         Installs, Rejects, Promise
    <3> QED BY <2>3, <3>1, StatusOfSettling
  <2>7. CASE Hydrate(t)
    <3> QED BY <2>3, <2>7, StatusOfHydration
  <2> QED BY <1>6, <2>4, <2>5, <2>6, <2>7 DEF TaskRuns
<1>7. ASSUME NEW k \in Key, Elapse(k) PROVE StatusOf(e)'
  <2>1. cell'[e].state = cell[e].state /\ cell'[e].value = cell[e].value
    BY <1>7 DEF Elapse, CacheEntry
  <2>2. Referenced(e)
    BY <1>7 DEF Elapse, Referenced
  <2> QED BY <1>1, <1>7, <2>1, <2>2, StatusStays DEF Elapse, InFlight
<1>8. CASE Restart
  BY <1>8 DEF Restart, Referenced, FreeTask, IdleCaller
<1>9. ASSUME NEW c \in Caller, CallStarts(c) PROVE StatusOf(e)'
  <2>1. ASSUME NEW k \in Key, NEW op \in {"ensure", "refresh"},
               JoinInitialization(c, op, k)
        PROVE  StatusOf(e)'
    <3>1. \A b \in Caller : caller'[b].entry = e => Referenced(e)
      BY <2>1 DEF JoinInitialization, Referenced, Waiting
    <3> QED BY <1>2, <2>1, <3>1, ReferencesStay DEF JoinInitialization, Referenced
  <2>2. ASSUME NEW k \in Key, ClearDatabase(c, k) PROVE StatusOf(e)'
    <3>1. \A b \in Caller : caller'[b].entry \in {caller[b].entry, None}
      BY <2>2 DEF ClearDatabase, Waiting
    <3> QED BY <1>2, <2>2, <3>1, ReferencesStay DEF ClearDatabase, Referenced
  <2> QED BY <1>4, <1>5, <1>9, <2>1, <2>2 DEF CallStarts
<1>10. ASSUME NEW c \in Caller, CallResumes(c) PROVE StatusOf(e)'
  <2>1. UNCHANGED <<cell, task>>
    BY <1>10 DEF CallResumes, RefreshAfterInitialization, ClearMemory,
       ClearFile, ClearFileFails
  <2>2. \A b \in Caller : caller'[b].entry \in {caller[b].entry, None}
    <3>1. ASSUME RefreshAfterInitialization(c), NEW b \in Caller
          PROVE  caller'[b].entry \in {caller[b].entry, None}
      <4>1. caller[c] \in Call
        OBVIOUS
      <4> DEFINE pending == cell[caller[c].entry].refresh
      <4>2. CASE pending = None
        BY <3>1, <4>2 DEF RefreshAfterInitialization, IdleCaller
      <4>3. CASE pending # None
        <5>1. caller' = [caller EXCEPT ![c] =
                [caller[c] EXCEPT !.pc = "refreshing", !.awaits = {pending}]]
          BY <3>1, <4>3 DEF RefreshAfterInitialization
        <5> QED BY <4>1, <5>1 DEF Call
      <4> QED BY <4>2, <4>3
    <3>2. ASSUME ClearMemory(c), NEW b \in Caller
          PROVE  caller'[b].entry \in {caller[b].entry, None}
      BY <3>2 DEF ClearMemory, Call
    <3>3. ASSUME ClearFile(c) \/ ClearFileFails(c), NEW b \in Caller
          PROVE  caller'[b].entry \in {caller[b].entry, None}
      BY <3>3 DEF ClearFile, ClearFileFails, IdleCaller
    <3> QED BY <1>10, <3>1, <3>2, <3>3 DEF CallResumes
  <2>3. \A k \in Key : entries'[k] \in {entries[k], None}
    BY <1>10 DEF CallResumes, RefreshAfterInitialization, ClearMemory,
       ClearFile, ClearFileFails
  <2>4. Referenced(e)
    BY <2>1, <2>2, <2>3, ReferencesStay DEF Referenced
  <2> QED BY <1>2, <2>1, <2>4
<1>11. ASSUME NEW keys \in SUBSET Key, Forget(keys) PROVE StatusOf(e)'
  <2>1. Referenced(e)
    BY <1>11 DEF Forget, Referenced
  <2> QED BY <1>2, <1>11, <2>1 DEF Forget
<1>12. CASE SchemaChanges \/ UNCHANGED vars
  <2>1. Referenced(e)
    BY <1>12 DEF SchemaChanges, vars, Referenced
  <2> QED BY <1>2, <1>12, <2>1 DEF SchemaChanges, vars
<1> QED
  BY <1>3, <1>6, <1>7, <1>8, <1>9, <1>10, <1>11, <1>12
     DEF Next, Running, Invalidate, InvalidateConnection, Clear

(* status() and snapshots() of MetadataCache tell the truth: "loading" and *)
(* "refreshing" mean that such work is in flight, the other states that    *)
(* none is, whatever failed, was cleared or forgotten.                     *)
THEOREM StatesAreTrue == Spec => []StatusIsTrue
<1>1. Init => StatusIsTrue
  BY NoneAssumption
     DEF Init, StatusIsTrue, Referenced, FreeTask, IdleCaller
<1>2. Inv /\ StatusIsTrue /\ [Next]_vars => StatusIsTrue'
  BY StatusStep
<1> QED BY <1>1, <1>2, InvAlways, PTL DEF Spec

-----------------------------------------------------------------------------
(* Nothing goes back in time                                               *)

(* Nothing is newer than the catalog, and a refresh brings nothing older   *)
(* than what it replaces.                                                  *)
UpTo(v) == v = None \/ v <= catalog
Versions ==
  /\ \A e \in Entry : UpTo(cell[e].value)
  /\ \A k \in Key : UpTo(file[k])
  /\ \A t \in Task : UpTo(task[t].index)
  /\ \A t \in Task :
       task[t].pc \in {"saving", "saved"} /\ task[t].kind = "refresh" =>
         cell[task[t].entry].value <= task[t].index

LEMMA VersionsInit == Init => Versions
  BY NoneAssumption DEF Init, Versions, UpTo, FreshEntry, FreeTask

(* A load that runs replaces nothing if it is a cold load, and a snapshot  *)
(* if it is a refresh.                                                     *)
LEMMA LoadedValue ==
  ASSUME Inv, NEW t \in Task, IsLoad(t)
  PROVE  /\ task[t].kind = "initialization" =>
              cell[task[t].entry].value = None
         /\ task[t].kind = "refresh" => cell[task[t].entry].value \in Nat
  BY NoneAssumption DEF Inv, Typed, FieldsTyped, WellFormed, Discipline, SingleFlight,
     ColdLoadsAlone, EntryDiscipline, IsLoad, InFlight, Free, CacheEntry, Index

(* What a step does to the value of an entry.                              *)
ValueStep(e) ==
  \/ cell'[e].value = cell[e].value
  \/ cell'[e].value = None /\ ~Referenced(e)
  \/ cell'[e].value = None /\ ~Referenced(e)'
  \/ /\ cell[e].value = None
     /\ \E t \in Task : /\ task[t].entry = e /\ task[t].pc = "read"
                       /\ cell'[e].value = task[t].index
  \/ \E t \in Task : /\ task[t].entry = e /\ task[t].pc \in {"saving", "saved"}
                    /\ cell'[e].value = task[t].index
                    /\ task'[t].pc \notin {"saving", "saved"}

LEMMA ValueFields ==
  \A en \in CacheEntry, t \in Task :
    /\ Refreshing(en, t).value = en.value
    /\ Initializing(en, t).value = en.value
    /\ Slot(en, t).value = en.value
    /\ ColdLoading(en).value = en.value
    /\ Failed(en).value = en.value
  BY EntryFields

LEMMA ValueSteps ==
  ASSUME Inv, [Next]_vars, NEW e \in Entry PROVE ValueStep(e)
<1> USE DEF Inv, Typed, FieldsTyped
<1>1. ASSUME cell' = cell PROVE ValueStep(e)
  BY <1>1 DEF ValueStep
<1>2. ASSUME NEW d \in Entry, NEW en, en.value = cell[d].value,
             cell' = [cell EXCEPT ![d] = en]
      PROVE  ValueStep(e)
  BY <1>2 DEF ValueStep
<1>3. ASSUME NEW k \in Key, UseSnapshot(k) PROVE ValueStep(e)
  <2>1. entries[k] \in Entry
    BY <1>3 DEF UseSnapshot
  <2> QED BY <1>2, <1>3, <2>1, ValueFields DEF UseSnapshot
<1>4. ASSUME NEW c \in Caller, NEW k \in Key, RefreshNow(c, k)
      PROVE ValueStep(e)
  <2>1. entries[k] \in Entry
    BY <1>4 DEF RefreshNow
  <2> QED BY <1>1, <1>2, <1>4, <2>1, ValueFields DEF RefreshNow
<1>5. ASSUME NEW c \in Caller, NEW k \in Key, NEW op \in {"ensure", "refresh"},
             StartInitialization(c, op, k)
      PROVE ValueStep(e)
  <2>1. PICK d \in Entry, t \in Task :
          /\ cell' = [cell EXCEPT ![d] = Initializing(EntryFor(k, d), t)]
          /\ Obtained(k, d)
    BY <1>5 DEF StartInitialization
  <2>2. CASE entries[k] = d
    BY <1>2, <2>1, <2>2, ValueFields DEF EntryFor
  <2>3. CASE entries[k] # d
    <3>1. FreshEntry(k).value = None /\ FreshEntry(k) \in CacheEntry
      BY Blanks DEF FreshEntry
    <3>2. Initializing(FreshEntry(k), t).value = None
      BY <3>1, ValueFields
    <3> QED BY <2>1, <2>3, <3>2 DEF EntryFor, Obtained, ValueStep
  <2> QED BY <2>2, <2>3
<1>6. ASSUME NEW t \in Task, TaskRuns(t) PROVE ValueStep(e)
  <2>1. ~Free(t) /\ task[t].entry \in Entry
    BY <1>6 DEF TaskRuns, ReadSnapshot, Hydrate, ColdLoad, QueryReturns,
       QueryFails, SnapshotPersisted, SaveFails, Completed, React, Settled,
       WellFormed, Free
  <2>2. ASSUME Installs(t), task[t].pc \in {"saving", "saved"}
        PROVE  ValueStep(e)
    <3>1. task[t].index \in Nat
      BY <2>2 DEF WellFormed
    <3>2. cell' = [cell EXCEPT ![task[t].entry] =
            [Installed(cell[task[t].entry], task[t].index) EXCEPT !.due = FALSE]]
      BY <2>2 DEF Installs
    <3>3. cell'[task[t].entry].value = task[t].index
      BY <2>1, <3>1, <3>2, InstalledFields
    <3>4. task'[t].pc = "resolved"
      BY <2>2 DEF Installs, Promise
    <3> QED BY <2>1, <2>2, <3>2, <3>3, <3>4 DEF ValueStep
  <2>3. ASSUME Rejects(t) PROVE ValueStep(e)
    BY <1>2, <2>1, <2>3, ValueFields DEF Rejects
  <2>4. CASE Hydrate(t)
    <3> DEFINE d == task[t].entry
               en == Installed(cell[d], task[t].index)
    <3>1. /\ task[t].index \in Nat /\ task[t].pc = "read"
          /\ task[t].kind = "initialization"
      BY <2>4 DEF Hydrate, Promise, Index, Discipline, TaskDiscipline
    <3>2. cell[d].value = None
      BY <3>1 DEF Discipline, ColdLoadsAlone, InFlight
    <3>3. en \in CacheEntry /\ en.value = task[t].index
      <4>1. cell[d] \in CacheEntry
        BY <2>1
      <4>2. en \in CacheEntry
        BY <3>1, <4>1, EntryOperators
      <4> QED BY <4>1, <4>2 DEF Installed, CacheEntry
    <3> HIDE DEF en
    <3>4. cell'[d].value = task[t].index
      BY <2>1, <2>4, <3>3, ValueFields DEF Hydrate, en
    <3>5. \A c \in Entry : c # d => cell'[c] = cell[c]
      BY <2>4 DEF Hydrate
    <3> QED BY <2>1, <3>1, <3>2, <3>4, <3>5 DEF ValueStep
  <2>5. CASE ColdLoad(t)
    BY <1>2, <2>1, <2>5, ValueFields DEF ColdLoad
  <2>6. CASE React(t)
    BY <1>2, <2>1, <2>6, ValueFields DEF React
  <2> QED BY <1>1, <1>6, <2>2, <2>3, <2>4, <2>5, <2>6
          DEF TaskRuns, ReadSnapshot, QueryReturns, QueryFails,
              SnapshotPersisted, SaveFails, Completed
<1>7. ASSUME NEW k \in Key, Elapse(k) PROVE ValueStep(e)
  BY <1>7 DEF Elapse, ValueStep, CacheEntry
<1>8. CASE Restart
  BY <1>8, NoneAssumption
     DEF Restart, ValueStep, Referenced, FreshEntry, FreeTask, IdleCaller
<1>9. ASSUME NEW c \in Caller, CallStarts(c) PROVE ValueStep(e)
  BY <1>1, <1>4, <1>5, <1>9 DEF CallStarts, JoinInitialization, ClearDatabase
<1>10. ASSUME NEW c \in Caller, CallResumes(c) PROVE ValueStep(e)
  BY <1>1, <1>10 DEF CallResumes, RefreshAfterInitialization, ClearMemory,
     ClearFile, ClearFileFails
<1>11. CASE SchemaChanges \/ UNCHANGED vars
  BY <1>1, <1>11 DEF SchemaChanges, vars
<1>12. ASSUME NEW keys \in SUBSET Key, Forget(keys) PROVE ValueStep(e)
  BY <1>1, <1>12 DEF Forget
<1> QED
  BY <1>3, <1>6, <1>7, <1>8, <1>9, <1>10, <1>11, <1>12
     DEF Next, Running, Invalidate, InvalidateConnection, Clear

(* What a step does to a promise and to the world outside the cache.       *)
TaskStep(t) ==
  \/ task'[t] = task[t]
  \/ /\ task'[t].pc \notin {"saving", "saved"}
     /\ task'[t].index \in {None, task[t].index}
  \/ /\ task[t].pc = "reading" /\ task'[t].pc = "read" /\ KeyOf(t) \in Key
     /\ task'[t].index \in {None, file[KeyOf(t)]}
  \/ /\ task[t].pc = "loading" /\ cell' = cell
     /\ task'[t].kind = task[t].kind /\ task'[t].entry = task[t].entry
     /\ task'[t].index = catalog
  \/ /\ task[t].pc = "saving"
     /\ task'[t].kind = task[t].kind /\ task'[t].entry = task[t].entry
     /\ task'[t].index = task[t].index

WorldStep ==
  /\ catalog' \in {catalog, catalog + 1}
  /\ \A k \in Key :
       \/ file'[k] = file[k]
       \/ /\ file'[k] = None
          /\ \E c \in Caller : caller[c].pc = "deleting" /\ caller[c].key = k
       \/ \E t \in Task : /\ task[t].pc = "saving" /\ KeyOf(t) = k
                         /\ file'[k] = task[t].index

LEMMA Steps ==
  ASSUME Inv, [Next]_vars PROVE WorldStep /\ \A t \in Task : TaskStep(t)
<1> USE NoneAssumption DEF Inv, Typed, FieldsTyped
<1>1. ASSUME UNCHANGED <<task, file, catalog>>
      PROVE  WorldStep /\ \A t \in Task : TaskStep(t)
  BY <1>1 DEF WorldStep, TaskStep
<1>2. ASSUME NEW u \in Task, NEW new, new.index = None,
             new.pc \notin {"saving", "saved"}, task' = [task EXCEPT ![u] = new],
             UNCHANGED <<file, catalog>>
      PROVE  WorldStep /\ \A t \in Task : TaskStep(t)
  BY <1>2 DEF WorldStep, TaskStep
<1>3. ASSUME NEW e, NEW kind, NEW pc \in {"loading", "reading"}
      PROVE  /\ Started(kind, e, pc).index = None
             /\ Started(kind, e, pc).pc \notin {"saving", "saved"}
  BY DEF Started
<1>4. ASSUME NEW k \in Key, UseSnapshot(k)
      PROVE  WorldStep /\ \A t \in Task : TaskStep(t)
  BY <1>2, <1>3, <1>4 DEF UseSnapshot
<1>5. ASSUME NEW c \in Caller, NEW k \in Key, RefreshNow(c, k)
      PROVE  WorldStep /\ \A t \in Task : TaskStep(t)
  <2>1. CASE UNCHANGED task
    BY <1>1, <1>5, <2>1 DEF RefreshNow
  <2>2. CASE \E t \in Task : task' = [task EXCEPT ![t] =
                               Started("refresh", entries[k], "loading")]
    <3> DEFINE new == Started("refresh", entries[k], "loading")
    <3>1. UNCHANGED <<file, catalog>>
      BY <1>5 DEF RefreshNow
    <3>2. new.index = None /\ new.pc \notin {"saving", "saved"}
      BY <1>3
    <3>3. PICK t \in Task : task' = [task EXCEPT ![t] = new]
      BY <2>2
    <3> HIDE DEF new
    <3> QED BY <1>2, <3>1, <3>2, <3>3
  <2> QED BY <1>5, <2>1, <2>2 DEF RefreshNow
<1>6. ASSUME NEW c \in Caller, NEW k \in Key, NEW op \in {"ensure", "refresh"},
             StartInitialization(c, op, k)
      PROVE  WorldStep /\ \A t \in Task : TaskStep(t)
  <2>1. PICK e \in Entry, t \in Task, pc \in {"loading", "reading"} :
          task' = [task EXCEPT ![t] = Started("initialization", e, pc)]
    BY <1>6 DEF StartInitialization, FirstStep
  <2> DEFINE new == Started("initialization", e, pc)
  <2>2. UNCHANGED <<file, catalog>>
    BY <1>6 DEF StartInitialization
  <2>3. new.index = None /\ new.pc \notin {"saving", "saved"}
    BY <1>3
  <2> HIDE DEF new
  <2> QED BY <1>2, <2>1, <2>2, <2>3 DEF new
<1>7. ASSUME NEW u \in Task, TaskRuns(u)
      PROVE  WorldStep /\ \A t \in Task : TaskStep(t)
  <2>1. task[u] \in Promise /\ ~Free(u) /\ KeyOf(u) \in Key
    BY <1>7 DEF TaskRuns, ReadSnapshot, Hydrate, ColdLoad, QueryReturns,
       QueryFails, SnapshotPersisted, SaveFails, Completed, React, Settled,
       WellFormed, Free
  <2>2. ASSUME NEW pc \in {"resolved", "rejected", "loading"},
               task' = [task EXCEPT ![u].pc = pc], UNCHANGED <<file, catalog>>
        PROVE  WorldStep /\ \A t \in Task : TaskStep(t)
    BY <2>1, <2>2 DEF WorldStep, TaskStep, Promise
  <2>3. CASE ReadSnapshot(u)
    BY <2>1, <2>3 DEF ReadSnapshot, WorldStep, TaskStep, Promise, KeyOf
  <2>4. CASE Hydrate(u)
    <3>1. ASSUME NEW r \in Task, Free(r),
                 task' = [[task EXCEPT ![u].pc = "resolved"] EXCEPT ![r] =
                           Started("refresh", task[u].entry, "loading")]
          PROVE  WorldStep /\ \A t \in Task : TaskStep(t)
      <4>1. /\ task'[u].pc = "resolved" /\ task'[u].index = task[u].index
            /\ task'[r].pc = "loading" /\ task'[r].index = None
            /\ \A t \in Task : t # u /\ t # r => task'[t] = task[t]
        BY <2>1, <3>1 DEF Promise, Free, Started
      <4> QED BY <2>4, <4>1 DEF Hydrate, WorldStep, TaskStep
    <3> QED BY <2>2, <2>4, <3>1 DEF Hydrate
  <2>5. CASE ColdLoad(u)
    BY <2>2, <2>5 DEF ColdLoad
  <2>6. CASE QueryReturns(u)
    BY <2>1, <2>6 DEF QueryReturns, WorldStep, TaskStep, Promise
  <2>7. CASE QueryFails(u)
    BY <2>2, <2>7 DEF QueryFails, Rejects
  <2>8. CASE SnapshotPersisted(u)
    <3>1. \A t \in Task : TaskStep(t)
      BY <2>1, <2>8 DEF SnapshotPersisted, TaskStep, Promise
    <3>2. WorldStep
      BY <2>1, <2>8 DEF SnapshotPersisted, WorldStep, KeyOf
    <3> QED BY <3>1, <3>2
  <2>9. CASE SaveFails(u) \/ Completed(u)
    BY <2>2, <2>9 DEF SaveFails, Completed, Installs, Rejects
  <2>10. CASE React(u)
    BY <1>2, <2>10 DEF React, FreeTask
  <2> QED BY <1>7, <2>3, <2>4, <2>5, <2>6, <2>7, <2>8, <2>9, <2>10 DEF TaskRuns
<1>8. CASE Restart
  BY <1>8 DEF Restart, FreeTask, WorldStep, TaskStep
<1>9. CASE SchemaChanges
  BY <1>9 DEF SchemaChanges, WorldStep, TaskStep
<1>10. ASSUME NEW c \in Caller, CallStarts(c)
       PROVE  WorldStep /\ \A t \in Task : TaskStep(t)
  BY <1>1, <1>5, <1>6, <1>10 DEF CallStarts, JoinInitialization, ClearDatabase
<1>11. ASSUME NEW c \in Caller, CallResumes(c)
       PROVE  WorldStep /\ \A t \in Task : TaskStep(t)
  <2>1. CASE ClearFile(c)
    BY <2>1 DEF ClearFile, WorldStep, TaskStep
  <2> QED BY <1>1, <1>11, <2>1 DEF CallResumes, RefreshAfterInitialization,
          ClearMemory, ClearFileFails
<1>12. ASSUME \/ \E keys \in SUBSET Key : Forget(keys)
              \/ \E k \in Key : Elapse(k)
              \/ UNCHANGED vars
       PROVE  WorldStep /\ \A t \in Task : TaskStep(t)
  BY <1>1, <1>12 DEF Forget, Elapse, vars
<1> QED
  BY <1>4, <1>7, <1>8, <1>9, <1>10, <1>11, <1>12
     DEF Next, Running, Invalidate, InvalidateConnection, Clear

LEMMA VersionsNext == Inv /\ Versions /\ [Next]_vars => Versions'
<1> SUFFICES ASSUME Inv, Versions, [Next]_vars PROVE Versions'
  OBVIOUS
<1> USE NoneAssumption
<1>1. /\ WorldStep /\ \A t \in Task : TaskStep(t)
      /\ \A e \in Entry : ValueStep(e)
  BY Steps, ValueSteps
<1>2. Typed' /\ Typed
  BY TypeNext DEF Inv
<1>3. /\ catalog \in Nat /\ catalog' \in Nat /\ catalog <= catalog'
      /\ \A v \in Index : UpTo(v) => UpTo(v)'
  BY <1>1, <1>2 DEF WorldStep, Typed, FieldsTyped, UpTo, Index
<1>4. /\ \A e \in Entry : cell[e].value \in Index /\ cell'[e].value \in Index
      /\ \A t \in Task : task[t].index \in Index /\ task'[t].index \in Index
      /\ \A k \in Key : file[k] \in Index /\ file'[k] \in Index
      /\ None \in Index
  BY <1>2 DEF Typed, FieldsTyped, CacheEntry, Promise, Index
<1>5. UpTo(None)' /\ UpTo(catalog)'
  BY <1>3 DEF UpTo
<1>6. ASSUME NEW e \in Entry PROVE UpTo(cell[e].value)'
  BY <1>1, <1>3, <1>4, <1>5 DEF ValueStep, Versions, UpTo
<1>7. ASSUME NEW k \in Key PROVE UpTo(file[k])'
  BY <1>1, <1>3, <1>4, <1>5 DEF WorldStep, Versions, UpTo
<1>8. ASSUME NEW t \in Task PROVE UpTo(task[t].index)'
  BY <1>1, <1>3, <1>4, <1>5 DEF TaskStep, Versions, UpTo
<1>9. ASSUME NEW t \in Task, task'[t].pc \in {"saving", "saved"},
             task'[t].kind = "refresh"
      PROVE  cell'[task'[t].entry].value <= task'[t].index
  <2>1. CASE /\ task[t].pc \in {"saving", "saved"}
             /\ task'[t].kind = task[t].kind /\ task'[t].entry = task[t].entry
             /\ task'[t].index = task[t].index
    <3> DEFINE e == task[t].entry
    <3>1. /\ e \in Entry /\ cell[e].value \in Nat
          /\ cell[e].value <= task[t].index /\ cell[e].refresh = t
      BY <1>2, <1>9, <2>1, LoadedValue
         DEF IsLoad, Typed, WellFormed, Free, Versions, Inv, Discipline,
             SingleFlight
    <3>2. Referenced(e) /\ Referenced(e)'
      BY <2>1 DEF Referenced
    <3>3. ASSUME NEW u \in Task, task[u].entry = e,
                 task[u].pc \in {"saving", "saved"}
          PROVE  u = t
      BY <3>1, <3>3 DEF Inv, Discipline, SingleFlight, ColdLoadsAlone, InFlight,
         Free, Typed, FieldsTyped, Promise
    <3>4. cell'[e].value = cell[e].value
      <4> HIDE DEF e
      <4>1. ValueStep(e) /\ cell[e].value # None
        BY <1>1, <3>1
      <4>2. ~\E u \in Task :
               /\ task[u].entry = e /\ task[u].pc \in {"saving", "saved"}
               /\ task'[u].pc \notin {"saving", "saved"}
        BY <1>9, <3>3
      <4> QED BY <3>2, <4>1, <4>2 DEF ValueStep
    <3> QED BY <2>1, <3>1, <3>4
  <2>2. CASE /\ task[t].pc = "loading" /\ cell' = cell
             /\ task'[t].kind = task[t].kind /\ task'[t].entry = task[t].entry
             /\ task'[t].index = catalog
    <3>1. cell[task[t].entry].value \in Nat /\ task[t].entry \in Entry
      BY <1>2, <1>9, <2>2, LoadedValue DEF IsLoad, Typed, WellFormed, Free
    <3> QED BY <2>2, <3>1 DEF Versions, UpTo
  <2> QED BY <1>1, <1>9, <2>1, <2>2 DEF TaskStep
<1> QED BY <1>6, <1>7, <1>8, <1>9 DEF Versions, UpTo

LEMMA VersionsAlways == Spec => [](Inv /\ Versions)
<1>1. Init => Inv /\ Versions
  BY TypeInit, DisciplineInit, VersionsInit DEF Inv
<1>2. Inv /\ Versions /\ [Next]_vars => (Inv /\ Versions)'
  BY TypeNext, DisciplineNext, VersionsNext DEF Inv
<1> QED BY <1>1, <1>2, PTL DEF Spec

(* A snapshot in use is never lost and never replaced by an older one,     *)
(* whatever fails and whoever clears, forgets or refreshes.                *)
THEOREM SnapshotsGoForward == Spec => ValueGoesForward
<1> DEFINE Forward ==
      \A e \in Entry :
        Referenced(e) /\ Referenced(e)' /\ cell[e].value # None =>
          cell'[e].value # None /\ cell'[e].value >= cell[e].value
<1>1. Inv /\ Versions /\ [Next]_vars => [Forward]_vars
  <2> SUFFICES ASSUME Inv, Versions, [Next]_vars, NEW e \in Entry,
                      Referenced(e), Referenced(e)', cell[e].value # None
               PROVE  cell'[e].value # None /\ cell'[e].value >= cell[e].value
    OBVIOUS
  <2>1. cell[e].value \in Nat
    BY DEF Inv, Typed, FieldsTyped, CacheEntry, Index
  <2>2. ValueStep(e)
    BY ValueSteps
  <2>3. ASSUME NEW t \in Task, task[t].entry = e,
               task[t].pc \in {"saving", "saved"},
               cell'[e].value = task[t].index
        PROVE  cell'[e].value # None /\ cell'[e].value >= cell[e].value
    <3>1. task[t].kind = "refresh" /\ task[t].index \in Nat
      BY <2>3, LoadedValue DEF IsLoad, Inv, Typed, FieldsTyped, WellFormed, Promise
    <3> QED BY <2>1, <2>3, <3>1, NoneAssumption DEF Versions
  <2> QED BY <2>1, <2>2, <2>3, NoneAssumption DEF ValueStep
<1> QED BY <1>1, VersionsAlways, PTL DEF Spec, ValueGoesForward

-----------------------------------------------------------------------------
(* What the theorems below assume of the users of the cache.               *)
NobodyClears == Ops \cap {"clear", "forget"} = {}

-----------------------------------------------------------------------------
(* The invariant                                                           *)

(* The promises of a key belong to its live entry, and nobody clears.      *)
Home ==
  /\ \A t \in Task : ~Free(t) => entries[KeyOf(t)] = task[t].entry
  /\ \A c \in Caller : caller[c].pc \notin {"quiescing", "deleting"}

(* What a promise has in hand: nothing before the answer, what the file    *)
(* still holds after the disk was read, nothing older than the file when   *)
(* it is to be written.                                                    *)
InHand ==
  /\ \A t \in Task :
       /\ task[t].pc = "loading" => task[t].index = None
       /\ task[t].pc = "read" => task[t].index \in {None, file[KeyOf(t)]}
       /\ task[t].pc = "saving" /\ file[KeyOf(t)] # None =>
            file[KeyOf(t)] <= task[t].index
  /\ catalog <= MaxCatalog

KeptInv == Inv /\ Versions /\ Home /\ InHand

LEMMA KeptInit == Init => KeptInv
<1> SUFFICES ASSUME Init PROVE Home /\ InHand
  BY TypeInit, DisciplineInit, VersionsInit DEF KeptInv, Inv
<1> QED BY CatalogAssumption DEF Init, Home, InHand, Free, FreeTask, IdleCaller

(* Two promises of one key are never both in flight.                       *)
LEMMA OneWorks ==
  ASSUME Inv, Home, NEW t \in Task, InFlight(t), NEW u \in Task, InFlight(u),
         KeyOf(t) = KeyOf(u)
  PROVE  t = u
<1>1. task[t].entry = task[u].entry
  BY DEF Home, InFlight, Free
<1> QED BY <1>1, WorksAlone

-----------------------------------------------------------------------------
(* What a step does to one promise                                         *)

Begun(t) ==
  /\ Free(t)
  /\ \E kind \in {"initialization", "refresh"}, e \in Entry,
        pc \in {"reading", "loading"} :
       /\ task'[t] = Started(kind, e, pc)
       /\ entries'[cell'[e].key] = e
Advanced(t) ==
  /\ ~Free(t)
  /\ task'[t].entry = task[t].entry /\ task'[t].kind = task[t].kind
  /\ \/ /\ task[t].pc = "reading" /\ task'[t].pc = "read"
        /\ task'[t].index \in {None, file[KeyOf(t)]}
     \/ /\ task[t].pc = "read" /\ task'[t].pc = "loading"
        /\ task'[t].index = None
     \/ task'[t].pc \in {"resolved", "rejected"}
     \/ /\ task[t].pc = "loading" /\ task'[t].pc = "saving"
        /\ task'[t].index = catalog
     \/ task[t].pc = "saving" /\ task'[t].pc = "saved"
Move(t) ==
  task'[t] = task[t] \/ task'[t] = FreeTask \/ Begun(t) \/ Advanced(t)

(* Keys of entries in use and live entries stay, unless the window is      *)
(* reloaded.                                                               *)
Place ==
  \/ \A t \in Task : Free(t)'
  \/ /\ \A e \in Entry : Referenced(e) => cell'[e].key = cell[e].key
     /\ \A k \in Key : entries[k] # None => entries'[k] = entries[k]

(* Every step does this much and no more.                                  *)
Mild ==
  /\ \A t \in Task : Move(t)
  /\ Place
  /\ \A c \in Caller : caller'[c].pc \notin {"quiescing", "deleting"}
  /\ catalog' = catalog \/ catalog' <= MaxCatalog

(* A refresh begins in the live entry of a key.                            *)
LEMMA RefreshIsMild ==
  ASSUME Inv, Home, NEW k \in Key, entries[k] \in Entry, NEW t \in Task, Free(t),
         cell' = [cell EXCEPT ![entries[k]] = Refreshing(cell[entries[k]], t)],
         task' = [task EXCEPT ![t] = Started("refresh", entries[k], "loading")],
         UNCHANGED <<entries, catalog>>,
         \A c \in Caller : caller'[c].pc \notin {"quiescing", "deleting"}
  PROVE  Mild
<1> DEFINE d == entries[k]
<1>1. cell[d] \in CacheEntry /\ cell[d].key = k
  BY NoneAssumption DEF Inv, Typed, FieldsTyped, WellFormed
<1>2. \A e \in Entry : cell'[e].key = cell[e].key
  BY <1>1, EntryOperators DEF Inv, Typed, FieldsTyped
<1>3. \A u \in Task : Move(u)
  BY <1>1, <1>2 DEF Move, Begun, Inv, Typed, FieldsTyped
<1> QED BY <1>2, <1>3 DEF Mild, Place

LEMMA StepsAreMild ==
  ASSUME NobodyClears, KeptInv, [Next]_vars PROVE Mild
<1> USE NoneAssumption DEF KeptInv, Inv, Typed, FieldsTyped
<1>1. ASSUME UNCHANGED <<entries, task>>,
             \A e \in Entry : cell'[e].key = cell[e].key,
             \A c \in Caller : caller'[c].pc \notin {"quiescing", "deleting"},
             catalog' = catalog \/ catalog' <= MaxCatalog
      PROVE  Mild
  BY <1>1 DEF Mild, Move, Place
<1>2. ASSUME NEW k \in Key, UseSnapshot(k) PROVE Mild
  <2>1. entries[k] \in Entry /\ UNCHANGED <<entries, caller, catalog>>
    BY <1>2 DEF UseSnapshot
  <2> QED BY <1>2, <2>1, RefreshIsMild DEF UseSnapshot, Home
<1>3. ASSUME NEW c \in Caller, NEW k \in Key, RefreshNow(c, k) PROVE Mild
  <2>1. entries[k] \in Entry /\ UNCHANGED <<entries, catalog>>
    BY <1>3 DEF RefreshNow
  <2>2. \A b \in Caller : caller'[b].pc \notin {"quiescing", "deleting"}
    BY <1>3 DEF RefreshNow, Waiting, Home
  <2>3. CASE UNCHANGED <<cell, task>>
    BY <1>1, <2>1, <2>2, <2>3
  <2>4. CASE \E t \in Task :
               /\ Free(t)
               /\ cell' = [cell EXCEPT ![entries[k]] =
                    Refreshing(cell[entries[k]], t)]
               /\ task' = [task EXCEPT ![t] =
                    Started("refresh", entries[k], "loading")]
    BY <2>1, <2>2, <2>4, RefreshIsMild
  <2> QED BY <1>3, <2>3, <2>4 DEF RefreshNow
<1>4. ASSUME NEW c \in Caller, NEW k \in Key, NEW op \in {"ensure", "refresh"},
             StartInitialization(c, op, k)
      PROVE  Mild
  <2>1. PICK d \in Entry, t \in Task :
          /\ Obtained(k, d) /\ Free(t)
          /\ entries' = [entries EXCEPT ![k] = d]
          /\ cell' = [cell EXCEPT ![d] = Initializing(EntryFor(k, d), t)]
          /\ task' = [task EXCEPT ![t] =
               Started("initialization", d, FirstStep(EntryFor(k, d)))]
          /\ caller' = [caller EXCEPT ![c] =
               Waiting(op, "initializing", k, d, {t})]
          /\ catalog' = catalog
    BY <1>4 DEF StartInitialization
  <2>2. EntryFor(k, d) \in CacheEntry /\ EntryFor(k, d).key = k
    BY <2>1, Blanks DEF EntryFor, WellFormed, FreshEntry
  <2>3. cell'[d].key = k /\ \A e \in Entry : e # d => cell'[e] = cell[e]
    BY <2>1, <2>2, EntryOperators
  <2>4. \A u \in Task : Move(u)
    <3>1. FirstStep(EntryFor(k, d)) \in {"reading", "loading"}
      BY DEF FirstStep
    <3>2. Begun(t)
      BY <2>1, <2>3, <3>1 DEF Begun
    <3> QED BY <2>1, <3>2 DEF Move
  <2>5. Place
    <3>1. \A e \in Entry : Referenced(e) => cell'[e].key = cell[e].key
      BY <2>1, <2>3 DEF Obtained, WellFormed
    <3> QED BY <2>1, <3>1 DEF Place, Obtained
  <2>6. \A b \in Caller : caller'[b].pc \notin {"quiescing", "deleting"}
    BY <2>1 DEF Waiting, Home
  <2> QED BY <2>1, <2>4, <2>5, <2>6 DEF Mild
<1>5. ASSUME NEW c \in Caller, CallStarts(c) PROVE Mild
  <2>1. ASSUME NEW k \in Key, NEW op \in {"ensure", "refresh"},
               JoinInitialization(c, op, k)
        PROVE  Mild
    <3>1. \A b \in Caller : caller'[b].pc \notin {"quiescing", "deleting"}
      BY <2>1 DEF JoinInitialization, Waiting, Home
    <3> QED BY <1>1, <2>1, <3>1 DEF JoinInitialization
  <2>2. ASSUME NEW k \in Key PROVE ~ClearDatabase(c, k)
    BY DEF ClearDatabase, NobodyClears
  <2> QED BY <1>3, <1>4, <1>5, <2>1, <2>2 DEF CallStarts
<1>6. ASSUME NEW c \in Caller, CallResumes(c) PROVE Mild
  <2>1. ~ClearMemory(c) /\ ~ClearFile(c) /\ ~ClearFileFails(c)
    BY DEF ClearMemory, ClearFile, ClearFileFails, Home
  <2>2. RefreshAfterInitialization(c)
    BY <1>6, <2>1 DEF CallResumes
  <2>3. \A b \in Caller : caller'[b].pc \notin {"quiescing", "deleting"}
    <3>1. caller[c] \in Call
      OBVIOUS
    <3> QED BY <2>2, <3>1 DEF RefreshAfterInitialization, IdleCaller, Call, Home
  <2> QED BY <1>1, <2>2, <2>3 DEF RefreshAfterInitialization
<1>7. ASSUME NEW t \in Task, TaskRuns(t) PROVE Mild
  <2> DEFINE d == task[t].entry
  <2>1. ~Free(t) /\ d \in Entry /\ cell[d] \in CacheEntry /\ task[t] \in Promise
    BY <1>7 DEF TaskRuns, ReadSnapshot, Hydrate, ColdLoad, QueryReturns,
       QueryFails, SnapshotPersisted, SaveFails, Completed, React, Settled,
       WellFormed, Free
  <2>2. UNCHANGED <<entries, catalog>>
    BY <1>7 DEF TaskRuns, ReadSnapshot, Hydrate, ColdLoad, QueryReturns,
       QueryFails, SnapshotPersisted, SaveFails, Completed, React
  <2>3. \A b \in Caller : caller'[b].pc \notin {"quiescing", "deleting"}
    <3>1. CASE React(t)
      <4>1. \A call \in Call : call.pc \notin {"quiescing", "deleting"} =>
              Woken(call, t).pc \notin {"quiescing", "deleting"}
        BY DEF Woken, IdleCaller, Call
      <4> QED BY <3>1, <4>1 DEF React, Home
    <3>2. CASE UNCHANGED caller
      BY <3>2 DEF Home
    <3> QED BY <1>7, <3>1, <3>2 DEF TaskRuns, ReadSnapshot, Hydrate, ColdLoad,
            QueryReturns, QueryFails, SnapshotPersisted, SaveFails, Completed
  <2>4. ASSUME \A e \in Entry : cell'[e].key = cell[e].key,
               \A u \in Task : u # t => task'[u] = task[u], Move(t)
        PROVE  Mild
    BY <2>2, <2>3, <2>4 DEF Mild, Place, Move
  <2>5. ASSUME NEW en \in CacheEntry, en.key = cell[d].key,
               cell' = [cell EXCEPT ![d] = en]
        PROVE  \A e \in Entry : cell'[e].key = cell[e].key
    BY <2>1, <2>5
  <2>6. CASE Hydrate(t)
    <3>1. task[t].index \in Nat /\ task[t].pc = "read"
      BY <2>1, <2>6 DEF Hydrate, Promise, Index
    <3> DEFINE en == Installed(cell[d], task[t].index)
    <3>2. en \in CacheEntry /\ en.key = cell[d].key
      BY <2>1, <3>1, EntryOperators
    <3> HIDE DEF en
    <3>3. \A e \in Entry : cell'[e].key = cell[e].key
      <4>1. ASSUME NEW r \in Task, cell' = [cell EXCEPT ![d] = Refreshing(en, r)]
            PROVE  \A e \in Entry : cell'[e].key = cell[e].key
        BY <2>1, <3>2, <4>1, EntryOperators
      <4>2. ASSUME cell' = [cell EXCEPT ![d] = en]
            PROVE  \A e \in Entry : cell'[e].key = cell[e].key
        BY <2>1, <3>2, <4>2
      <4> QED BY <2>6, <4>1, <4>2 DEF Hydrate, en
    <3>4. Advanced(t)
      BY <2>1, <2>6, <3>1 DEF Hydrate, Advanced, Free, Promise
    <3>5. ASSUME NEW r \in Task, Free(r),
                 task' = [[task EXCEPT ![t].pc = "resolved"] EXCEPT ![r] =
                           Started("refresh", d, "loading")]
          PROVE  \A u \in Task : Move(u)
      <4>1. entries'[cell'[d].key] = d
        BY <2>1, <2>2, <3>3 DEF Home, KeyOf
      <4>2. Begun(r)
        BY <2>1, <3>5, <4>1 DEF Begun
      <4> QED BY <3>4, <3>5, <4>2 DEF Move
    <3>6. ASSUME task' = [task EXCEPT ![t].pc = "resolved"]
          PROVE  \A u \in Task : Move(u)
      BY <3>4, <3>6 DEF Move
    <3>7. \A u \in Task : Move(u)
      BY <2>6, <3>5, <3>6 DEF Hydrate
    <3> QED BY <2>2, <2>3, <3>3, <3>7 DEF Mild, Place
  <2>7. CASE React(t)
    BY <2>1, <2>4, <2>7, EntryOperators DEF React, Move
  <2>8. CASE ReadSnapshot(t) \/ QueryReturns(t) \/ SnapshotPersisted(t)
    BY <2>1, <2>4, <2>8 DEF ReadSnapshot, QueryReturns, SnapshotPersisted,
       Move, Advanced, Free, Promise, KeyOf
  <2>9. CASE ColdLoad(t)
    <3>1. \A e \in Entry : cell'[e].key = cell[e].key
      <4>1. ColdLoading(cell[d]) \in CacheEntry /\ ColdLoading(cell[d]).key = cell[d].key
        BY <2>1, EntryOperators
      <4>2. cell' = [cell EXCEPT ![d] = ColdLoading(cell[d])]
        BY <2>9 DEF ColdLoad
      <4> QED BY <2>5, <4>1, <4>2
    <3>2. Move(t)
      BY <2>1, <2>9 DEF ColdLoad, Move, Advanced, Free, Promise
    <3> QED BY <2>4, <2>9, <3>1, <3>2 DEF ColdLoad
  <2>10. CASE QueryFails(t) \/ SaveFails(t) \/ Completed(t)
    <3>1. CASE Rejects(t)
      <4>1. \A e \in Entry : cell'[e].key = cell[e].key
        <5>1. Failed(cell[d]) \in CacheEntry /\ Failed(cell[d]).key = cell[d].key
          BY <2>1, EntryOperators
        <5>2. cell' = [cell EXCEPT ![d] = Failed(cell[d])]
          BY <3>1 DEF Rejects
        <5> QED BY <2>5, <5>1, <5>2
      <4>2. Move(t)
        BY <2>1, <3>1 DEF Rejects, Move, Advanced, Promise
      <4> QED BY <2>4, <3>1, <4>1, <4>2 DEF Rejects
    <3>2. CASE Installs(t) /\ task[t].pc \in {"saving", "saved"}
      <4>1. task[t].index \in Nat
        BY <3>2 DEF WellFormed
      <4>2. \A e \in Entry : cell'[e].key = cell[e].key
        <5> DEFINE en == [Installed(cell[d], task[t].index) EXCEPT !.due = FALSE]
        <5>1. en \in CacheEntry /\ en.key = cell[d].key
          BY <2>1, <4>1, EntryOperators
        <5>2. cell' = [cell EXCEPT ![d] = en]
          BY <3>2 DEF Installs
        <5> HIDE DEF en
        <5> QED BY <2>5, <5>1, <5>2
      <4>3. Move(t)
        BY <2>1, <3>2 DEF Installs, Move, Advanced, Promise
      <4> QED BY <2>4, <3>2, <4>2, <4>3 DEF Installs
    <3> QED BY <2>10, <3>1, <3>2 DEF QueryFails, SaveFails, Completed
  <2> QED BY <1>7, <2>6, <2>7, <2>8, <2>9, <2>10 DEF TaskRuns
<1>8. CASE Restart
  BY <1>8 DEF Restart, FreeTask, IdleCaller, Mild, Move, Place, Free
<1>9. CASE SchemaChanges
  BY <1>1, <1>9, CatalogAssumption DEF SchemaChanges, Home
<1>10. ASSUME NEW k \in Key, Elapse(k) PROVE Mild
  <2>1. entries[k] \in Entry /\ cell[entries[k]] \in CacheEntry
    BY <1>10 DEF Elapse
  <2> QED BY <1>1, <1>10, <2>1, EntryOperators DEF Elapse, Home
<1>11. ASSUME NEW keys \in SUBSET Key PROVE ~Forget(keys)
  BY DEF Forget, NobodyClears
<1>12. CASE UNCHANGED vars
  BY <1>1, <1>12 DEF vars, Home
<1> QED
  BY <1>2, <1>5, <1>6, <1>7, <1>8, <1>9, <1>10, <1>11, <1>12
     DEF Next, Running, Invalidate, InvalidateConnection, Clear

(* The file of a promise in flight is written by that promise alone.       *)
LEMMA FileStays ==
  ASSUME KeptInv, WorldStep, NEW t \in Task, InFlight(t)
  PROVE  \/ file'[KeyOf(t)] = file[KeyOf(t)]
         \/ task[t].pc = "saving" /\ file'[KeyOf(t)] = task[t].index
<1>1. KeyOf(t) \in Key
  BY DEF KeptInv, Inv, Typed, WellFormed, InFlight, Free
<1>2. ASSUME NEW u \in Task, task[u].pc = "saving", KeyOf(u) = KeyOf(t)
      PROVE  u = t
  BY <1>2, OneWorks DEF KeptInv, InFlight
<1> QED BY <1>1, <1>2 DEF WorldStep, KeptInv, Home

(* A promise keeps its key, and the key its live entry.                    *)
LEMMA KeysStay ==
  ASSUME KeptInv, Mild, NEW t \in Task, ~Free(t),
         task'[t].entry = task[t].entry, ~Free(t)'
  PROVE  KeyOf(t)' = KeyOf(t) /\ entries'[KeyOf(t)] = task[t].entry
<1>1. task[t].entry \in Entry /\ KeyOf(t) \in Key
  BY DEF KeptInv, Inv, Typed, WellFormed
<1>2. Referenced(task[t].entry) /\ entries[KeyOf(t)] = task[t].entry
  BY DEF Referenced, KeptInv, Home
<1> QED BY <1>1, <1>2, NoneAssumption DEF Mild, Place, KeyOf

LEMMA KeptNext ==
  ASSUME NobodyClears, KeptInv, [Next]_vars PROVE KeptInv'
<1>1. Mild /\ WorldStep
  BY StepsAreMild, Steps DEF KeptInv
<1>2. Inv' /\ Versions'
  BY TypeNext, DisciplineNext, VersionsNext DEF KeptInv, Inv
<1>3. ASSUME NEW t \in Task, ~Free(t), task'[t].entry = task[t].entry,
             ~Free(t)'
      PROVE  KeyOf(t)' = KeyOf(t) /\ entries'[KeyOf(t)] = task[t].entry
  BY <1>1, <1>3, KeysStay
<1>4. Home'
  <2>1. ASSUME NEW t \in Task, ~Free(t)'
        PROVE  entries'[KeyOf(t)'] = task'[t].entry
    <3>1. CASE Begun(t)
      BY <3>1 DEF Begun, Started, KeyOf
    <3>2. CASE ~Free(t) /\ task'[t].entry = task[t].entry
      BY <1>3, <2>1, <3>2
    <3>3. CASE task'[t] = task[t] \/ task'[t] = FreeTask
      BY <2>1, <3>2, <3>3 DEF FreeTask, Free
    <3> QED BY <1>1, <3>1, <3>2, <3>3 DEF Mild, Move, Advanced
  <2> QED BY <1>1, <2>1 DEF Mild, Home
<1>5. ASSUME NEW t \in Task
      PROVE  \/ task'[t] = task[t]
             \/ task'[t].pc \in {"free", "reading", "loading"} /\ task'[t].index = None
             \/ Advanced(t)
  <2>1. ASSUME NEW kind, NEW e, NEW pc \in {"reading", "loading"},
               task'[t] = Started(kind, e, pc)
        PROVE  task'[t].pc \in {"reading", "loading"} /\ task'[t].index = None
    BY <2>1 DEF Started
  <2>2. CASE Begun(t)
    BY <2>1, <2>2 DEF Begun
  <2> QED BY <1>1, <2>2 DEF Mild, Move, FreeTask
<1>6. ASSUME NEW t \in Task, task'[t].pc = "loading"
      PROVE  task'[t].index = None
  BY <1>6, <1>5 DEF Advanced, KeptInv, InHand
<1>7. ASSUME NEW t \in Task, task'[t].pc = "read"
      PROVE  task'[t].index \in {None, file'[KeyOf(t)']}
  <2>1. /\ InFlight(t) /\ task[t].pc # "saving"
        /\ task'[t].entry = task[t].entry
        /\ task'[t].index \in {None, file[KeyOf(t)]}
    BY <1>7, <1>5 DEF Advanced, InFlight, KeptInv, InHand
  <2>2. KeyOf(t)' = KeyOf(t)
    BY <1>3, <1>7, <2>1 DEF InFlight, Free
  <2> QED BY <1>1, <2>1, <2>2, FileStays
<1>8. ASSUME NEW t \in Task, task'[t].pc = "saving", file'[KeyOf(t)'] # None
      PROVE  file'[KeyOf(t)'] <= task'[t].index
  <2>1. /\ InFlight(t) /\ task'[t].entry = task[t].entry
        /\ \/ task'[t] = task[t]
           \/ task[t].pc = "loading" /\ task'[t].index = catalog
    BY <1>8, <1>5 DEF Advanced, InFlight
  <2>2. KeyOf(t)' = KeyOf(t) /\ KeyOf(t) \in Key
    BY <1>3, <1>8, <2>1
       DEF InFlight, Free, KeptInv, Inv, Typed, WellFormed
  <2>3. CASE task'[t] = task[t]
    <3>1. task[t].index \in Nat
      BY <1>8, <2>3 DEF KeptInv, Inv, Typed, WellFormed
    <3> QED BY <1>1, <1>8, <2>1, <2>2, <2>3, <3>1, FileStays DEF KeptInv, InHand
  <2>4. CASE task[t].pc = "loading" /\ task'[t].index = catalog
    BY <1>1, <1>8, <2>1, <2>2, <2>4, FileStays DEF KeptInv, Versions, UpTo
  <2> QED BY <2>1, <2>3, <2>4
<1>9. catalog' <= MaxCatalog
  BY <1>1 DEF Mild, KeptInv, InHand
<1> QED BY <1>2, <1>4, <1>6, <1>7, <1>8, <1>9 DEF KeptInv, InHand

LEMMA KeptAlways ==
  ASSUME NobodyClears PROVE Spec => []KeptInv
<1>1. KeptInv /\ [Next]_vars => KeptInv'
  BY KeptNext
<1> QED BY <1>1, KeptInit, PTL DEF Spec

-----------------------------------------------------------------------------
(* What follows for one window                                             *)

(* Calls of a MetadataCache that nobody clears share one catalog query     *)
(* with its save for each database, however many entries and callers.      *)
THEOREM LoadsArePerIdentity ==
  ASSUME NobodyClears PROVE Spec => []OneLoadPerIdentity
<1>1. KeptInv => OneLoadPerIdentity
  BY OneWorks DEF KeptInv, OneLoadPerIdentity, IsLoad, InFlight
<1> QED BY <1>1, KeptAlways, PTL

(* The snapshot file of a database is never removed, and never replaced by *)
(* an older one, whatever query or save of MetadataCache fails.            *)
THEOREM FilesGoForward ==
  ASSUME NobodyClears PROVE Spec => FileGoesForward
<1> DEFINE Forward ==
      \A k \in Key : file[k] # None => file'[k] # None /\ file'[k] >= file[k]
<1>1. KeptInv /\ [Next]_vars => [Forward]_vars
  <2> SUFFICES ASSUME KeptInv, [Next]_vars, NEW k \in Key, file[k] # None
               PROVE  file'[k] # None /\ file'[k] >= file[k]
    OBVIOUS
  <2>1. file[k] \in Nat
    BY DEF KeptInv, Inv, Typed, FieldsTyped, Index
  <2>2. ASSUME NEW t \in Task, task[t].pc = "saving", KeyOf(t) = k
        PROVE  task[t].index \in Nat /\ file[k] <= task[t].index
    BY <2>2 DEF KeptInv, Inv, Typed, WellFormed, InHand
  <2>3. WorldStep
    BY Steps DEF KeptInv
  <2> QED BY <2>1, <2>2, <2>3, NoneAssumption DEF WorldStep, KeptInv, Home
<1> QED BY <1>1, KeptAlways, PTL DEF Spec, FileGoesForward

-----------------------------------------------------------------------------
(* The refinement                                                          *)

Loads(k) == {t \in Task : IsLoad(t) /\ KeyOf(t) = k}
Seen(t) == [pc |-> task[t].pc, index |-> task[t].index]

LEMMA LoadIsSeen ==
  /\ load = [k \in Key |-> {Seen(t) : t \in Loads(k)}]
  /\ load' = [k \in Key |-> {Seen(t)' : t \in Loads(k)'}]
  BY DEF load, Loads, Seen

(* A step that leaves the values of the entries, and the loads.            *)
LEMMA ShownStays ==
  ASSUME Inv, entries' = entries,
         \A e \in Entry : cell'[e].value = cell[e].value
  PROVE  shown' = shown
  BY DEF shown, Inv, Typed, FieldsTyped

LEMMA LoadStays ==
  ASSUME KeptInv, Mild,
         \A t \in Task : /\ IsLoad(t)' <=> IsLoad(t)
                         /\ IsLoad(t) => task'[t] = task[t]
  PROVE  load' = load
<1>1. ASSUME NEW t \in Task, IsLoad(t) PROVE KeyOf(t)' = KeyOf(t) /\ Seen(t)' = Seen(t)
  BY <1>1, KeysStay DEF IsLoad, Free, Seen
<1>2. ASSUME NEW k \in Key
      PROVE  {Seen(t)' : t \in Loads(k)'} = {Seen(t) : t \in Loads(k)}
  <2>1. Loads(k)' = Loads(k)
    BY <1>1 DEF Loads
  <2>2. \A t \in Loads(k) : Seen(t)' = Seen(t)
    BY <1>1 DEF Loads
  <2> QED BY <2>1, <2>2
<1> QED BY <1>2, LoadIsSeen

(* A step of the one load of a key.                                        *)
LEMMA LoadMoves ==
  ASSUME KeptInv, Mild, NEW t \in Task, NEW k \in Key,
         \A u \in Task \ {t} :
           /\ IsLoad(u)' <=> IsLoad(u)
           /\ IsLoad(u) => task'[u] = task[u] /\ KeyOf(u) # k,
         IsLoad(t) => KeyOf(t) = k, IsLoad(t)' => KeyOf(t)' = k
  PROVE  /\ load[k] = IF IsLoad(t) THEN {Seen(t)} ELSE {}
         /\ load' = [load EXCEPT ![k] = IF IsLoad(t)' THEN {Seen(t)'} ELSE {}]
<1>1. ASSUME NEW u \in Task, u # t, IsLoad(u)
      PROVE  KeyOf(u)' = KeyOf(u) /\ Seen(u)' = Seen(u)
  BY <1>1, KeysStay DEF IsLoad, Free, Seen
<1>2. /\ Loads(k) = IF IsLoad(t) THEN {t} ELSE {}
      /\ Loads(k)' = IF IsLoad(t)' THEN {t} ELSE {}
  BY <1>1 DEF Loads
<1>3. ASSUME NEW j \in Key, j # k
      PROVE  {Seen(u)' : u \in Loads(j)'} = {Seen(u) : u \in Loads(j)}
  <2>1. t \notin Loads(j) /\ Loads(j)' = Loads(j)
    BY <1>1, <1>3 DEF Loads
  <2>2. \A u \in Loads(j) : Seen(u)' = Seen(u)
    BY <1>1, <2>1 DEF Loads
  <2> QED BY <2>1, <2>2
<1>4. load[k] = IF IsLoad(t) THEN {Seen(t)} ELSE {}
  BY <1>2, LoadIsSeen
<1>5. /\ load' = [j \in Key |-> {Seen(u)' : u \in Loads(j)'}]
      /\ load = [j \in Key |-> {Seen(u) : u \in Loads(j)}]
  BY LoadIsSeen
<1>6. {Seen(u)' : u \in Loads(k)'} = IF IsLoad(t)' THEN {Seen(t)'} ELSE {}
  BY <1>2
<1> HIDE DEF Seen, Loads
<1> QED BY <1>3, <1>4, <1>5, <1>6

(* A promise in flight goes on, comes to an end, or begins for its key.    *)
LEMMA LoadOfKey ==
  ASSUME KeptInv, Mild, NEW t \in Task, IsLoad(t) \/ IsLoad(t)',
         \A u \in Task \ {t} :
           /\ IsLoad(u)' <=> IsLoad(u)
           /\ IsLoad(u) => task'[u] = task[u],
         NEW k \in Key,
         IF IsLoad(t) THEN KeyOf(t) = k
         ELSE \A u \in Task : IsLoad(u) => KeyOf(u) # k,
         IsLoad(t)' => KeyOf(t)' = k
  PROVE  /\ load[k] = IF IsLoad(t) THEN {Seen(t)} ELSE {}
         /\ load' = [load EXCEPT ![k] = IF IsLoad(t)' THEN {Seen(t)'} ELSE {}]
<1>1. ASSUME NEW u \in Task \ {t}, IsLoad(u) PROVE KeyOf(u) # k
  BY <1>1, OneWorks DEF KeptInv, IsLoad, InFlight
<1> QED BY <1>1, LoadMoves

(* What the session sees when the value of one live entry changes.         *)
LEMMA ShownMoves ==
  ASSUME Inv, entries' = entries, NEW k \in Key, entries[k] \in Entry,
         \A e \in Entry : e # entries[k] => cell'[e].value = cell[e].value
  PROVE  /\ shown[k] = cell[entries[k]].value
         /\ shown' = [shown EXCEPT ![k] = cell'[entries[k]].value]
<1>1. \A j \in Key : j # k => entries[j] # entries[k]
  BY NoneAssumption DEF Inv, Typed, WellFormed
<1> QED BY <1>1, NoneAssumption DEF shown, Inv, Typed, FieldsTyped

LEMMA InitRefines == Init => Coalesced!Init
<1> SUFFICES ASSUME Init PROVE Coalesced!Init
  OBVIOUS
<1>1. shown = [k \in Key |-> None]
  BY DEF Init, shown
<1>2. load = [k \in Key |-> {}]
  <2>1. \A t \in Task : ~IsLoad(t)
    BY DEF Init, IsLoad, FreeTask
  <2> QED BY <2>1 DEF load
<1> QED BY <1>1, <1>2 DEF Init, Coalesced!Init

Refines == Coalesced!Next \/ UNCHANGED Coalesced!vars

(* Nothing loads for a key whose entry has a snapshot and no refresh.      *)
LEMMA NothingLoads ==
  ASSUME KeptInv, NEW k \in Key, cell[entries[k]].refresh = None,
         cell[entries[k]].value # None \/ cell[entries[k]].initialization = None,
         NEW u \in Task, IsLoad(u)
  PROVE  KeyOf(u) # k
<1> SUFFICES ASSUME KeyOf(u) = k PROVE FALSE
  OBVIOUS
<1>1. task[u].entry = entries[k] /\ ~Free(u)
  BY DEF KeptInv, Home, IsLoad, Free
<1> QED BY <1>1, NoneAssumption
        DEF KeptInv, Inv, Typed, FieldsTyped, Discipline, SingleFlight, ColdLoadsAlone,
            IsLoad, InFlight, Promise

LEMMA RefreshRefines ==
  ASSUME KeptInv, Mild, NEW k \in Key, entries[k] \in Entry,
         cell[entries[k]].value # None, cell[entries[k]].refresh = None,
         NEW t \in Task, Free(t),
         cell' = [cell EXCEPT ![entries[k]] = Refreshing(cell[entries[k]], t)],
         task' = [task EXCEPT ![t] = Started("refresh", entries[k], "loading")],
         UNCHANGED <<entries, file, catalog>>
  PROVE  Coalesced!Ask(k)
<1> DEFINE d == entries[k]
<1>1. cell[d] \in CacheEntry /\ cell[d].key = k
  BY NoneAssumption DEF KeptInv, Inv, Typed, FieldsTyped, WellFormed
<1>2. /\ cell'[d].value = cell[d].value /\ cell'[d].key = k
      /\ \A e \in Entry : e # d => cell'[e] = cell[e]
  BY <1>1, EntryFields, EntryOperators DEF KeptInv, Inv, Typed, FieldsTyped
<1>3. shown' = shown
  BY <1>2, ShownStays DEF KeptInv
<1>4. /\ task'[t].pc = "loading" /\ task'[t].entry = d /\ task'[t].index = None
      /\ \A u \in Task : u # t => task'[u] = task[u]
  BY DEF Started, KeptInv, Inv, Typed, FieldsTyped
<1>5. load[k] = {} /\ load' = [load EXCEPT ![k] = {Seen(t)'}]
  <2>1. ~IsLoad(t) /\ IsLoad(t)' /\ KeyOf(t)' = k
    BY <1>2, <1>4 DEF IsLoad, Free, KeyOf
  <2>2. \A u \in Task \ {t} :
          (IsLoad(u)' <=> IsLoad(u)) /\ (IsLoad(u) => task'[u] = task[u])
    BY <1>4 DEF IsLoad
  <2>3. \A u \in Task : IsLoad(u) => KeyOf(u) # k
    BY NothingLoads
  <2> QED BY <2>1, <2>2, <2>3, LoadOfKey
<1>6. Seen(t)' = Coalesced!Asked
  BY <1>4 DEF Seen, Coalesced!Asked
<1> QED BY <1>3, <1>5, <1>6 DEF Coalesced!Ask

LEMMA InitializationRefines ==
  ASSUME KeptInv, Mild, NEW c \in Caller, NEW k \in Key,
         NEW op \in {"ensure", "refresh"}, StartInitialization(c, op, k)
  PROVE  Coalesced!Ask(k) \/ UNCHANGED Coalesced!vars
<1> USE NoneAssumption DEF KeptInv, Inv, Typed, FieldsTyped
<1>1. PICK d \in Entry, t \in Task :
        /\ Obtained(k, d) /\ Free(t) /\ MustInitialize(EntryFor(k, d))
        /\ entries' = [entries EXCEPT ![k] = d]
        /\ cell' = [cell EXCEPT ![d] = Initializing(EntryFor(k, d), t)]
        /\ task' = [task EXCEPT ![t] =
             Started("initialization", d, FirstStep(EntryFor(k, d)))]
        /\ UNCHANGED <<file, catalog>>
  BY DEF StartInitialization
<1>2. /\ EntryFor(k, d) \in CacheEntry /\ EntryFor(k, d).key = k
      /\ EntryFor(k, d).value = None
  BY <1>1, Blanks DEF EntryFor, WellFormed, FreshEntry, MustInitialize
<1>3. /\ cell'[d].key = k /\ cell'[d].value = None
      /\ \A e \in Entry : e # d => cell'[e] = cell[e]
  <2> DEFINE now == Initializing(EntryFor(k, d), t)
  <2>1. now.key = k
    BY <1>2, EntryOperators
  <2>2. now.value = None
    BY <1>2, EntryFields
  <2> HIDE DEF now
  <2>3. cell' = [cell EXCEPT ![d] = now]
    BY <1>1 DEF now
  <2> QED BY <2>1, <2>2, <2>3
<1>4. shown' = shown
  <2>1. ASSUME NEW j \in Key, j # k
        PROVE  entries'[j] = entries[j] /\ entries[j] # d
    BY <1>1, <2>1 DEF Obtained, Referenced, WellFormed
  <2>2. entries[k] = d => cell[d].value = None
    BY <1>1, <1>2 DEF EntryFor
  <2> QED BY <1>1, <1>3, <2>1, <2>2 DEF shown, Obtained
<1>5. /\ task'[t].pc = FirstStep(EntryFor(k, d)) /\ task'[t].entry = d
      /\ task'[t].index = None
      /\ \A u \in Task : u # t => task'[u] = task[u]
  BY <1>1 DEF Started
<1>6. CASE FirstStep(EntryFor(k, d)) = "reading"
  <2>1. load' = load
    BY <1>1, <1>5, <1>6, LoadStays DEF IsLoad, Free
  <2> QED BY <1>1, <1>4, <2>1 DEF Coalesced!vars
<1>7. CASE FirstStep(EntryFor(k, d)) = "loading"
  <2>1. ASSUME NEW u \in Task, IsLoad(u) PROVE KeyOf(u) # k
    <3>1. CASE entries[k] = d
      <4>1. cell[d].initialization = None /\ cell[d].refresh = None
        BY <1>1, <3>1 DEF EntryFor, MustInitialize, Discipline, EntryDiscipline
      <4> QED BY <2>1, <3>1, <4>1, NothingLoads
    <3>2. CASE entries[k] # d
      BY <1>1, <2>1, <3>2 DEF Obtained, Home, IsLoad, Free, WellFormed
    <3> QED BY <3>1, <3>2
  <2>2. load[k] = {} /\ load' = [load EXCEPT ![k] = {Seen(t)'}]
    <3>1. ~IsLoad(t) /\ IsLoad(t)' /\ KeyOf(t)' = k
      BY <1>1, <1>3, <1>5, <1>7 DEF IsLoad, Free, KeyOf
    <3>2. \A u \in Task \ {t} :
            (IsLoad(u)' <=> IsLoad(u)) /\ (IsLoad(u) => task'[u] = task[u])
      BY <1>5 DEF IsLoad
    <3> QED BY <2>1, <3>1, <3>2, LoadOfKey
  <2>3. Seen(t)' = Coalesced!Asked
    BY <1>5, <1>7 DEF Seen, Coalesced!Asked
  <2> QED BY <1>1, <1>4, <2>2, <2>3 DEF Coalesced!Ask
<1> QED BY <1>6, <1>7 DEF FirstStep

LEMMA HydrationRefines ==
  ASSUME KeptInv, Mild, NEW t \in Task, Hydrate(t)
  PROVE  Coalesced!Ask(KeyOf(t))
<1> USE NoneAssumption DEF KeptInv, Inv, Typed, FieldsTyped
<1> DEFINE d == task[t].entry
           k == KeyOf(t)
           en == Installed(cell[d], task[t].index)
<1>1. /\ d \in Entry /\ cell[d] \in CacheEntry /\ task[t].index \in Nat
      /\ task[t].pc = "read" /\ task[t] \in Promise /\ en \in CacheEntry
  BY HydrationRefreshes
<1>2. PICK r \in Task :
        /\ Free(r)
        /\ cell' = [cell EXCEPT ![d] = Refreshing(en, r)]
        /\ task' = [[task EXCEPT ![t].pc = "resolved"]
                     EXCEPT ![r] = Started("refresh", d, "loading")]
  BY HydrationRefreshes
<1>3. en.key = k /\ en.value = task[t].index
  <2>1. en.key = k
    BY <1>1, EntryOperators DEF KeyOf
  <2>2. en.value = task[t].index
    BY <1>1, EntryFields
  <2> QED BY <2>1, <2>2
<1> HIDE DEF en
<1>4. k \in Key /\ entries[k] = d /\ UNCHANGED <<entries, file, catalog>>
  BY <1>1 DEF WellFormed, Home, Free, Hydrate
<1>5. /\ cell[d].value = None /\ cell[d].refresh = None
      /\ task[t].kind = "initialization" /\ file[k] = task[t].index
  BY <1>1 DEF Discipline, TaskDiscipline, ColdLoadsAlone, InFlight, InHand
<1>6. /\ cell'[d].value = task[t].index /\ cell'[d].key = k
      /\ \A e \in Entry : e # d => cell'[e] = cell[e]
  <2> DEFINE now == Refreshing(en, r)
  <2>1. now.key = k
    BY <1>1, <1>3, EntryOperators
  <2>2. now.value = task[t].index
    BY <1>1, <1>3, EntryFields
  <2> HIDE DEF now
  <2>3. cell' = [cell EXCEPT ![d] = now]
    BY <1>2 DEF now
  <2> QED BY <1>1, <2>1, <2>2, <2>3
<1>7. shown[k] = None /\ shown' = [shown EXCEPT ![k] = file[k]]
  <2>1. \A e \in Entry : e # entries[k] => cell'[e].value = cell[e].value
    BY <1>4, <1>6
  <2> HIDE DEF d, k
  <2>2. /\ shown[k] = cell[entries[k]].value
        /\ shown' = [shown EXCEPT ![k] = cell'[entries[k]].value]
    BY <1>1, <1>4, <2>1, ShownMoves
  <2> QED BY <1>4, <1>5, <1>6, <2>2
<1>8. /\ task'[t].pc = "resolved" /\ task'[r].pc = "loading"
      /\ task'[r].entry = d /\ task'[r].index = None /\ r # t
      /\ \A u \in Task : u # t /\ u # r => task'[u] = task[u]
  BY <1>1, <1>2 DEF Started, Free, Promise
<1>9. ASSUME NEW u \in Task, IsLoad(u) PROVE KeyOf(u) # k
  BY <1>1, <1>9, OneWorks DEF IsLoad, InFlight
<1>10. load[k] = {} /\ load' = [load EXCEPT ![k] = {Seen(r)'}]
  <2>1. ~IsLoad(r) /\ IsLoad(r)' /\ KeyOf(r)' = k
    BY <1>2, <1>6, <1>8 DEF IsLoad, Free, KeyOf
  <2>2. \A u \in Task \ {r} :
          (IsLoad(u)' <=> IsLoad(u)) /\ (IsLoad(u) => task'[u] = task[u])
    BY <1>1, <1>8 DEF IsLoad
  <2> HIDE DEF d, k
  <2> QED BY <1>4, <1>9, <2>1, <2>2, LoadOfKey
<1>11. Seen(r)' = Coalesced!Asked
  BY <1>8 DEF Seen, Coalesced!Asked
<1> QED BY <1>1, <1>4, <1>5, <1>7, <1>10, <1>11 DEF Coalesced!Ask

(* The step of a load that runs, seen at its key.                          *)
LEMMA LoadRuns ==
  ASSUME KeptInv, Mild, NEW t \in Task, IsLoad(t),
         task'[t].entry = task[t].entry, ~Free(t)',
         \A u \in Task \ {t} : task'[u] = task[u]
  PROVE  LET k == KeyOf(t) IN
         /\ k \in Key /\ entries[k] = task[t].entry /\ entries[k] \in Entry
         /\ load[k] = {Seen(t)}
         /\ load' = [load EXCEPT ![k] = IF IsLoad(t)' THEN {Seen(t)'} ELSE {}]
<1> DEFINE k == KeyOf(t)
<1>1. k \in Key /\ entries[k] = task[t].entry /\ entries[k] \in Entry
  BY DEF KeptInv, Inv, Typed, WellFormed, Home, IsLoad, Free
<1>2. KeyOf(t)' = k
  BY KeysStay DEF IsLoad, Free
<1>3. \A u \in Task \ {t} :
        (IsLoad(u)' <=> IsLoad(u)) /\ (IsLoad(u) => task'[u] = task[u])
  BY DEF IsLoad
<1> HIDE DEF k
<1>4. KeyOf(t) = k
  BY DEF k
<1>5. /\ load[k] = {Seen(t)}
      /\ load' = [load EXCEPT ![k] = IF IsLoad(t)' THEN {Seen(t)'} ELSE {}]
  BY <1>1, <1>2, <1>3, <1>4, LoadOfKey
<1> QED BY <1>1, <1>5 DEF k

(* Only what fits between the snapshot and the catalog is stored or shown. *)
LEMMA Fits ==
  ASSUME KeptInv, NEW t \in Task, task[t].pc \in {"saving", "saved"}
  PROVE  /\ task[t].index \in 0..MaxCatalog
         /\ task[t].pc = "saving" =>
              Coalesced!NotOlder(task[t].index, file[KeyOf(t)])
         /\ Coalesced!NotOlder(task[t].index, cell[task[t].entry].value)
<1> USE NoneAssumption, CatalogAssumption DEF KeptInv
<1>1. task[t].index \in Nat /\ catalog \in Nat
  BY DEF Inv, Typed, FieldsTyped, WellFormed
<1>2. task[t].index \in 0..MaxCatalog
  BY <1>1 DEF Versions, UpTo, InHand
<1>3. task[t].pc = "saving" => Coalesced!NotOlder(task[t].index, file[KeyOf(t)])
  <2>1. file[KeyOf(t)] = None \/ file[KeyOf(t)] \in Nat
    BY DEF Inv, Typed, FieldsTyped, WellFormed, Free, Index
  <2> QED BY <1>1, <2>1 DEF InHand, Coalesced!NotOlder
<1>4. Coalesced!NotOlder(task[t].index, cell[task[t].entry].value)
  <2>1. CASE task[t].kind = "initialization"
    BY <2>1, LoadedValue DEF IsLoad, Coalesced!NotOlder
  <2>2. CASE task[t].kind = "refresh"
    BY <1>1, <2>2, LoadedValue DEF IsLoad, Versions, Coalesced!NotOlder
  <2> QED BY <2>1, <2>2 DEF Inv, Typed, FieldsTyped, Promise
<1> QED BY <1>2, <1>3, <1>4

LEMMA TaskRefines ==
  ASSUME KeptInv, Mild, NEW t \in Task, TaskRuns(t) PROVE Refines
<1> USE NoneAssumption DEF KeptInv, Inv, Typed, FieldsTyped
<1> DEFINE d == task[t].entry
           k == KeyOf(t)
<1>1. /\ ~Free(t) /\ d \in Entry /\ cell[d] \in CacheEntry /\ k \in Key
      /\ task[t] \in Promise
  BY DEF TaskRuns, ReadSnapshot, Hydrate, ColdLoad, QueryReturns, QueryFails,
     SnapshotPersisted, SaveFails, Completed, React, Settled, WellFormed, Free
<1>2. UNCHANGED <<entries, catalog>>
  BY DEF TaskRuns, ReadSnapshot, Hydrate, ColdLoad, QueryReturns, QueryFails,
     SnapshotPersisted, SaveFails, Completed, React
<1>3. ASSUME UNCHANGED file, \A e \in Entry : cell'[e].value = cell[e].value,
             ~IsLoad(t), ~IsLoad(t)', \A u \in Task \ {t} : task'[u] = task[u]
      PROVE  Refines
  <2>1. shown' = shown
    BY <1>2, <1>3, ShownStays
  <2>2. load' = load
    BY <1>3, LoadStays DEF IsLoad
  <2> QED BY <1>2, <1>3, <2>1, <2>2 DEF Refines, Coalesced!vars
<1>4. CASE ReadSnapshot(t)
  BY <1>1, <1>3, <1>4 DEF ReadSnapshot, IsLoad, Promise
<1>5. CASE React(t)
  <2>1. \A e \in Entry : cell'[e].value = cell[e].value
    <3>1. Slot(cell[d], t).value = cell[d].value
      BY <1>1, EntryFields
    <3>2. cell' = [cell EXCEPT ![d] = Slot(cell[d], t)]
      BY <1>5 DEF React
    <3> QED BY <1>1, <3>1, <3>2
  <2> QED BY <1>3, <1>5, <2>1 DEF React, Settled, IsLoad, FreeTask
<1>6. CASE Hydrate(t)
  BY <1>1, <1>6, HydrationRefines DEF Refines, Coalesced!Next
<1>7. CASE ColdLoad(t)
  <2>1. \A e \in Entry : cell'[e].value = cell[e].value
    <3>1. ColdLoading(cell[d]).value = cell[d].value
      BY <1>1, EntryFields
    <3>2. cell' = [cell EXCEPT ![d] = ColdLoading(cell[d])]
      BY <1>7 DEF ColdLoad
    <3> QED BY <1>1, <3>1, <3>2
  <2>2. /\ task[t].pc = "read" /\ task'[t].pc = "loading"
        /\ task'[t].index = None /\ task'[t].entry = d
        /\ \A u \in Task \ {t} : task'[u] = task[u]
    BY <1>1, <1>7 DEF ColdLoad, Promise
  <2>3. shown' = shown
    BY <1>2, <2>1, ShownStays
  <2>4. KeyOf(t)' = k
    BY <1>1, <2>2, KeysStay DEF Free
  <2>5. ASSUME NEW u \in Task, IsLoad(u) PROVE KeyOf(u) # k
    BY <2>2, <2>5, OneWorks DEF IsLoad, InFlight
  <2>6. /\ ~IsLoad(t) /\ IsLoad(t)'
        /\ \A u \in Task \ {t} :
             (IsLoad(u)' <=> IsLoad(u)) /\ (IsLoad(u) => task'[u] = task[u])
    BY <2>2 DEF IsLoad
  <2> HIDE DEF d, k
  <2>7. load[k] = {} /\ load' = [load EXCEPT ![k] = {Seen(t)'}]
    BY <1>1, <2>4, <2>5, <2>6, LoadOfKey
  <2>8. Seen(t)' = Coalesced!Asked
    BY <2>2 DEF Seen, Coalesced!Asked
  <2> QED BY <1>1, <1>2, <1>7, <2>3, <2>7, <2>8
          DEF ColdLoad, Refines, Coalesced!Next, Coalesced!Ask
<1>8. CASE QueryReturns(t)
  <2>1. /\ task[t].pc = "loading" /\ task[t].index = None
        /\ task'[t].pc = "saving" /\ task'[t].index = catalog
        /\ task'[t].entry = d /\ \A u \in Task \ {t} : task'[u] = task[u]
    BY <1>1, <1>8 DEF QueryReturns, Promise, InHand
  <2>2. load[k] = {Seen(t)} /\ load' = [load EXCEPT ![k] = {Seen(t)'}]
    BY <2>1, LoadRuns DEF IsLoad, Free
  <2>3. Seen(t) = Coalesced!Asked /\ Seen(t)' = Coalesced!Got(catalog)
    BY <2>1 DEF Seen, Coalesced!Asked, Coalesced!Got
  <2>4. shown' = shown
    BY <1>2, <1>8, ShownStays DEF QueryReturns
  <2> QED BY <1>1, <1>8, <2>2, <2>3, <2>4
          DEF QueryReturns, Refines, Coalesced!Next, Coalesced!Answer
<1>9. CASE SnapshotPersisted(t)
  <2>1. /\ task[t].pc = "saving" /\ task'[t].pc = "saved"
        /\ task'[t].index = task[t].index /\ task'[t].entry = d
        /\ \A u \in Task \ {t} : task'[u] = task[u]
        /\ file' = [file EXCEPT ![k] = task[t].index]
    BY <1>1, <1>9 DEF SnapshotPersisted, Promise, KeyOf
  <2>2. load[k] = {Seen(t)} /\ load' = [load EXCEPT ![k] = {Seen(t)'}]
    BY <2>1, LoadRuns DEF IsLoad, Free
  <2>3. /\ Seen(t) = Coalesced!Got(task[t].index)
        /\ Seen(t)' = Coalesced!Kept(task[t].index)
    BY <2>1 DEF Seen, Coalesced!Got, Coalesced!Kept
  <2>4. shown' = shown
    BY <1>2, <1>9, ShownStays DEF SnapshotPersisted
  <2>5. /\ task[t].index \in 0..MaxCatalog
        /\ Coalesced!NotOlder(task[t].index, file[k])
    BY <2>1, Fits
  <2>6. Coalesced!Store(k)
    BY <1>2, <2>1, <2>2, <2>3, <2>4, <2>5 DEF Coalesced!Store
  <2> QED BY <1>1, <2>6 DEF Refines, Coalesced!Next
<1>10. ASSUME Rejects(t), IsLoad(t), UNCHANGED file PROVE Refines
  <2>1. \A e \in Entry : cell'[e].value = cell[e].value
    <3>1. Failed(cell[d]).value = cell[d].value
      BY <1>1, EntryFields
    <3>2. cell' = [cell EXCEPT ![d] = Failed(cell[d])]
      BY <1>10 DEF Rejects
    <3> QED BY <1>1, <3>1, <3>2
  <2>2. /\ task'[t].pc = "rejected" /\ task'[t].entry = d
        /\ \A u \in Task \ {t} : task'[u] = task[u]
    BY <1>1, <1>10 DEF Rejects, Promise
  <2>3. load[k] = {Seen(t)} /\ load' = [load EXCEPT ![k] = {}]
    BY <1>10, <2>2, LoadRuns DEF IsLoad, Free
  <2>4. shown' = shown
    BY <1>2, <2>1, ShownStays
  <2> QED BY <1>1, <1>2, <1>10, <2>3, <2>4
          DEF Refines, Coalesced!Next, Coalesced!Abandon
<1>11. ASSUME Installs(t), UNCHANGED file,
              \/ task[t].pc = "saved"
              \/ task[t].pc = "saving" /\ task[t].kind = "initialization"
       PROVE  Refines
  <2> DEFINE v == task[t].index
             now == [Installed(cell[d], v) EXCEPT !.due = FALSE]
  <2>1. v \in 0..MaxCatalog /\ v \in Nat /\ Coalesced!NotOlder(v, cell[d].value)
    BY <1>11, Fits
  <2>2. /\ task'[t].pc = "resolved" /\ task'[t].entry = d
        /\ \A u \in Task \ {t} : task'[u] = task[u]
    BY <1>1, <1>11 DEF Installs, Promise
  <2>3. now.value = v
    BY <1>1, <2>1, InstalledFields
  <2>4. cell' = [cell EXCEPT ![d] = now]
    BY <1>11 DEF Installs
  <2> HIDE DEF now
  <2>5. entries[k] = d /\ load[k] = {Seen(t)} /\ load' = [load EXCEPT ![k] = {}]
    BY <1>11, <2>2, LoadRuns DEF IsLoad, Free
  <2>6. shown[k] = cell[d].value /\ shown' = [shown EXCEPT ![k] = v]
    <3>1. cell'[d].value = v /\ \A e \in Entry : e # d => cell'[e].value = cell[e].value
      BY <1>1, <2>3, <2>4
    <3> HIDE DEF d, k, v
    <3> QED BY <1>1, <1>2, <2>5, <3>1, ShownMoves
  <2>7. \/ Seen(t) = Coalesced!Kept(v)
        \/ Seen(t) = Coalesced!Got(v) /\ shown[k] = None
    <3>1. task[t].pc = "saving" /\ task[t].kind = "initialization" =>
            cell[d].value = None
      BY LoadedValue DEF IsLoad
    <3> QED BY <1>11, <2>6, <3>1 DEF Seen, Coalesced!Kept, Coalesced!Got
  <2>8. Coalesced!Show(k)
    BY <1>2, <1>11, <2>1, <2>5, <2>6, <2>7 DEF Coalesced!Show
  <2> QED BY <1>1, <2>8 DEF Refines, Coalesced!Next
<1>12. CASE QueryFails(t) \/ SaveFails(t) \/ Completed(t)
  BY <1>10, <1>11, <1>12 DEF QueryFails, SaveFails, Completed, IsLoad
<1> QED BY <1>4, <1>5, <1>6, <1>7, <1>8, <1>9, <1>12 DEF TaskRuns

LEMMA StepRefines ==
  ASSUME NobodyClears, KeptInv, [Next]_vars
  PROVE  [Coalesced!Next]_(Coalesced!vars)
<1> SUFFICES Refines
  BY DEF Refines
<1> USE NoneAssumption DEF KeptInv, Inv, Typed, FieldsTyped
<1>1. Mild
  BY StepsAreMild
<1>2. ASSUME UNCHANGED <<entries, task, file, catalog>>,
             \A e \in Entry : cell'[e].value = cell[e].value
      PROVE  Refines
  <2>1. shown' = shown
    BY <1>2, ShownStays
  <2>2. load' = load
    BY <1>1, <1>2, LoadStays DEF IsLoad
  <2> QED BY <1>2, <2>1, <2>2 DEF Refines, Coalesced!vars
<1>3. ASSUME NEW k \in Key, UseSnapshot(k) PROVE Refines
  <2>1. Coalesced!Ask(k)
    BY <1>1, <1>3, RefreshRefines DEF UseSnapshot, NeedsRefresh
  <2> QED BY <2>1 DEF Refines, Coalesced!Next
<1>4. ASSUME NEW c \in Caller, NEW k \in Key, RefreshNow(c, k) PROVE Refines
  <2>1. CASE UNCHANGED <<cell, task>>
    BY <1>2, <1>4, <2>1 DEF RefreshNow
  <2>2. CASE /\ cell[entries[k]].refresh = None
             /\ \E t \in Task :
                  /\ Free(t)
                  /\ cell' = [cell EXCEPT ![entries[k]] =
                       Refreshing(cell[entries[k]], t)]
                  /\ task' = [task EXCEPT ![t] =
                       Started("refresh", entries[k], "loading")]
    <3>1. Coalesced!Ask(k)
      BY <1>1, <1>4, <2>2, RefreshRefines DEF RefreshNow
    <3> QED BY <3>1 DEF Refines, Coalesced!Next
  <2> QED BY <1>4, <2>1, <2>2 DEF RefreshNow
<1>5. ASSUME NEW c \in Caller, CallStarts(c) PROVE Refines
  <2>1. ASSUME NEW k \in Key, NEW op \in {"ensure", "refresh"},
               StartInitialization(c, op, k)
        PROVE  Refines
    BY <1>1, <2>1, InitializationRefines DEF Refines, Coalesced!Next
  <2>2. ASSUME NEW k \in Key, NEW op \in {"ensure", "refresh"},
               JoinInitialization(c, op, k)
        PROVE  Refines
    BY <1>2, <2>2 DEF JoinInitialization
  <2>3. ASSUME NEW k \in Key PROVE ~ClearDatabase(c, k)
    BY DEF ClearDatabase, NobodyClears
  <2> QED BY <1>4, <1>5, <2>1, <2>2, <2>3 DEF CallStarts
<1>6. ASSUME NEW c \in Caller, CallResumes(c) PROVE Refines
  <2>1. ~ClearMemory(c) /\ ~ClearFile(c) /\ ~ClearFileFails(c)
    BY DEF ClearMemory, ClearFile, ClearFileFails, Home
  <2> QED BY <1>2, <1>6, <2>1 DEF CallResumes, RefreshAfterInitialization
<1>7. ASSUME NEW t \in Task, TaskRuns(t) PROVE Refines
  BY <1>1, <1>7, TaskRefines
<1>8. CASE Restart
  <2>1. shown' = [k \in Key |-> None]
    BY <1>8 DEF Restart, shown
  <2>2. load' = [k \in Key |-> {}]
    <3>1. \A t \in Task : ~IsLoad(t)'
      BY <1>8 DEF Restart, IsLoad, FreeTask
    <3> QED BY <3>1 DEF load
  <2> QED BY <1>8, <2>1, <2>2
          DEF Restart, Refines, Coalesced!Next, Coalesced!Restart
<1>9. CASE SchemaChanges
  <2>1. shown' = shown /\ load' = load
    BY <1>1, <1>9, ShownStays, LoadStays DEF SchemaChanges, IsLoad
  <2> QED BY <1>9, <2>1
          DEF SchemaChanges, Refines, Coalesced!Next, Coalesced!SchemaChanges
<1>10. ASSUME NEW k \in Key, Elapse(k) PROVE Refines
  <2>1. entries[k] \in Entry /\ cell[entries[k]] \in CacheEntry
    BY <1>10 DEF Elapse
  <2>2. \A e \in Entry : cell'[e].value = cell[e].value
    BY <1>10, <2>1 DEF Elapse, CacheEntry
  <2> QED BY <1>2, <1>10, <2>2 DEF Elapse
<1>11. ASSUME NEW keys \in SUBSET Key PROVE ~Forget(keys)
  BY DEF Forget, NobodyClears
<1>12. CASE UNCHANGED vars
  BY <1>2, <1>12 DEF vars
<1> QED
  BY <1>3, <1>5, <1>6, <1>7, <1>8, <1>9, <1>10, <1>11, <1>12
     DEF Next, Running, Invalidate, InvalidateConnection, Clear

(* A MetadataCache that nobody clears is CoalescedCatalog: every step of   *)
(* its callers and promises is a step of the catalog's one load for a      *)
(* database, or changes nothing a session or another window could see.     *)
THEOREM ImplementsCatalog ==
  ASSUME NobodyClears PROVE Spec => CoalescedSpec
<1>1. KeptInv /\ [Next]_vars => [Coalesced!Next]_(Coalesced!vars)
  BY StepRefines
<1> QED BY <1>1, InitRefines, KeptAlways, PTL
        DEF Spec, CoalescedSpec, Coalesced!Spec

-----------------------------------------------------------------------------
(* The status item                                                         *)

(* Nothing but a reload of the window makes a load disappear, and a step   *)
(* that ends one begins none.                                              *)
GoesOn(t) ==
  /\ ~Free(t)'
  /\ Settled(t)' => \A v \in Task : IsLoad(v)' => IsLoad(v)

LEMMA LoadsGoOn ==
  ASSUME Inv, Running, NEW t \in Task, IsLoad(t) PROVE GoesOn(t)
<1> USE DEF Inv, Typed, FieldsTyped, GoesOn, Settled
<1>1. ASSUME UNCHANGED task PROVE GoesOn(t)
  BY <1>1 DEF Free, IsLoad
<1>2. ASSUME NEW u \in Task, NEW kind, NEW e, NEW pc \in {"reading", "loading"},
             task' = [task EXCEPT ![u] = Started(kind, e, pc)]
      PROVE  GoesOn(t)
  BY <1>2 DEF Free, IsLoad, Started
<1>3. ASSUME NEW c \in Caller, CallStarts(c) PROVE GoesOn(t)
  <2>1. ASSUME NEW k \in Key, RefreshNow(c, k) PROVE GoesOn(t)
    BY <1>1, <1>2, <2>1 DEF RefreshNow
  <2>2. ASSUME NEW k \in Key, NEW op \in {"ensure", "refresh"},
               StartInitialization(c, op, k)
        PROVE  GoesOn(t)
    <3>1. PICK d \in Entry, u \in Task :
            task' = [task EXCEPT ![u] =
              Started("initialization", d, FirstStep(EntryFor(k, d)))]
      BY <2>2 DEF StartInitialization
    <3>2. FirstStep(EntryFor(k, d)) \in {"reading", "loading"}
      BY DEF FirstStep
    <3> HIDE DEF GoesOn
    <3> QED BY <1>2, <3>1, <3>2
  <2> QED BY <1>1, <1>3, <2>1, <2>2 DEF CallStarts, JoinInitialization, ClearDatabase
<1>4. ASSUME NEW c \in Caller, CallResumes(c) PROVE GoesOn(t)
  BY <1>1, <1>4 DEF CallResumes, RefreshAfterInitialization, ClearMemory,
     ClearFile, ClearFileFails
<1>5. ASSUME NEW u \in Task, TaskRuns(u) PROVE GoesOn(t)
  <2>1. CASE Hydrate(u)
    <3>1. PICK r \in Task :
            /\ Free(r)
            /\ task' = [[task EXCEPT ![u].pc = "resolved"] EXCEPT ![r] =
                         Started("refresh", task[u].entry, "loading")]
      BY <2>1, HydrationRefreshes
    <3>2. t # u /\ t # r
      BY <2>1, <3>1 DEF Hydrate, IsLoad, Free
    <3> QED BY <3>1, <3>2 DEF Free, IsLoad
  <2>2. CASE React(u)
    BY <2>2 DEF React, Settled, Free, IsLoad
  <2>3. CASE ReadSnapshot(u)
    BY <2>3 DEF ReadSnapshot, Free, IsLoad
  <2>4. CASE ColdLoad(u)
    BY <2>4 DEF ColdLoad, Free, IsLoad
  <2>5. CASE QueryReturns(u)
    <3>1. \A v \in Task : task'[v].pc = IF v = u THEN "saving" ELSE task[v].pc
      BY <2>5 DEF QueryReturns, Promise
    <3>2. \A v \in Task : IsLoad(v)' => IsLoad(v)
      BY <2>5, <3>1 DEF QueryReturns, IsLoad
    <3>3. ~Free(t)'
      BY <3>1 DEF Free, IsLoad
    <3> QED BY <3>2, <3>3
  <2>6. CASE QueryFails(u) \/ SaveFails(u)
    <3>1. \E pc \in {"resolved", "rejected"} :
             task' = [task EXCEPT ![u].pc = pc]
      BY <2>6 DEF QueryFails, SaveFails, Rejects, Installs
    <3> QED BY <3>1 DEF Free, IsLoad
  <2>7. CASE SnapshotPersisted(u)
    BY <2>7 DEF SnapshotPersisted, Installs, Free, IsLoad
  <2>8. CASE Completed(u)
    BY <2>8 DEF Completed, Installs, Rejects, Free, IsLoad
  <2> QED BY <1>5, <2>1, <2>2, <2>3, <2>4, <2>5, <2>6, <2>7, <2>8 DEF TaskRuns
<1>6. ASSUME NEW k \in Key, UseSnapshot(k) PROVE GoesOn(t)
  BY <1>2, <1>6 DEF UseSnapshot
<1> QED
  BY <1>1, <1>3, <1>4, <1>5, <1>6
     DEF Running, Invalidate, InvalidateConnection, Clear, Forget, Elapse,
         SchemaChanges

LEMMA StatusFollows ==
  ASSUME NobodyClears, KeptInv, OneLoadPerIdentity, OneLoadPerIdentity',
         FieldsTyped', StatusMatchesWork, Running,
         active' = [k \in Key |-> Handled(k)]
  PROVE  StatusMatchesWork'
<1> DEFINE Works(k, kind) ==
             \E t \in Task : /\ IsLoad(t) /\ KeyOf(t) = k
                             /\ task[t].kind = kind
<1>1. Mild
  BY StepsAreMild DEF Next
<1>2. ASSUME NEW k \in Key, NEW t \in Task, IsLoad(t)', KeyOf(t)' = k
      PROVE  \/ StartsLoad(t, k)
             \/ IsLoad(t) /\ KeyOf(t) = k /\ task'[t].kind = task[t].kind
  <2>1. ASSUME IsLoad(t), task'[t].entry = task[t].entry
        PROVE  KeyOf(t) = k
    BY <1>1, <1>2, <2>1, KeysStay DEF IsLoad, Free
  <2>2. CASE Begun(t)
    BY <1>2, <2>2 DEF Begun, Started, StartsLoad, IsLoad, Free
  <2>3. CASE Advanced(t)
    BY <1>2, <2>1, <2>3 DEF Advanced, StartsLoad, IsLoad
  <2>4. CASE task'[t] = task[t] \/ task'[t] = FreeTask
    BY <1>2, <2>1, <2>4 DEF FreeTask, IsLoad
  <2> QED BY <1>1, <2>2, <2>3, <2>4 DEF Mild, Move
<1>3. ASSUME NEW k \in Key, NEW t \in Task, IsLoad(t), KeyOf(t) = k
      PROVE  \/ EndsLoad(t, k)
             \/ IsLoad(t)' /\ KeyOf(t)' = k /\ task'[t].kind = task[t].kind
  <2>1. ~Free(t)'
    BY <1>3, LoadsGoOn DEF KeptInv, GoesOn
  <2>2. CASE task'[t] = task[t] \/ Advanced(t)
    <3>1. KeyOf(t)' = k
      BY <1>1, <1>3, <2>1, <2>2, KeysStay DEF Advanced, IsLoad, Free
    <3> QED BY <1>3, <2>2, <3>1 DEF Advanced, EndsLoad, Settled, IsLoad
  <2> QED BY <1>1, <1>3, <2>1, <2>2 DEF Mild, Move, Begun, FreeTask, Free, IsLoad
<1> SUFFICES ASSUME NEW k \in Key
             PROVE  /\ active'[k] \in Operation
                    /\ active'[k] = "loading" <=> Works(k, "initialization")'
                    /\ active'[k] = "refreshing" <=> Works(k, "refresh")'
  BY DEF StatusMatchesWork
<1>4. active'[k] = Handled(k)
  OBVIOUS
<1>5. /\ active[k] \in Operation
      /\ active[k] = "loading" <=> Works(k, "initialization")
      /\ active[k] = "refreshing" <=> Works(k, "refresh")
  BY DEF StatusMatchesWork
<1>6. ASSUME NEW t \in Task, StartsLoad(t, k)
      PROVE  \A kind : Works(k, kind)' <=> task'[t].kind = kind
  BY <1>6 DEF StartsLoad, OneLoadPerIdentity, IsLoad
<1>7. CASE \E t \in Task : StartsLoad(t, k)
  <2>1. PICK t \in Task : StartsLoad(t, k)
    BY <1>7
  <2>2. task'[t].kind \in {"initialization", "refresh"}
    BY DEF FieldsTyped, Promise
  <2>3. \A u \in Task : StartsLoad(u, k) => u = t
    BY <2>1 DEF StartsLoad, OneLoadPerIdentity, IsLoad
  <2>4. ASSUME NEW u \in Task, EndsLoad(u, k) PROVE FALSE
    BY <2>1, <2>4, LoadsGoOn DEF KeptInv, GoesOn, EndsLoad, StartsLoad, IsLoad
  <2>5. CASE task'[t].kind = "initialization"
    <3>1. ~\E u \in Task : StartsLoad(u, k) /\ task'[u].kind = "refresh"
      BY <2>3, <2>5
    <3>2. Handled(k) = "loading"
      BY <2>1, <2>4, <2>5, <3>1 DEF Handled
    <3> HIDE DEF Works
    <3> QED BY <1>4, <1>6, <2>1, <2>5, <3>2 DEF Operation
  <2>6. CASE task'[t].kind = "refresh"
    <3>1. ~\E u \in Task :
               StartsLoad(u, k) /\ task'[u].kind = "initialization"
      BY <2>3, <2>6
    <3>2. Handled(k) = "refreshing"
      BY <2>1, <2>4, <2>6, <3>1 DEF Handled
    <3> HIDE DEF Works
    <3> QED BY <1>4, <1>6, <2>1, <2>6, <3>2 DEF Operation
  <2> QED BY <2>2, <2>5, <2>6
<1>8. CASE ~\E t \in Task : StartsLoad(t, k)
  <2>1. CASE \E t \in Task : EndsLoad(t, k)
    <3>1. Handled(k) = None
      BY <1>8, <2>1 DEF Handled
    <3>2. ASSUME NEW u \in Task, IsLoad(u)', KeyOf(u)' = k PROVE FALSE
      <4>1. PICK t \in Task : EndsLoad(t, k)
        BY <2>1
      <4>2. IsLoad(u) /\ KeyOf(u) = k
        BY <1>2, <1>8, <3>2
      <4>3. u = t
        BY <4>1, <4>2 DEF EndsLoad, OneLoadPerIdentity, IsLoad
      <4> QED BY <3>2, <4>1, <4>3 DEF EndsLoad, IsLoad, Settled
    <3> QED BY <1>4, <3>1, <3>2, OperationAssumption DEF Operation
  <2>2. CASE ~\E t \in Task : EndsLoad(t, k)
    <3>1. Handled(k) = active[k]
      BY <1>8, <2>2 DEF Handled
    <3>2. \A kind : Works(k, kind)' <=> Works(k, kind)
      BY <1>2, <1>3, <1>8, <2>2
    <3> HIDE DEF Works
    <3> QED BY <1>4, <1>5, <3>1, <3>2
  <2> QED BY <2>1, <2>2
<1> QED BY <1>7, <1>8

LEMMA HistoryRuns == HistorySpec => Spec
<1>1. HistoryInit => Init
  BY DEF HistoryInit, StatusInit
<1>2. [HistoryNext]_historyVars => [Next]_vars
  BY DEF HistoryNext, historyVars, StatusNext, statusVars, Next
<1> QED BY <1>1, <1>2, PTL DEF HistorySpec, Spec

(* The status bar item of MetadataLifecycleStatus shows a load of a        *)
(* database while one is in flight and only then, whatever fails, however  *)
(* events and reloads interleave.                                          *)
THEOREM ItemShowsTheWork ==
  ASSUME NobodyClears PROVE HistorySpec => []StatusMatchesWork
<1>1. HistoryInit => StatusMatchesWork
  BY OperationAssumption
     DEF HistoryInit, StatusInit, Init, StatusMatchesWork, Operation, IsLoad,
         FreeTask
<1>2. KeptInv => OneLoadPerIdentity /\ FieldsTyped
  BY OneWorks DEF KeptInv, Inv, Typed, OneLoadPerIdentity, IsLoad, InFlight
<1>3. /\ KeptInv /\ OneLoadPerIdentity /\ OneLoadPerIdentity' /\ FieldsTyped'
      /\ StatusMatchesWork /\ [HistoryNext]_historyVars
      => StatusMatchesWork'
  <2> SUFFICES ASSUME KeptInv, OneLoadPerIdentity, OneLoadPerIdentity', FieldsTyped',
                      StatusMatchesWork, [HistoryNext]_historyVars
               PROVE  StatusMatchesWork'
    OBVIOUS
  <2>1. CASE Running /\ active' = [k \in Key |-> Handled(k)]
    BY <2>1, StatusFollows
  <2>2. CASE Restart /\ active' = [k \in Key |-> None]
    BY <2>2, OperationAssumption
       DEF Restart, StatusMatchesWork, Operation, IsLoad, FreeTask
  <2>3. CASE UNCHANGED historyVars
    BY <2>3 DEF historyVars, statusVars, vars, StatusMatchesWork, IsLoad, KeyOf
  <2> QED BY <2>1, <2>2, <2>3 DEF HistoryNext, StatusNext
<1> QED BY <1>1, <1>2, <1>3, HistoryRuns, KeptAlways, PTL DEF HistorySpec

-----------------------------------------------------------------------------
(* The pace of refreshes                                                   *)

(* An attempt was made and the interval since it has not elapsed.          *)
Marked(en) == en.sessionRefreshAttempted /\ ~en.due
Paced == \A e \in Entry : spent[e] => Marked(cell[e])

LEMMA MarkedFields ==
  ASSUME NEW en \in CacheEntry, NEW t \in Task, NEW v \in Nat
  PROVE  /\ Marked(ColdLoading(en)) /\ Marked(Refreshing(en, t))
         /\ en.persistentChecked => Marked(Initializing(en, t))
         /\ Marked(en) => /\ Marked(Initializing(en, t)) /\ Marked(Failed(en))
                          /\ Marked(Slot(en, t))
         /\ en.sessionRefreshAttempted =>
              Marked([Installed(en, v) EXCEPT !.due = FALSE])
<1> USE DEF Marked, CacheEntry
<1>1. Marked(ColdLoading(en)) /\ Marked(Refreshing(en, t))
  BY DEF ColdLoading, Refreshing
<1>2. en.persistentChecked => Marked(Initializing(en, t))
  BY DEF Initializing, ColdLoading
<1>3. ~en.persistentChecked /\ Marked(en) => Marked(Initializing(en, t))
  BY DEF Initializing
<1>4. Marked(en) => Marked(Failed(en)) /\ Marked(Slot(en, t))
  BY DEF Failed, Slot
<1>5. en.sessionRefreshAttempted =>
        Marked([Installed(en, v) EXCEPT !.due = FALSE])
  BY DEF Installed
<1> HIDE DEF Marked, CacheEntry
<1> QED BY <1>1, <1>2, <1>3, <1>4, <1>5

(* What a step of a running window does to the marks.                      *)
KeepsMarks ==
  /\ \A e \in Entry : Marked(cell[e]) /\ Referenced(e) =>
       Marked(cell'[e]) \/ \E k \in Key : entries[k] = e /\ Elapse(k)
  /\ \A t \in Task : Begins(t) => Marked(cell'[task'[t].entry])
  /\ \A t \in Task : Succeeds(t) => Marked(cell'[task[t].entry])

(* A load that starts marks the entry it is for.                           *)
LEMMA StartsMark ==
  ASSUME Inv, NEW d \in Entry, NEW t \in Task, Free(t), NEW en, NEW new,
         task' = [task EXCEPT ![t] = new],
         cell' = [cell EXCEPT ![d] = en],
         new.entry = d, new.pc # "resolved", new.pc = "loading" => Marked(en),
         Marked(cell[d]) /\ Referenced(d) => Marked(en)
  PROVE  KeepsMarks
<1> USE DEF Inv, Typed, FieldsTyped
<1>1. /\ task'[t] = new /\ cell'[d] = en
      /\ \A u \in Task : u # t => task'[u] = task[u]
      /\ \A e \in Entry : e # d => cell'[e] = cell[e]
  OBVIOUS
<1>2. \A e \in Entry : Marked(cell[e]) /\ Referenced(e) => Marked(cell'[e])
  BY <1>1
<1>3. ASSUME NEW u \in Task, Begins(u) PROVE Marked(cell'[task'[u].entry])
  BY <1>1, <1>3 DEF Begins, IsLoad
<1>4. ASSUME NEW u \in Task PROVE ~Succeeds(u)
  BY <1>1 DEF Succeeds, IsLoad, Free
<1> QED BY <1>2, <1>3, <1>4 DEF KeepsMarks

(* A load that goes on or settles keeps the mark of its entry.             *)
LEMMA SettlingMarks ==
  ASSUME Inv, NEW t \in Task, task[t].entry \in Entry, NEW en, NEW new,
         task' = [task EXCEPT ![t] = new],
         cell' = [cell EXCEPT ![task[t].entry] = en],
         Marked(cell[task[t].entry]) => Marked(en),
         new.pc = "loading" => new.entry = task[t].entry /\ Marked(en),
         new.pc = "resolved" /\ IsLoad(t) => Marked(en)
  PROVE  KeepsMarks
<1> USE DEF Inv, Typed, FieldsTyped
<1> DEFINE d == task[t].entry
<1>1. /\ task'[t] = new /\ cell'[d] = en
      /\ \A u \in Task : u # t => task'[u] = task[u]
      /\ \A e \in Entry : e # d => cell'[e] = cell[e]
  OBVIOUS
<1>2. \A e \in Entry : Marked(cell[e]) /\ Referenced(e) => Marked(cell'[e])
  BY <1>1
<1>3. ASSUME NEW u \in Task, Begins(u) PROVE Marked(cell'[task'[u].entry])
  BY <1>1, <1>3 DEF Begins, IsLoad
<1>4. ASSUME NEW u \in Task, Succeeds(u) PROVE Marked(cell'[task[u].entry])
  BY <1>1, <1>4 DEF Succeeds, IsLoad
<1> QED BY <1>2, <1>3, <1>4 DEF KeepsMarks

LEMMA TasksKeepMarks ==
  ASSUME Inv, NEW t \in Task, TaskRuns(t) PROVE KeepsMarks
<1> USE DEF Inv, Typed, FieldsTyped
<1> DEFINE d == task[t].entry
<1>1. ~Free(t) /\ d \in Entry /\ cell[d] \in CacheEntry /\ task[t] \in Promise
  BY DEF TaskRuns, ReadSnapshot, Hydrate, ColdLoad, QueryReturns,
     QueryFails, SnapshotPersisted, SaveFails, Completed, React, Settled,
     WellFormed, Free
<1>2. IsLoad(t) => cell[d].sessionRefreshAttempted
  BY DEF Discipline, TaskDiscipline
<1>3. ASSUME Installs(t), task[t].pc \in {"saving", "saved"} PROVE KeepsMarks
  <2>1. task[t].index \in Nat
    BY <1>3 DEF WellFormed
  <2> DEFINE en == [Installed(cell[d], task[t].index) EXCEPT !.due = FALSE]
             new == [task[t] EXCEPT !.pc = "resolved"]
  <2>2. Marked(en)
    BY <1>1, <1>2, <1>3, <2>1, MarkedFields DEF IsLoad
  <2>3. new.pc = "resolved"
    BY <1>1 DEF Promise
  <2>4. task' = [task EXCEPT ![t] = new] /\ cell' = [cell EXCEPT ![d] = en]
    BY <1>3 DEF Installs
  <2> HIDE DEF en, new
  <2> QED BY <1>1, <2>2, <2>3, <2>4, SettlingMarks
<1>4. ASSUME Rejects(t) PROVE KeepsMarks
  <2> DEFINE en == Failed(cell[d])
             new == [task[t] EXCEPT !.pc = "rejected"]
  <2>1. Marked(cell[d]) => Marked(en)
    BY <1>1, MarkedFields, 0 \in Nat
  <2>2. new.pc = "rejected"
    BY <1>1 DEF Promise
  <2>3. task' = [task EXCEPT ![t] = new] /\ cell' = [cell EXCEPT ![d] = en]
    BY <1>4 DEF Rejects
  <2> HIDE DEF en, new
  <2> QED BY <1>1, <2>1, <2>2, <2>3, SettlingMarks
<1>5. CASE Hydrate(t)
  <2> DEFINE new == Installed(cell[d], task[t].index)
  <2>1. PICK r \in Task :
          /\ Free(r) /\ new \in CacheEntry /\ task[t].pc = "read"
          /\ cell' = [cell EXCEPT ![d] = Refreshing(new, r)]
          /\ task' = [[task EXCEPT ![t].pc = "resolved"]
                       EXCEPT ![r] = Started("refresh", d, "loading")]
    BY <1>5, HydrationRefreshes
  <2> HIDE DEF new
  <2>2. Marked(Refreshing(new, r))
    BY <2>1, MarkedFields, 0 \in Nat
  <2>3. /\ cell'[d] = Refreshing(new, r)
        /\ \A e \in Entry : e # d => cell'[e] = cell[e]
        /\ task'[r].pc = "loading" /\ task'[r].entry = d
        /\ \A u \in Task \ {t, r} : task'[u] = task[u]
        /\ r # t /\ task'[t].pc = "resolved"
    BY <1>1, <2>1 DEF Started, Free, Promise
  <2>4. \A e \in Entry : Marked(cell[e]) => Marked(cell'[e])
    BY <2>2, <2>3
  <2>5. ASSUME NEW u \in Task, Begins(u) PROVE Marked(cell'[task'[u].entry])
    BY <2>2, <2>3, <2>5 DEF Begins, IsLoad
  <2>6. ASSUME NEW u \in Task PROVE ~Succeeds(u)
    BY <2>1, <2>3 DEF Succeeds, IsLoad, Free
  <2> QED BY <2>4, <2>5, <2>6 DEF KeepsMarks
<1>6. CASE ColdLoad(t)
  <2> DEFINE en == ColdLoading(cell[d])
             new == [task[t] EXCEPT !.pc = "loading"]
  <2>1. Marked(en)
    BY <1>1, MarkedFields, 0 \in Nat
  <2>2. new.pc = "loading" /\ new.entry = d
    BY <1>1 DEF Promise
  <2>3. task' = [task EXCEPT ![t] = new] /\ cell' = [cell EXCEPT ![d] = en]
    BY <1>6 DEF ColdLoad
  <2> HIDE DEF en, new
  <2> QED BY <1>1, <2>1, <2>2, <2>3, SettlingMarks
<1>7. CASE React(t)
  <2> DEFINE en == Slot(cell[d], t)
  <2>1. Marked(cell[d]) => Marked(en)
    BY <1>1, MarkedFields, 0 \in Nat
  <2>2. FreeTask.pc = "free"
    BY DEF FreeTask
  <2>3. task' = [task EXCEPT ![t] = FreeTask] /\ cell' = [cell EXCEPT ![d] = en]
    BY <1>7 DEF React
  <2> HIDE DEF en
  <2> QED BY <1>1, <2>1, <2>2, <2>3, SettlingMarks
<1>8. CASE ReadSnapshot(t) \/ QueryReturns(t) \/ SnapshotPersisted(t)
  <2>1. /\ cell' = cell
        /\ \A u \in Task : u # t => task'[u] = task[u]
        /\ task'[t].pc \in {"read", "saving", "saved"}
        /\ IsLoad(t)' => IsLoad(t)
    BY <1>1, <1>8 DEF ReadSnapshot, QueryReturns, SnapshotPersisted, Promise,
       IsLoad
  <2> QED BY <2>1 DEF KeepsMarks, Begins, Succeeds, IsLoad
<1> QED BY <1>3, <1>4, <1>5, <1>6, <1>7, <1>8
        DEF TaskRuns, QueryFails, SaveFails, Completed

LEMMA StepsKeepMarks == ASSUME Inv, Running PROVE KeepsMarks
<1> USE DEF Inv, Typed, FieldsTyped
<1>1. ASSUME UNCHANGED <<cell, task>> PROVE KeepsMarks
  BY <1>1 DEF KeepsMarks, Begins, Succeeds, IsLoad
<1>2. ASSUME NEW d \in Entry, NEW t \in Task, Free(t),
             cell' = [cell EXCEPT ![d] = Refreshing(cell[d], t)],
             task' = [task EXCEPT ![t] = Started("refresh", d, "loading")]
      PROVE  KeepsMarks
  <2> DEFINE en == Refreshing(cell[d], t)
             new == Started("refresh", d, "loading")
  <2>1. Marked(en)
    BY MarkedFields, 0 \in Nat
  <2>2. new.entry = d /\ new.pc # "resolved"
    BY DEF Started
  <2>3. cell' = [cell EXCEPT ![d] = en] /\ task' = [task EXCEPT ![t] = new]
    BY <1>2
  <2>4. Free(t)
    BY <1>2
  <2> HIDE DEF en, new
  <2> QED BY <2>1, <2>2, <2>3, <2>4, StartsMark, Zenon
<1>3. ASSUME NEW k \in Key, UseSnapshot(k) PROVE KeepsMarks
  <2>1. entries[k] \in Entry
    BY <1>3 DEF UseSnapshot
  <2> QED BY <1>2, <1>3, <2>1 DEF UseSnapshot
<1>4. ASSUME NEW c \in Caller, NEW k \in Key, RefreshNow(c, k) PROVE KeepsMarks
  <2>1. entries[k] \in Entry
    BY <1>4 DEF RefreshNow
  <2> QED BY <1>1, <1>2, <1>4, <2>1 DEF RefreshNow
<1>5. ASSUME NEW c \in Caller, NEW k \in Key, NEW op \in {"ensure", "refresh"},
             StartInitialization(c, op, k)
      PROVE  KeepsMarks
  <2>1. PICK d \in Entry, t \in Task :
          /\ Obtained(k, d) /\ Free(t)
          /\ cell' = [cell EXCEPT ![d] = Initializing(EntryFor(k, d), t)]
          /\ task' = [task EXCEPT ![t] =
               Started("initialization", d, FirstStep(EntryFor(k, d)))]
    BY <1>5 DEF StartInitialization
  <2> DEFINE old == EntryFor(k, d)
             en == Initializing(old, t)
             new == Started("initialization", d, FirstStep(old))
  <2>2. old \in CacheEntry
    BY Blanks DEF EntryFor
  <2>3. Marked(cell[d]) /\ Referenced(d) => Marked(en)
    BY <2>1, <2>2, MarkedFields, 0 \in Nat DEF Obtained, EntryFor
  <2>4. new.pc = "loading" => Marked(en)
    BY <2>2, MarkedFields, 0 \in Nat DEF FirstStep, Started
  <2>5. new.pc # "resolved" /\ new.entry = d
    BY DEF FirstStep, Started
  <2>6. cell' = [cell EXCEPT ![d] = en] /\ task' = [task EXCEPT ![t] = new]
    BY <2>1
  <2>7. Free(t)
    BY <2>1
  <2> HIDE DEF old, en, new
  <2> QED BY <2>3, <2>4, <2>5, <2>6, <2>7, StartsMark, Zenon
<1>6. ASSUME NEW k \in Key, Elapse(k) PROVE KeepsMarks
  BY <1>6 DEF Elapse, KeepsMarks, Begins, Succeeds, IsLoad
<1>7. ASSUME NEW c \in Caller, CallStarts(c) PROVE KeepsMarks
  BY <1>1, <1>4, <1>5, <1>7 DEF CallStarts, JoinInitialization, ClearDatabase
<1>8. ASSUME NEW c \in Caller, CallResumes(c) PROVE KeepsMarks
  BY <1>1, <1>8 DEF CallResumes, RefreshAfterInitialization, ClearMemory,
     ClearFile, ClearFileFails
<1>9. ASSUME NEW keys \in SUBSET Key, Forget(keys) PROVE KeepsMarks
  BY <1>1, <1>9 DEF Forget
<1> QED
  BY <1>1, <1>3, <1>6, <1>7, <1>8, <1>9, TasksKeepMarks
     DEF Running, Invalidate, InvalidateConnection, Clear, SchemaChanges

(* Whatever fails, is cleared or is forgotten, the use of a snapshot does  *)
(* not start a refresh before an interval has passed since the entry's     *)
(* last attempt and its last success.                                      *)
THEOREM RefreshesArePaced == HistorySpec => RefreshIsPaced
<1> DEFINE Spaced == \A k \in Key : UseSnapshot(k) => ~spent[entries[k]]
<1>1. HistoryInit => Paced
  BY DEF HistoryInit, Paced
<1>2. Inv /\ Paced /\ [HistoryNext]_historyVars => Paced'
  <2> SUFFICES ASSUME Inv, Paced, [HistoryNext]_historyVars,
                      NEW e \in Entry, spent'[e]
               PROVE  Marked(cell'[e])
    BY DEF Paced
  <2>1. CASE UNCHANGED historyVars
    BY <2>1 DEF historyVars, statusVars, vars, Paced
  <2>2. CASE HistoryNext
    <3>1. \/ \E t \in Task : Begins(t) /\ task'[t].entry = e
          \/ \E t \in Task : Succeeds(t) /\ task[t].entry = e
          \/ /\ spent[e] /\ Referenced(e) /\ ~Restart
             /\ ~\E k \in Key : entries[k] = e /\ Elapse(k)
      BY <2>2 DEF HistoryNext
    <3>2. CASE Running
      BY <3>1, <3>2, StepsKeepMarks DEF KeepsMarks, Paced
    <3>3. CASE Restart
      BY <3>1, <3>3 DEF Restart, FreeTask, Begins, Succeeds
    <3> QED BY <2>2, <3>2, <3>3 DEF HistoryNext, StatusNext
  <2> QED BY <2>1, <2>2
<1>3. Inv /\ Paced => Spaced
  BY DEF Inv, Typed, FieldsTyped, Paced, Marked, UseSnapshot, NeedsRefresh
<1>4. Inv /\ Paced /\ [HistoryNext]_historyVars => [Spaced]_historyVars
  BY <1>3
<1> QED BY <1>1, <1>2, <1>4, InvAlways, HistoryRuns, PTL
        DEF HistorySpec, RefreshIsPaced
=============================================================================
