---------------------- MODULE MetadataLifecycleStatus ----------------------
(***************************************************************************)
(* The status bar item (src/src/metadata/MetadataLifecycleStatus.ts): the  *)
(* cache emits an event when a load starts and when it ends, and handle()  *)
(* keeps, per cache identity, what to show.                                *)
(***************************************************************************)
EXTENDS MetadataCache

ASSUME OperationAssumption == None \notin {"loading", "refreshing"}

VARIABLE active   \* the map from a key to the operation shown

statusVars == <<vars, active>>

Operation == {"loading", "refreshing", None}

StartsLoad(t, k) == ~IsLoad(t) /\ task'[t].pc = "loading" /\ KeyOf(t)' = k
EndsLoad(t, k) == IsLoad(t) /\ Settled(t)' /\ KeyOf(t) = k

(* Mutant: the events of failures are not handled. *)
HandledUnlessFailed(k) ==
  CASE \E t \in Task : StartsLoad(t, k) /\ task'[t].kind = "initialization" ->
         "loading"
    [] \E t \in Task : StartsLoad(t, k) /\ task'[t].kind = "refresh" ->
         "refreshing"
    [] \E t \in Task : EndsLoad(t, k) /\ task'[t].pc = "resolved" -> None
    [] OTHER -> active[k]

(* Mutant: a load whose entry has left the map reports no end. *)
HandledIfMapped(k) ==
  CASE \E t \in Task : StartsLoad(t, k) /\ task'[t].kind = "initialization" ->
         "loading"
    [] \E t \in Task : StartsLoad(t, k) /\ task'[t].kind = "refresh" ->
         "refreshing"
    [] \E t \in Task : EndsLoad(t, k) /\ entries[k] = task[t].entry -> None
    [] OTHER -> active[k]

(* handle() of the events of one step; a step emits at most one event that *)
(* starts or ends a load of a key.                                         *)
Handled(k) ==
  CASE \E t \in Task : StartsLoad(t, k) /\ task'[t].kind = "initialization" ->
         "loading"
    [] \E t \in Task : StartsLoad(t, k) /\ task'[t].kind = "refresh" ->
         "refreshing"
    [] \E t \in Task : EndsLoad(t, k) -> None
    [] OTHER -> active[k]

StatusInit == Init /\ active = [k \in Key |-> None]
StatusNext ==
  \/ Running /\ active' = [k \in Key |-> Handled(k)]
  \/ Restart /\ active' = [k \in Key |-> None]
StatusSpec == StatusInit /\ [][StatusNext]_statusVars

(* The item shows a cold load or a refresh of a database exactly while one *)
(* is in flight: it is never left on, and never hidden under a running one.*)
(* This needs an owner who neither clears nor forgets: a load of an entry  *)
(* that has left the map hides, when it ends, the one that replaced it.    *)
StatusMatchesWork ==
  \A k \in Key :
    /\ active[k] \in Operation
    /\ active[k] = "loading" <=>
         \E t \in Task : /\ IsLoad(t) /\ KeyOf(t) = k
                         /\ task[t].kind = "initialization"
    /\ active[k] = "refreshing" <=>
         \E t \in Task : /\ IsLoad(t) /\ KeyOf(t) = k
                         /\ task[t].kind = "refresh"

(* The item is not left spinning: whichever load fails, and whichever is   *)
(* orphaned because its database is cleared, forgotten or used again       *)
(* meanwhile, what it shows of a key is eventually taken down.             *)
StatusComesDown ==
  \A k \in Key : active[k] # None ~> active[k] = None
=============================================================================
