----------------------- MODULE MetadataCacheHistory -----------------------
(***************************************************************************)
(* The schema cache with its status bar item, observed over time: two      *)
(* history variables record what the properties below must remember.  They *)
(* never guard a step.                                                     *)
(***************************************************************************)
EXTENDS MetadataLifecycleStatus

VARIABLES
  cleared,   \* how far a clear of each key has come that nobody disturbed
  spent      \* entries attempted since an interval last elapsed

historyVars == <<statusVars, cleared, spent>>

Begins(t) == ~IsLoad(t) /\ task'[t].pc = "loading"
Succeeds(t) == IsLoad(t) /\ task'[t].pc = "resolved"

(* A call that uses the database: it has or gets an entry, or joins its    *)
(* work.                                                                   *)
UseStarts(k) ==
  \/ UseSnapshot(k)
  \/ \E c \in Caller :
       \/ RefreshNow(c, k)
       \/ \E op \in {"ensure", "refresh"} :
            JoinInitialization(c, op, k) \/ StartInitialization(c, op, k)
ColdLoadStarts(k) ==
  \E t \in Task :
    Begins(t) /\ KeyOf(t)' = k /\ task'[t].kind = "initialization"

(* A clear that nobody uses the database beside ends with it cleared, and  *)
(* it stays so until a cold load.                                          *)
Cleared(k) ==
  CASE \E c \in Caller : ClearDatabase(c, k) -> "clearing"
    [] cleared[k] = "clearing" /\ UseStarts(k) -> "used"
    [] /\ cleared[k] = "clearing"
       /\ \E c \in Caller : caller[c].key = k /\ ClearFile(c) -> "cleared"
    [] ColdLoadStarts(k) -> "used"
    [] OTHER -> cleared[k]

HistoryInit ==
  /\ StatusInit
  /\ cleared = [k \in Key |-> "used"]
  /\ spent = [e \in Entry |-> FALSE]

HistoryNext ==
  /\ StatusNext
  /\ cleared' = [k \in Key |-> Cleared(k)]
  /\ spent' = [e \in Entry |->
       \/ \E t \in Task :
            \/ Begins(t) /\ task'[t].entry = e
            \/ Succeeds(t) /\ task[t].entry = e
       \/ /\ spent[e] /\ Referenced(e) /\ ~Restart
          /\ ~\E k \in Key : entries[k] = e /\ Elapse(k)]

HistorySpec == HistoryInit /\ [][HistoryNext]_historyVars

(* After Clear Schema Cache reports success, the next use of the database  *)
(* performs a cold load (the confirmation text of clearMetadataCache), if  *)
(* nobody used the database while it was cleared.                          *)
ClearMeansColdLoad ==
  [][\A t \in Task :
       Hydrate(t) /\ entries[KeyOf(t)] = task[t].entry =>
         cleared[KeyOf(t)] # "cleared"]_historyVars

(* A background refresh starts only when the interval has elapsed since    *)
(* the entry's last attempt began and since its last success: a failed     *)
(* refresh is not retried by the next use.                                 *)
RefreshIsPaced ==
  [][\A k \in Key : UseSnapshot(k) => ~spent[entries[k]]]_historyVars
=============================================================================
