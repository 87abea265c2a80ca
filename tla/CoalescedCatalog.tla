------------------------- MODULE CoalescedCatalog -------------------------
(***************************************************************************)
(* What the schema cache promises about one window's use of a database, as *)
(* docs/ARCHITECTURE.md states its lifecycle: at most one load per cache   *)
(* identity at a time; a session shows nothing but a persisted snapshot or *)
(* the answer of a load; a refresh is persisted before it is shown and,    *)
(* when it fails, leaves what is shown and what is stored alone; nothing   *)
(* is ever replaced by something older.                                    *)
(***************************************************************************)
EXTENDS Naturals

CONSTANTS Key, MaxCatalog, None

VARIABLES
  shown,    \* what a session sees of each key
  stored,   \* the persisted snapshot of each key
  load,     \* the load in flight: {} or one record
  catalog   \* the version a query is answered with

vars == <<shown, stored, load, catalog>>

Asked == [pc |-> "loading", index |-> None]
Got(v) == [pc |-> "saving", index |-> v]
Kept(v) == [pc |-> "saved", index |-> v]
NotOlder(v, old) == old = None \/ v >= old

Init ==
  /\ shown = [k \in Key |-> None]
  /\ stored \in [Key -> {0, None}]
  /\ load = [k \in Key |-> {}]
  /\ catalog = 0

(* A load starts, showing the persisted snapshot meanwhile if there is one.*)
Ask(k) ==
  /\ load[k] = {}
  /\ load' = [load EXCEPT ![k] = {Asked}]
  /\ \/ shown' = shown
     \/ /\ shown[k] = None /\ stored[k] # None
        /\ shown' = [shown EXCEPT ![k] = stored[k]]
  /\ UNCHANGED <<stored, catalog>>

Answer(k) ==
  /\ load[k] = {Asked}
  /\ load' = [load EXCEPT ![k] = {Got(catalog)}]
  /\ UNCHANGED <<shown, stored, catalog>>

Store(k) ==
  \E v \in 0..MaxCatalog :
    /\ load[k] = {Got(v)}
    /\ NotOlder(v, stored[k])
    /\ stored' = [stored EXCEPT ![k] = v]
    /\ load' = [load EXCEPT ![k] = {Kept(v)}]
    /\ UNCHANGED <<shown, catalog>>

(* Only the first answer of a session may be shown without being stored.   *)
Show(k) ==
  \E v \in 0..MaxCatalog :
    /\ load[k] = {Kept(v)} \/ (load[k] = {Got(v)} /\ shown[k] = None)
    /\ NotOlder(v, shown[k])
    /\ shown' = [shown EXCEPT ![k] = v]
    /\ load' = [load EXCEPT ![k] = {}]
    /\ UNCHANGED <<stored, catalog>>

Abandon(k) ==
  /\ load[k] # {}
  /\ load' = [load EXCEPT ![k] = {}]
  /\ UNCHANGED <<shown, stored, catalog>>

SchemaChanges ==
  /\ catalog < MaxCatalog
  /\ catalog' = catalog + 1
  /\ UNCHANGED <<shown, stored, load>>

Restart ==
  /\ shown' = [k \in Key |-> None]
  /\ load' = [k \in Key |-> {}]
  /\ UNCHANGED <<stored, catalog>>

Next ==
  \/ \E k \in Key : Ask(k) \/ Answer(k) \/ Store(k) \/ Show(k) \/ Abandon(k)
  \/ SchemaChanges \/ Restart

Spec == Init /\ [][Next]_vars
=============================================================================
