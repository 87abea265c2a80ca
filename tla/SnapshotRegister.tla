-------------------------- MODULE SnapshotRegister --------------------------
(***************************************************************************)
(* What docs/ARCHITECTURE.md promises of a persisted snapshot: a file that *)
(* is replaced atomically, and counts as missing when it is not usable.    *)
(* "recoverable" is what may be left of it when the machine stops.         *)
(***************************************************************************)
CONSTANTS Operation, Snapshot, None

VARIABLES file, recoverable, call

vars == <<file, recoverable, call>>

Idle == [purpose |-> "idle", snapshot |-> None]
Call == [purpose : {"load", "delete"}, snapshot : {None}]
          \cup [purpose : {"save"}, snapshot : Snapshot]

Init ==
  /\ file \in Snapshot \cup {None}
  /\ recoverable = {file}
  /\ call = [o \in Operation |-> Idle]

Begins(o) ==
  /\ call[o] = Idle
  /\ \E c \in Call : call' = [call EXCEPT ![o] = c]
  /\ UNCHANGED <<file, recoverable>>

Becomes(s) ==
  /\ file' = s
  /\ recoverable' = recoverable \cup {s}

(* A call ends, having had its effect or not.                              *)
Ends(o) ==
  /\ call[o] # Idle
  /\ call' = [call EXCEPT ![o] = Idle]
  /\ \/ call[o].purpose = "save" /\ Becomes(call[o].snapshot)
     \/ call[o].purpose \in {"load", "delete"} /\ Becomes(None)
     \/ UNCHANGED <<file, recoverable>>

(* The calls of an editor window end without effect.                       *)
Abandoned ==
  /\ \E gone \in SUBSET Operation :
       call' = [o \in Operation |-> IF o \in gone THEN Idle ELSE call[o]]
  /\ UNCHANGED <<file, recoverable>>

MachineStops ==
  /\ call' = [o \in Operation |-> Idle]
  /\ file' \in recoverable
  /\ recoverable' = {file'}

Next ==
  \/ \E o \in Operation : Begins(o) \/ Ends(o)
  \/ Abandoned \/ MachineStops

Spec == Init /\ [][Next]_vars
=============================================================================
