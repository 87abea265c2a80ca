--------------------------- MODULE SnapshotStore ---------------------------
(***************************************************************************)
(* The persisted snapshots on disk (FileMetadataSnapshotStore of           *)
(* src/src/metadata/PersistentMetadataStore.ts).                           *)
(*                                                                         *)
(* Every window of the editor runs a store of its own over one directory.  *)
(* A database has one path there; paths do not interact, so the module is  *)
(* about one.  MetadataCache takes a save, a load and a delete for single  *)
(* steps; here each is the file operations it awaits, interleaved with     *)
(* those of other calls and windows, any of which may fail, and cut short  *)
(* by the end of a window or of the machine.                               *)
(***************************************************************************)
EXTENDS Naturals, FiniteSets

CONSTANTS
  Window,    \* extension hosts sharing the directory
  Operation, \* calls to load(), save() and delete()
  Name,      \* names of temporary files: randomUUID() never repeats one
  Snapshot,  \* complete envelopes
  Invalid,   \* a file whose text is not an envelope of this database
  Partial,   \* a file whose text is not all on disk
  None

ASSUME ContentAssumption ==
  /\ Invalid \notin Snapshot /\ Partial \notin Snapshot /\ None \notin Snapshot
  /\ Invalid # Partial /\ Invalid # None /\ Partial # None
ASSUME NameAssumption == None \notin Name

VARIABLES
  published,   \* what the path holds
  recoverable, \* what it may hold after the machine stops
  temporary,   \* what each temporary file holds
  flushed,     \* the temporary files whose text is on disk
  operation    \* the calls in progress

vars == <<published, recoverable, temporary, flushed, operation>>

Content == Snapshot \cup {Invalid, Partial}

Idle == [pc |-> "idle", window |-> None, snapshot |-> None, name |-> None,
         complete |-> FALSE]
(* Mutant: the call does not keep what it is to save. *)
BegunUnset(pc, w, s) == [Idle EXCEPT !.pc = pc, !.window = w]
Begun(pc, w, s) ==
  [pc |-> pc, window |-> w, snapshot |-> s, name |-> None, complete |-> FALSE]

Purpose(pc) ==
  CASE pc \in {"opening", "writing", "flushing", "closing", "renaming",
               "unlinking"} -> "save"
    [] pc \in {"reading", "discarding"} -> "load"
    [] pc = "deleting" -> "delete"
    [] OTHER -> "idle"

Progress ==
  [pc : {"idle", "opening", "writing", "flushing", "closing", "renaming",
         "unlinking", "reading", "discarding", "deleting"},
   window : Window \cup {None}, snapshot : Snapshot \cup {None},
   name : Name \cup {None}, complete : BOOLEAN]

TypeOK ==
  /\ published \in Content \cup {None}
  /\ recoverable \subseteq Content \cup {None}
  /\ temporary \in [Name -> Content \cup {None}]
  /\ flushed \subseteq Name
  /\ operation \in [Operation -> Progress]
  /\ \A o \in Operation : LET p == operation[o] IN
       /\ p.snapshot \in Snapshot <=> Purpose(p.pc) = "save"
       /\ p.name \in Name <=> Purpose(p.pc) = "save" /\ p.pc # "opening"

(* The file of an earlier session: absent, usable, or of another version.  *)
Init ==
  /\ published \in Snapshot \cup {None, Invalid}
  /\ recoverable = {published}
  /\ temporary = [n \in Name |-> None]
  /\ flushed = {}
  /\ operation = [o \in Operation |-> Idle]

-----------------------------------------------------------------------------
At(o, pc) == operation[o].pc = pc
Goes(o, pc) == operation' = [operation EXCEPT ![o].pc = pc]
Settles(o) == operation' = [operation EXCEPT ![o] = Idle]
KeepsPath == UNCHANGED <<published, recoverable>>
KeepsFiles == UNCHANGED <<temporary, flushed>>

(* The directory entry changes at once; a stopped machine may undo it, or  *)
(* lose the text of a file that was not flushed.                           *)
Publishes(c, onDisk) ==
  /\ published' = c
  /\ recoverable' = recoverable \cup {c} \cup (IF onDisk THEN {} ELSE {Partial})

Starts(o, w) ==
  /\ At(o, "idle")
  /\ \/ \E s \in Snapshot :
          operation' = [operation EXCEPT ![o] = Begun("opening", w, s)]
     \/ \E pc \in {"reading", "deleting"} :
          operation' = [operation EXCEPT ![o] = Begun(pc, w, None)]
  /\ KeepsPath /\ KeepsFiles

(* save(): mkdir and open a new temporary file.                            *)
Open(o) ==
  /\ At(o, "opening")
  /\ \E n \in Name :
       /\ temporary[n] = None
       /\ temporary' = [temporary EXCEPT ![n] = Partial]
       /\ operation' =
            [operation EXCEPT ![o].pc = "writing", ![o].name = n]
  /\ UNCHANGED flushed /\ KeepsPath

OpenFails(o) == At(o, "opening") /\ Settles(o) /\ KeepsPath /\ KeepsFiles

(* Mutant: the text goes straight to the path. *)
WriteInPlace(o) ==
  /\ At(o, "writing")
  /\ temporary' = [temporary EXCEPT ![operation[o].name] = operation[o].snapshot]
  /\ Publishes(Partial, TRUE)
  /\ Goes(o, "flushing")
  /\ UNCHANGED flushed

Write(o) ==
  /\ At(o, "writing")
  /\ temporary' = [temporary EXCEPT ![operation[o].name] = operation[o].snapshot]
  /\ Goes(o, "flushing")
  /\ UNCHANGED flushed /\ KeepsPath

(* Mutant: handle.sync() is left out. *)
FlushOmitted(o) ==
  /\ At(o, "flushing")
  /\ operation' =
       [operation EXCEPT ![o].pc = "closing", ![o].complete = TRUE]
  /\ KeepsPath /\ KeepsFiles

Flush(o) ==
  /\ At(o, "flushing")
  /\ flushed' = flushed \cup {operation[o].name}
  /\ operation' =
       [operation EXCEPT ![o].pc = "closing", ![o].complete = TRUE]
  /\ UNCHANGED temporary /\ KeepsPath

(* The finally block runs whether or not the text was written and flushed. *)
WriteOrFlushFails(o) ==
  /\ At(o, "writing") \/ At(o, "flushing")
  /\ Goes(o, "closing")
  /\ KeepsPath /\ KeepsFiles

Close(o) ==
  /\ At(o, "closing")
  /\ Goes(o, IF operation[o].complete THEN "renaming" ELSE "unlinking")
  /\ KeepsPath /\ KeepsFiles

(* A close that fails skips the unlink.                                    *)
CloseFails(o) == At(o, "closing") /\ Settles(o) /\ KeepsPath /\ KeepsFiles

Removed(n) ==
  /\ temporary' = [temporary EXCEPT ![n] = None]
  /\ flushed' = flushed \ {n}

Rename(o) ==
  /\ At(o, "renaming")
  /\ LET n == operation[o].name IN Publishes(temporary[n], n \in flushed)
  /\ Removed(operation[o].name)
  /\ Settles(o)

RenameFails(o) ==
  At(o, "renaming") /\ Goes(o, "unlinking") /\ KeepsPath /\ KeepsFiles

(* Removing the temporary file of a failed save; its failure is ignored.   *)
Unlink(o) ==
  /\ At(o, "unlinking")
  /\ Removed(operation[o].name) \/ KeepsFiles
  /\ Settles(o) /\ KeepsPath

(* load(): a file that cannot be read is a miss, a usable one a hit.       *)
Read(o) ==
  /\ At(o, "reading")
  /\ \/ published \in Snapshot \cup {None} /\ Settles(o)
     \/ published \in {Invalid, Partial} /\ Goes(o, "discarding")
     \/ Settles(o)
  /\ KeepsPath /\ KeepsFiles

(* Mutant: load() reads again until nothing invalid is left. *)
DeleteAgain(o) ==
  /\ At(o, "deleting") \/ At(o, "discarding")
  /\ \/ Publishes(None, TRUE) /\ Settles(o)
     \/ At(o, "deleting") /\ KeepsPath /\ Settles(o)
     \/ At(o, "discarding") /\ KeepsPath /\ Goes(o, "reading")
  /\ KeepsFiles

(* delete(), alone or of a file that was found invalid: whatever is at the *)
(* path by now goes, or the unlink fails.                                  *)
Delete(o) ==
  /\ At(o, "deleting") \/ At(o, "discarding")
  /\ Publishes(None, TRUE) \/ KeepsPath
  /\ Settles(o) /\ KeepsFiles

(* A window ends, with its calls where they are.                           *)
WindowEnds(w) ==
  /\ operation' = [o \in Operation |->
       IF operation[o].window = w THEN Idle ELSE operation[o]]
  /\ KeepsPath /\ KeepsFiles

(* The machine stops: what was not flushed is lost.                        *)
MachineStops ==
  /\ operation' = [o \in Operation |-> Idle]
  /\ published' \in recoverable
  /\ recoverable' = {published'}
  /\ temporary' = [n \in Name |->
       IF temporary[n] # None /\ n \notin flushed THEN Partial ELSE temporary[n]]
  /\ UNCHANGED flushed

Steps(o) ==
  \/ Open(o) \/ OpenFails(o) \/ Write(o) \/ Flush(o) \/ WriteOrFlushFails(o)
  \/ Close(o) \/ CloseFails(o) \/ Rename(o) \/ RenameFails(o) \/ Unlink(o)
  \/ Read(o) \/ Delete(o)

Next ==
  \/ \E o \in Operation : Steps(o) \/ \E w \in Window : Starts(o, w)
  \/ \E w \in Window : WindowEnds(w)
  \/ MachineStops

Spec == Init /\ [][Next]_vars

(* File operations come back; nothing else is owed.                        *)
FairSpec == Spec /\ \A o \in Operation : WF_vars(Steps(o))

-----------------------------------------------------------------------------
(* Properties                                                              *)

(* Nobody reads half a snapshot, whatever fails, ends or stops meanwhile:  *)
(* the path holds, and would hold after the machine stops, nothing or a    *)
(* file that was written to its end.                                       *)
PublishedIsWhole == Partial \notin {published} \cup recoverable

(* A save renames what it wrote itself: no other save of the database, of  *)
(* this window or another, writes to its temporary file.                   *)
RenamesItsOwn ==
  \A o \in Operation :
    At(o, "renaming") =>
      temporary[operation[o].name] = operation[o].snapshot

(* Every call returns, rejects or ends with its window.                    *)
OperationsEnd == \A o \in Operation : ~At(o, "idle") ~> At(o, "idle")

-----------------------------------------------------------------------------
(* The register the cache takes the store for: see SnapshotRegister.       *)
Usable(c) == IF c \in Snapshot THEN c ELSE None

kept == {Usable(c) : c \in recoverable}
Called(p) == [purpose |-> Purpose(p.pc), snapshot |-> p.snapshot]
calls == [o \in Operation |-> Called(operation[o])]

Register == INSTANCE SnapshotRegister WITH
  file <- Usable(published), recoverable <- kept, call <- calls

(* A save replaces the usable snapshot by its own in one step or not at    *)
(* all, and only a delete or a load that misses takes it away.             *)
RegisterSpec == Register!Spec
=============================================================================
