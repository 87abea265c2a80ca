------------------------ MODULE LearnedEvidenceStore ------------------------
(***************************************************************************)
(* The learned evidence of one workspace folder, in memory and on disk     *)
(* (src/src/relationships/LearnedRelationshipEvidenceStore.ts).            *)
(*                                                                         *)
(* read(), update() and clear() are queued, and each runs when the one     *)
(* before it has settled.  Its awaits are the read of the file, which is   *)
(* then remembered, and the write of a whole new one, which either is      *)
(* renamed into place or fails.                                            *)
(***************************************************************************)
EXTENDS LearnedEvidence

CONSTANTS
  Texts,        \* the JOINs a saved document can have
  MaxJoins,     \* bound on their number
  MaxQueue,     \* bound on the requests waiting
  MaxRequests,  \* bound on the requests made
  None

ASSUME TextsAssumption ==
  Texts \subseteq Seq(Relationship) /\ \A t \in Texts : Len(t) <= MaxJoins
ASSUME BoundAssumption == MaxJoins \in Nat /\ MaxRequests \in Nat

VARIABLES
  file,      \* the file, as the version it says and its contents
  memory,    \* this.states: what was read or written last, if anything was
  queue,     \* the requests, the running one first
  writing,   \* whether the running request awaits its write
  requests   \* the number of requests made

vars == <<file, memory, queue, writing, requests>>

File == [version : {"none", "unknown", "1", "2"}, evidence : Evidence,
         seen : SUBSET Occurrence]
NoFile == [version |-> "none", evidence |-> NoEvidence, seen |-> {}]
Invalid == [NoFile EXCEPT !.version = "unknown"]
State == [kind : {"unread", "valid", "invalid"}, evidence : Evidence,
          seen : SUBSET Occurrence, requiresRewrite : BOOLEAN]
Request == [op : {"update"}, save : Save]
             \cup [op : {"read", "clear"}, save : {None}]

Valid(evidence, seen, rewrite) ==
  [kind |-> "valid", evidence |-> evidence, seen |-> seen,
   requiresRewrite |-> rewrite]
Empty == Valid(NoEvidence, {}, FALSE)
Unread == [Empty EXCEPT !.kind = "unread"]

(* parseLearnedRelationshipEvidence(): version 1 had no occurrences.       *)
Parsed(f) ==
  IF f.version = "unknown" THEN [Empty EXCEPT !.kind = "invalid"]
  ELSE Valid(StrongestEvidence(f.evidence), BoundSeenOccurrences(f.seen),
             f.version = "1")

Version2(evidence, seen) == [version |-> "2", evidence |-> evidence, seen |-> seen]

Bounded(s) ==
  /\ Cardinality({r \in Relationship : s.evidence[r] > 0}) <= EvidenceLimit
  /\ Cardinality(s.seen) <= OccurrenceLimit

(* Insertion orders are never reused for another occurrence, or a newer    *)
(* occurrence could be evicted before an older one.                        *)
OrdersDiffer ==
  memory # Unread =>
    \A o, p \in memory.seen : o.order = p.order => o = p

(* No JOIN is remembered as seen twice, or it would be counted for two.     *)
Keyed(seen) ==
  \A o, p \in seen :
    /\ o.document = p.document /\ o.relationship = p.relationship
    /\ o.ordinal = p.ordinal
    => o = p

(* The types, with the bounds, the insertion orders and the identities a   *)
(* ledger keeps.  A file of version 1 may hold more records: they are      *)
(* bounded when it is read.                                                *)
TypeOK ==
  /\ OrdersDiffer /\ Keyed(file.seen) /\ Keyed(memory.seen)
  /\ file \in File /\ (file.version = "2" => Bounded(file))
  /\ memory \in State /\ Bounded(memory)
  /\ queue \in Seq(Request)
  /\ writing \in BOOLEAN
  /\ requests \in 0..MaxRequests

(* A file of an earlier session, of version 1, or not of a known shape.    *)
Init ==
  /\ \/ file \in {NoFile, Invalid}
     \/ \E e \in [Relationship -> 0..1] :
          file = [version |-> "1", evidence |-> e, seen |-> {}]
  /\ memory = Unread
  /\ queue = <<>>
  /\ writing = FALSE
  /\ requests = 0

-----------------------------------------------------------------------------
Requests ==
  /\ Len(queue) < MaxQueue /\ requests < MaxRequests
  /\ \/ \E op \in {"read", "clear"} :
          queue' = Append(queue, [op |-> op, save |-> None])
     \/ \E d \in Document, joins \in Texts, known \in SUBSET Relationship :
          queue' = Append(queue, [op |-> "update", save |->
            [document |-> d, joins |-> joins, known |-> known]])
  /\ requests' = requests + 1
  /\ UNCHANGED <<file, memory, writing>>

Running(op) == queue # <<>> /\ Head(queue).op = op /\ ~writing

(* The running request settles, and the next one starts.                   *)
Settles == queue' = Tail(queue) /\ writing' = FALSE /\ UNCHANGED requests

(* load(): the file is read once and remembered, valid or not.             *)
Load ==
  /\ Running("read") \/ Running("update")
  /\ memory = Unread
  /\ memory' = Parsed(file)
  /\ UNCHANGED <<file, queue, writing, requests>>

LoadFails ==
  /\ Running("read") \/ Running("update")
  /\ memory = Unread
  /\ Settles
  /\ UNCHANGED <<file, memory>>

Read ==
  /\ Running("read") /\ memory # Unread
  /\ Settles
  /\ UNCHANGED <<file, memory>>

Updated(state, save) ==
  Valid(EvidenceAfter(state.evidence, state.seen, save),
        SeenAfter(state.seen, save), FALSE)

(* update() without a write: the file is not ours, or says this already.   *)
UnwrittenIfSame(state, save) == Updated(state, save) = state
Unwritten(state, save) ==
  state.kind = "invalid" \/ Updated(state, save) = state
UpdateNothing ==
  /\ Running("update") /\ memory # Unread
  /\ Unwritten(memory, Head(queue).save)
  /\ Settles
  /\ UNCHANGED <<file, memory>>

StartWrite ==
  /\ Running("update") /\ memory # Unread
  /\ ~Unwritten(memory, Head(queue).save)
  /\ writing' = TRUE
  /\ UNCHANGED <<file, memory, queue, requests>>

(* The new file replaces the old one; only then is it remembered.          *)
Written ==
  /\ writing
  /\ LET new == Updated(memory, Head(queue).save) IN
       /\ file' = Version2(new.evidence, new.seen)
       /\ memory' = new
  /\ Settles

WriteFailsRemembered ==
  /\ writing
  /\ memory' = Updated(memory, Head(queue).save)
  /\ Settles
  /\ UNCHANGED file
WriteFailsRetried ==
  /\ writing
  /\ writing' = FALSE
  /\ UNCHANGED <<file, memory, queue, requests>>
WriteFails ==
  /\ writing
  /\ Settles
  /\ UNCHANGED <<file, memory>>

Clear ==
  /\ Running("clear")
  /\ file' = NoFile /\ memory' = Empty
  /\ Settles

ClearFails ==
  /\ Running("clear")
  /\ Settles
  /\ UNCHANGED <<file, memory>>

(* The window is reloaded.                                                 *)
Restart ==
  /\ memory' = Unread /\ queue' = <<>> /\ writing' = FALSE
  /\ UNCHANGED <<file, requests>>

Serves ==
  \/ Load \/ LoadFails \/ Read \/ UpdateNothing \/ StartWrite
  \/ Written \/ WriteFails \/ Clear \/ ClearFails
Next == Requests \/ Serves \/ Restart

Spec == Init /\ [][Next]_vars

(* File operations come back.                                              *)
FairSpec == Spec /\ WF_vars(Serves)

-----------------------------------------------------------------------------
(* Properties                                                              *)

(* What is remembered is what a new session would read, whatever writes,   *)
(* reads and unlinks failed: no observation is kept that is not on disk.   *)
MemoryIsFile == memory # Unread => memory = Parsed(file)

(* A seen occurrence has been counted, and still is: while no record was   *)
(* evicted, a relationship is counted at least once for every JOIN of it   *)
(* that is remembered as seen.                                             *)
SeenIsCounted ==
  memory # Unread => \A r \in Relationship :
    memory.evidence[r] >= Cardinality({o \in memory.seen : o.relationship = r})

(* A file this version cannot read stays as it is until it is cleared.     *)
InvalidIsKept == [][file = Invalid => file' = Invalid \/ Clear]_vars

(* A request that fails does not keep the ones behind it from being served.*)
QueueDrains == queue # <<>> ~> queue = <<>>

(* The store implements the ledger: a save counts the JOINs its document   *)
(* has gained since it was last observed, once, as long as no marker had   *)
(* to be evicted and every relationship has a record.                      *)
Marks(seen) == {<<o.document, o.relationship, o.ordinal + 1>> : o \in seen}
Ledger == INSTANCE LearnedLedger WITH
  Limit <- OccurrenceLimit,
  count <- Parsed(file).evidence,
  marked <- Marks(Parsed(file).seen)
LedgerSpec == Ledger!Spec
=============================================================================
