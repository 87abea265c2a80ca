----------------------- MODULE LearnedEvidenceProofs -----------------------
(***************************************************************************)
(* Proofs about LearnedEvidenceStore: what is remembered is what is on     *)
(* disk, an unreadable file is kept, what is kept stays in its bounds, and *)
(* the store implements LearnedLedger, for any documents, relationships,   *)
(* limits and number of requests.                                          *)
(***************************************************************************)
EXTENDS LearnedEvidenceStore, FiniteSetTheorems, TLAPS

(* The strongest evidence consists of counts.                              *)
LEMMA StrongestType ==
  ASSUME NEW e \in Evidence
  PROVE  StrongestEvidence(e) \in Evidence
BY DEF StrongestEvidence, Evidence

(* Evidence that was bounded once is not changed by bounding it again: the *)
(* parser bounds what the writer has bounded already.                      *)
LEMMA StrongestOnce ==
  ASSUME NEW e \in Evidence
  PROVE  StrongestEvidence(StrongestEvidence(e)) = StrongestEvidence(e)
<1> DEFINE k == StrongestEvidence(e)
           above(f, r) == {s \in Relationship : Stronger(f, s, r)}
<1>1. k \in Evidence
  BY StrongestType
<1>2. ASSUME NEW r \in Relationship
      PROVE  StrongestEvidence(k)[r] = k[r]
  <2>1. CASE Cardinality(above(e, r)) < EvidenceLimit
    <3>1. k[r] = e[r]
      BY <2>1 DEF StrongestEvidence
    <3>2. ASSUME NEW s \in above(k, r)
          PROVE  s \in above(e, r)
      <4>1. s \in Relationship /\ Stronger(k, s, r)
        BY <3>2
      <4>2. k[s] = e[s] \/ k[s] = 0
        BY <4>1 DEF StrongestEvidence
      <4>3. e[s] \in Nat /\ e[r] \in Nat
        BY <4>1 DEF Evidence
      <4>4. Stronger(e, s, r)
        BY <3>1, <4>1, <4>2, <4>3, IdentityAssumption DEF Stronger
      <4> QED BY <4>1, <4>4
    <3>3. IsFiniteSet(above(e, r)) /\ IsFiniteSet(above(k, r))
      BY FS_Subset, IdentityAssumption
    <3>4. Cardinality(above(k, r)) <= Cardinality(above(e, r))
      BY <3>2, <3>3, FS_Subset
    <3>5. Cardinality(above(k, r)) \in Nat /\ Cardinality(above(e, r)) \in Nat
      BY <3>3, FS_CardinalityType
    <3>6. Cardinality(above(k, r)) < EvidenceLimit
      BY <2>1, <3>4, <3>5, LimitAssumption
    <3> QED BY <3>6 DEF StrongestEvidence
  <2>2. CASE ~(Cardinality(above(e, r)) < EvidenceLimit)
    <3>1. k[r] = 0
      BY <2>2 DEF StrongestEvidence
    <3>2. StrongestEvidence(k)[r] = k[r] \/ StrongestEvidence(k)[r] = 0
      BY DEF StrongestEvidence
    <3> QED BY <3>1, <3>2
  <2> QED BY <2>1, <2>2
<1>3. StrongestEvidence(k) \in Evidence
  BY <1>1, StrongestType
<1> QED BY <1>1, <1>2, <1>3 DEF Evidence

(* Nor are occurrences.                                                    *)
LEMMA BoundSeenOnce ==
  ASSUME NEW seen, IsFiniteSet(seen)
  PROVE  /\ IsFiniteSet(BoundSeenOccurrences(seen))
         /\ BoundSeenOccurrences(BoundSeenOccurrences(seen)) = BoundSeenOccurrences(seen)
<1> DEFINE k == BoundSeenOccurrences(seen)
           above(t, o) == {p \in t : Newer(p, o)}
<1>1. k \subseteq seen
  BY DEF BoundSeenOccurrences
<1>2. IsFiniteSet(k)
  BY <1>1, FS_Subset
<1>3. ASSUME NEW o \in k
      PROVE  o \in BoundSeenOccurrences(k)
  <2>1. above(k, o) \subseteq above(seen, o)
    BY <1>1
  <2>2. IsFiniteSet(above(seen, o))
    BY FS_Subset
  <2>3. Cardinality(above(k, o)) <= Cardinality(above(seen, o))
    BY <2>1, <2>2, FS_Subset
  <2>4. Cardinality(above(k, o)) \in Nat /\ Cardinality(above(seen, o)) \in Nat
    BY <2>1, <2>2, FS_Subset, FS_CardinalityType
  <2>5. Cardinality(above(seen, o)) < OccurrenceLimit
    BY DEF BoundSeenOccurrences
  <2>6. Cardinality(above(k, o)) < OccurrenceLimit
    BY <2>3, <2>4, <2>5, LimitAssumption
  <2> QED BY <2>6 DEF BoundSeenOccurrences
<1>4. BoundSeenOccurrences(k) \subseteq k
  BY DEF BoundSeenOccurrences
<1> QED BY <1>2, <1>3, <1>4

(* One save leaves counts and finitely many occurrences, both bounded.     *)
LEMMA SaveType ==
  ASSUME NEW evidence \in Evidence, NEW seen, IsFiniteSet(seen),
         NEW save \in Save
  PROVE  /\ EvidenceAfter(evidence, seen, save) \in Evidence
         /\ StrongestEvidence(EvidenceAfter(evidence, seen, save))
              = EvidenceAfter(evidence, seen, save)
         /\ IsFiniteSet(SeenAfter(seen, save))
         /\ BoundSeenOccurrences(SeenAfter(seen, save)) = SeenAfter(seen, save)
<1>1. IsFiniteSet(DOMAIN save.joins)
  <2>1. DOMAIN save.joins = 1..Len(save.joins) /\ Len(save.joins) \in Nat
    BY DEF Save
  <2> QED BY <2>1, FS_Interval
<1>2. IsFiniteSet(Observed(save))
  BY <1>1, FS_Subset DEF Observed
<1>3. \A r \in Relationship :
        Cardinality({i \in Fresh(seen, save) : save.joins[i] = r}) \in Nat
  <2> TAKE r \in Relationship
  <2>1. {i \in Fresh(seen, save) : save.joins[i] = r} \subseteq Observed(save)
    BY DEF Fresh
  <2> QED BY <1>2, <2>1, FS_Subset, FS_CardinalityType
<1>4. PICK counts \in Evidence :
        EvidenceAfter(evidence, seen, save) = StrongestEvidence(counts)
  <2> DEFINE counts == [r \in Relationship |->
        IF r \in Removals(save) THEN 0
        ELSE evidence[r] + Cardinality({i \in Fresh(seen, save) : save.joins[i] = r})]
  <2>1. counts \in Evidence
    BY <1>3 DEF Evidence
  <2> QED BY <2>1 DEF EvidenceAfter
<1>5. PICK occurrences :
        /\ IsFiniteSet(occurrences)
        /\ SeenAfter(seen, save) = BoundSeenOccurrences(occurrences)
  <2> DEFINE others == {o \in seen :
               o.document # save.document /\ o.relationship \notin Removals(save)}
             here == [i \in Observed(save) |->
               [document |-> save.document, relationship |-> save.joins[i],
                ordinal |-> Ordinal(save, i), order |-> OrderOf(seen, save, i)]]
             now == {here[i] : i \in Observed(save)}
  <2>1. IsFiniteSet(others)
    BY FS_Subset
  <2>2. here \in Surjection(Observed(save), now)
    BY DEF Surjection
  <2>3. IsFiniteSet(now)
    BY <1>2, <2>2, FS_Surjection
  <2>4. IsFiniteSet(others \cup now)
    BY <2>1, <2>3, FS_Union
  <2>5. now = {[document |-> save.document, relationship |-> save.joins[i],
                ordinal |-> Ordinal(save, i), order |-> OrderOf(seen, save, i)] :
                  i \in Observed(save)}
    OBVIOUS
  <2> QED BY <2>4, <2>5 DEF SeenAfter
<1> QED BY <1>4, <1>5, StrongestType, StrongestOnce, BoundSeenOnce

-----------------------------------------------------------------------------
(* Without an eviction of evidence, which needs more relationships than    *)
(* EvidenceLimit, the counts keep up with the occurrences.                 *)
CountedSeen(evidence, seen) ==
  \A r \in Relationship :
    evidence[r] >= Cardinality({o \in seen : o.relationship = r})

Formed(seen) ==
  \A o \in seen : o = [document |-> o.document, relationship |-> o.relationship,
                      ordinal |-> o.ordinal, order |-> o.order]

(* Everything is among the strongest if there is room for everything.      *)
LEMMA AllAreStrongest ==
  ASSUME Cardinality(Relationship) <= EvidenceLimit, NEW e \in Evidence
  PROVE  StrongestEvidence(e) = e
<1>1. ASSUME NEW r \in Relationship
      PROVE  Cardinality({s \in Relationship : Stronger(e, s, r)}) < EvidenceLimit
  <2> DEFINE above == {s \in Relationship : Stronger(e, s, r)}
             others == Relationship \ {r}
  <2>1. r \notin above
    BY IdentityAssumption DEF Stronger, Evidence
  <2>2. above \subseteq others
    BY <2>1
  <2>3. IsFiniteSet(others) /\ Cardinality(others) = Cardinality(Relationship) - 1
    BY IdentityAssumption, FS_RemoveElement
  <2>4. Cardinality(above) <= Cardinality(others) /\ IsFiniteSet(above)
    BY <2>2, <2>3, FS_Subset
  <2>5. Cardinality(above) \in Nat /\ Cardinality(Relationship) \in Nat
    BY <2>4, IdentityAssumption, FS_CardinalityType
  <2> QED BY <2>3, <2>4, <2>5, LimitAssumption
<1> QED BY <1>1 DEF StrongestEvidence, Evidence

(* Forgetting occurrences cannot make them outnumber the count.            *)
LEMMA FewerAreCounted ==
  ASSUME NEW e \in Evidence, NEW seen, IsFiniteSet(seen), CountedSeen(e, seen),
         NEW fewer \in SUBSET seen
  PROVE  CountedSeen(e, fewer)
<1> SUFFICES ASSUME NEW r \in Relationship
             PROVE  e[r] >= Cardinality({o \in fewer : o.relationship = r})
  BY DEF CountedSeen
<1> DEFINE of(t) == {o \in t : o.relationship = r}
<1>1. IsFiniteSet(of(seen)) /\ of(fewer) \subseteq of(seen)
  BY FS_Subset
<1>2. IsFiniteSet(of(fewer)) /\ Cardinality(of(fewer)) <= Cardinality(of(seen))
  BY <1>1, FS_Subset
<1>3. Cardinality(of(fewer)) \in Nat /\ Cardinality(of(seen)) \in Nat /\ e[r] \in Nat
  BY <1>1, <1>2, FS_CardinalityType DEF Evidence
<1>4. e[r] >= Cardinality(of(seen))
  BY DEF CountedSeen
<1> QED BY <1>2, <1>3, <1>4

(* A save adds as much to a count as it adds occurrences.                  *)
LEMMA SaveCounts ==
  ASSUME Cardinality(Relationship) <= EvidenceLimit,
         NEW evidence \in Evidence, NEW seen, IsFiniteSet(seen),
         NEW save \in Save, Formed(seen), CountedSeen(evidence, seen)
  PROVE  /\ Formed(SeenAfter(seen, save))
         /\ CountedSeen(EvidenceAfter(evidence, seen, save), SeenAfter(seen, save))
<1> DEFINE after == SeenAfter(seen, save)
           new(i) == [document |-> save.document, relationship |-> save.joins[i],
                      ordinal |-> Ordinal(save, i), order |-> OrderOf(seen, save, i)]
           counts == EvidenceAfter(evidence, seen, save)
<1>1. after \subseteq
        {o \in seen : o.document # save.document /\ o.relationship \notin Removals(save)}
          \cup {new(i) : i \in Observed(save)}
  BY DEF SeenAfter, BoundSeenOccurrences
<1>2. Formed(after)
  BY <1>1 DEF Formed
<1>3. ASSUME NEW i \in Observed(save), i \notin Fresh(seen, save)
      PROVE  new(i) \in seen
  <2>1. \E o \in seen : IsOccurrence(o, save, i)
    BY <1>3 DEF Fresh
  <2> DEFINE old == CHOOSE o \in seen : IsOccurrence(o, save, i)
  <2>2. old \in seen /\ IsOccurrence(old, save, i)
    BY <2>1
  <2>3. OrderOf(seen, save, i) = old.order
    BY <1>3 DEF OrderOf
  <2>4. new(i) = [document |-> old.document, relationship |-> old.relationship,
                  ordinal |-> old.ordinal, order |-> old.order]
    BY <2>2, <2>3 DEF IsOccurrence
  <2> HIDE DEF old
  <2>5. new(i) = old
    BY <2>2, <2>4 DEF Formed
  <2> QED BY <2>2, <2>5
<1>4. IsFiniteSet(after) /\ counts \in Evidence
  BY SaveType
<1>5. ASSUME NEW r \in Relationship
      PROVE  counts[r] >= Cardinality({o \in after : o.relationship = r})
  <2> DEFINE old == {o \in seen : o.relationship = r}
             added == {i \in Fresh(seen, save) : save.joins[i] = r}
             image == [i \in added |-> new(i)]
             gained == {image[i] : i \in added}
             here == {o \in after : o.relationship = r}
  <2>1. IsFiniteSet(added)
    <3>1. DOMAIN save.joins = 1..Len(save.joins) /\ Len(save.joins) \in Nat
      BY DEF Save
    <3>2. IsFiniteSet(DOMAIN save.joins)
      BY <3>1, FS_Interval
    <3> QED BY <3>2, FS_Subset DEF Fresh, Observed
  <2>2. IsFiniteSet(gained) /\ Cardinality(gained) <= Cardinality(added)
    <3>1. image \in Surjection(added, gained)
      BY DEF Surjection
    <3> QED BY <2>1, <3>1, FS_Surjection
  <2>3. IsFiniteSet(old) /\ IsFiniteSet(here)
    BY <1>4, FS_Subset
  <2>4. counts[r] = IF r \in Removals(save) THEN 0
                    ELSE evidence[r] + Cardinality(added)
    <3> DEFINE all == [q \in Relationship |->
          IF q \in Removals(save) THEN 0
          ELSE evidence[q] + Cardinality({i \in Fresh(seen, save) : save.joins[i] = q})]
    <3>1. all \in Evidence
      <4> SUFFICES ASSUME NEW q \in Relationship PROVE all[q] \in Nat
        BY DEF Evidence
      <4>1. {i \in Fresh(seen, save) : save.joins[i] = q} \subseteq DOMAIN save.joins
        BY DEF Fresh, Observed
      <4>2. DOMAIN save.joins = 1..Len(save.joins) /\ Len(save.joins) \in Nat
        BY DEF Save
      <4>3. IsFiniteSet(DOMAIN save.joins)
        BY <4>2, FS_Interval
      <4>4. Cardinality({i \in Fresh(seen, save) : save.joins[i] = q}) \in Nat
        BY <4>1, <4>3, FS_Subset, FS_CardinalityType
      <4> QED BY <4>4 DEF Evidence
    <3>2. counts = all
      BY <3>1, AllAreStrongest DEF EvidenceAfter
    <3> HIDE DEF counts
    <3> QED BY <3>2
  <2>5. CASE r \in Removals(save)
    <3>1. here = {}
      BY <1>1, <2>5 DEF Removals, Observed
    <3> QED BY <2>4, <2>5, <3>1, FS_EmptySet
  <2>6. CASE r \notin Removals(save)
    <3>1. here \subseteq old \cup gained
      <4> SUFFICES ASSUME NEW o \in here, o \notin old PROVE o \in gained
        OBVIOUS
      <4>1. PICK i \in Observed(save) : o = new(i)
        BY <1>1
      <4>2. i \in Fresh(seen, save)
        BY <1>3, <4>1
      <4>3. save.joins[i] = r
        BY <4>1
      <4> QED BY <4>1, <4>2, <4>3
    <3>2. IsFiniteSet(old \cup gained)
            /\ Cardinality(old \cup gained) <= Cardinality(old) + Cardinality(gained)
      <4>1. /\ IsFiniteSet(old \cup gained)
            /\ Cardinality(old \cup gained) =
                 Cardinality(old) + Cardinality(gained) - Cardinality(old \cap gained)
        BY <2>2, <2>3, FS_Union
      <4>2. IsFiniteSet(old \cap gained)
        BY <2>3, FS_Intersection
      <4>3. /\ Cardinality(old) \in Nat /\ Cardinality(gained) \in Nat
            /\ Cardinality(old \cap gained) \in Nat
        BY <2>2, <2>3, <4>2, FS_CardinalityType
      <4> QED BY <4>1, <4>3
    <3>3. Cardinality(here) <= Cardinality(old \cup gained)
      BY <3>1, <3>2, FS_Subset
    <3>4. /\ Cardinality(here) \in Nat /\ Cardinality(old \cup gained) \in Nat
          /\ Cardinality(old) \in Nat /\ Cardinality(gained) \in Nat
          /\ Cardinality(added) \in Nat
      BY <2>1, <2>2, <2>3, <3>2, FS_CardinalityType
    <3>5. evidence[r] >= Cardinality(old) /\ evidence[r] \in Nat
      BY DEF CountedSeen, Evidence
    <3>6. counts[r] = evidence[r] + Cardinality(added)
      BY <2>4, <2>6
    <3>7. counts[r] >= Cardinality(here)
      <4> HIDE DEF counts, here, old, gained, added
      <4> QED BY <2>2, <3>2, <3>3, <3>4, <3>5, <3>6
    <3> QED BY <3>7
  <2> QED BY <2>5, <2>6
<1> QED BY <1>2, <1>5 DEF CountedSeen

-----------------------------------------------------------------------------
(* The invariant: a file or a memory has counts and finitely many          *)
(* occurrences, what is remembered is what the file says, and only an      *)
(* update that loaded a readable file is written.                          *)
Counted(s) == s.evidence \in Evidence /\ IsFiniteSet(s.seen)

IInv ==
  /\ Counted(file) /\ Counted(memory)
  /\ file = Invalid \/ file.version \in {"none", "1", "2"}
  /\ queue \in Seq(Request)
  /\ MemoryIsFile
  /\ writing => /\ queue # <<>> /\ Head(queue).op = "update"
                /\ memory # Unread /\ memory.kind = "valid"

LEMMA EmptyIsCounted == Counted(Empty) /\ Counted(Unread) /\ Counted(NoFile)
BY FS_EmptySet DEF Counted, Empty, Unread, NoFile, Valid, NoEvidence, Evidence

LEMMA ParsedIsCounted ==
  ASSUME NEW f, Counted(f)
  PROVE  Counted(Parsed(f))
BY EmptyIsCounted, StrongestType, BoundSeenOnce DEF Counted, Parsed, Valid, Empty

LEMMA NoFileIsEmpty == Parsed(NoFile) = Empty
<1>1. StrongestEvidence(NoEvidence) = NoEvidence
  BY DEF StrongestEvidence, NoEvidence
<1>2. BoundSeenOccurrences({}) = {}
  BY DEF BoundSeenOccurrences
<1> QED BY <1>1, <1>2 DEF Parsed, NoFile, Empty, Valid

LEMMA InitHolds == Init => IInv
<1> SUFFICES ASSUME Init PROVE IInv
  OBVIOUS
<1>1. Counted(file) /\ (file = Invalid \/ file.version \in {"none", "1", "2"})
  <2>1. CASE file \in {NoFile, Invalid}
    BY <2>1, EmptyIsCounted DEF Counted, Invalid, NoFile
  <2>2. CASE \E e \in [Relationship -> 0..1] :
               file = [version |-> "1", evidence |-> e, seen |-> {}]
    BY <2>2, FS_EmptySet DEF Counted, Evidence
  <2> QED BY <2>1, <2>2 DEF Init
<1> QED BY <1>1, EmptyIsCounted DEF Init, IInv, MemoryIsFile

LEMMA NextHolds == IInv /\ [Next]_vars => IInv'
<1> SUFFICES ASSUME IInv, [Next]_vars PROVE IInv'
  OBVIOUS
<1> USE DEF IInv, MemoryIsFile
<1>1. CASE Requests
  <2>1. PICK q \in Request : queue' = Append(queue, q)
    BY <1>1, TextsAssumption DEF Requests, Request, Save
  <2>2. queue # <<>> => Head(queue') = Head(queue)
    BY <2>1
  <2> QED BY <1>1, <2>1, <2>2 DEF Requests, Counted
<1>2. CASE Load
  <2>1. Counted(memory')
    BY <1>2, ParsedIsCounted DEF Load
  <2> QED BY <1>2, <2>1 DEF Load, Counted, Running
<1>3. CASE LoadFails \/ Read \/ UpdateNothing \/ WriteFails \/ ClearFails
  <2>1. queue' \in Seq(Request) /\ ~writing' /\ UNCHANGED <<file, memory>>
    <3>1. queue # <<>> /\ queue' = Tail(queue) /\ writing' = FALSE
          /\ UNCHANGED <<file, memory>>
      BY <1>3 DEF LoadFails, Read, UpdateNothing, WriteFails, ClearFails,
                  Settles, Running
    <3> QED BY <3>1
  <2> QED BY <2>1 DEF Counted
<1>4. CASE StartWrite
  <2>1. memory.kind = "valid"
    BY <1>4 DEF StartWrite, Unwritten, Parsed, Valid, Empty
  <2> QED BY <1>4, <2>1 DEF StartWrite, Counted, Running
<1>5. CASE Written
  <2> DEFINE save == Head(queue).save
             new == Updated(memory, save)
  <2>1. Head(queue) \in Request /\ Head(queue).op = "update" /\ queue # <<>>
    BY <1>5 DEF Written
  <2>2. save \in Save
    BY <2>1 DEF Request
  <2>3. /\ Counted(new) /\ new.kind = "valid" /\ new.requiresRewrite = FALSE
        /\ StrongestEvidence(new.evidence) = new.evidence
        /\ BoundSeenOccurrences(new.seen) = new.seen
    BY <2>2, SaveType DEF Updated, Counted, Valid
  <2>4. file' = Version2(new.evidence, new.seen) /\ memory' = new
    BY <1>5 DEF Written
  <2>5. Parsed(file') = new
    BY <2>3, <2>4 DEF Version2, Parsed, Updated, Valid
  <2>6. queue' \in Seq(Request) /\ ~writing'
    BY <1>5, <2>1 DEF Written, Settles
  <2>7. Counted(file') /\ file'.version = "2"
    BY <2>3, <2>4 DEF Version2, Counted
  <2> HIDE DEF new
  <2> QED BY <2>3, <2>4, <2>5, <2>6, <2>7 DEF Counted
<1>6. CASE Clear
  <2>1. queue' \in Seq(Request) /\ ~writing'
    BY <1>6 DEF Clear, Settles, Running
  <2>2. file' = NoFile /\ memory' = Empty
    BY <1>6 DEF Clear
  <2>3. file'.version = "none"
    BY <2>2 DEF NoFile
  <2> QED BY <2>1, <2>2, <2>3, EmptyIsCounted, NoFileIsEmpty DEF Counted
<1>7. CASE Restart
  BY <1>7, EmptyIsCounted DEF Restart, Counted
<1>8. CASE UNCHANGED vars
  BY <1>8 DEF vars, Counted
<1> QED BY <1>1, <1>2, <1>3, <1>4, <1>5, <1>6, <1>7, <1>8 DEF Next, Serves

LEMMA Invariance == Spec => []IInv
BY InitHolds, NextHolds, PTL DEF Spec

(* States.get() never says something else than the file: no update is      *)
(* remembered whose write failed, and a new session reads what this one    *)
(* knows.                                                                  *)
THEOREM MemoryMatchesFile == Spec => []MemoryIsFile
<1>1. IInv => MemoryIsFile
  BY DEF IInv
<1> QED BY <1>1, Invariance, PTL

(* Invalid JSON and unsupported versions are never overwritten by an       *)
(* update; only the user's clear removes the file.                         *)
THEOREM InvalidFilesAreKept == Spec => InvalidIsKept
<1>1. IInv /\ [Next]_vars => [file = Invalid => file' = Invalid \/ Clear]_vars
  <2> SUFFICES ASSUME IInv, Next, file = Invalid, ~Clear
               PROVE  file' = Invalid
    BY DEF vars
  <2>1. ~Written
    <3>1. writing => memory = Parsed(Invalid) /\ memory.kind = "valid"
      BY DEF IInv, MemoryIsFile
    <3>2. Parsed(Invalid).kind = "invalid"
      BY DEF Parsed, Invalid, Empty, NoFile, Valid
    <3> QED BY <3>1, <3>2 DEF Written
  <2> QED BY <2>1 DEF Next, Serves, Requests, Load, LoadFails, Read,
             UpdateNothing, StartWrite, WriteFails, ClearFails, Restart
<1> QED BY <1>1, Invariance, PTL DEF Spec, InvalidIsKept

-----------------------------------------------------------------------------
SeenInv ==
  /\ Formed(file.seen) /\ CountedSeen(file.evidence, file.seen)
  /\ Formed(memory.seen) /\ CountedSeen(memory.evidence, memory.seen)

LEMMA NoneSeen == \A e \in Evidence : Formed({}) /\ CountedSeen(e, {})
<1> SUFFICES ASSUME NEW e \in Evidence, NEW r \in Relationship
             PROVE  e[r] >= Cardinality({o \in {} : o.relationship = r})
  BY DEF Formed, CountedSeen
<1>1. {o \in {} : o.relationship = r} = {}
  OBVIOUS
<1> QED BY <1>1, FS_EmptySet DEF Evidence

LEMMA SeenInitHolds == Init => SeenInv
<1>1. Init => file.seen = {} /\ memory.seen = {}
  BY DEF Init, NoFile, Invalid, Unread, Empty, Valid
<1> QED BY <1>1, InitHolds, NoneSeen DEF SeenInv, IInv, Counted

LEMMA SeenNextHolds ==
  ASSUME Cardinality(Relationship) <= EvidenceLimit
  PROVE  IInv /\ SeenInv /\ [Next]_vars => SeenInv'
<1> SUFFICES ASSUME IInv, SeenInv, [Next]_vars PROVE SeenInv'
  OBVIOUS
<1>1. CASE UNCHANGED <<file, memory>>
  BY <1>1 DEF SeenInv
<1>2. CASE Load
  <2>1. Counted(file) /\ memory' = Parsed(file) /\ file' = file
    BY <1>2 DEF Load, IInv
  <2>2. CASE file.version = "unknown"
    <3>1. memory'.seen = {} /\ memory'.evidence = NoEvidence
      BY <2>1, <2>2 DEF Parsed, Empty, Valid
    <3>2. NoEvidence \in Evidence
      BY DEF NoEvidence, Evidence
    <3> QED BY <2>1, <3>1, <3>2, NoneSeen DEF SeenInv
  <2>3. CASE file.version # "unknown"
    <3>1. memory'.seen = BoundSeenOccurrences(file.seen)
            /\ memory'.evidence = file.evidence
      BY <2>1, <2>3, AllAreStrongest DEF Parsed, Valid, Counted
    <3>2. BoundSeenOccurrences(file.seen) \subseteq file.seen
      BY DEF BoundSeenOccurrences
    <3>3. CountedSeen(file.evidence, BoundSeenOccurrences(file.seen))
      BY <2>1, <3>2, FewerAreCounted DEF SeenInv, Counted
    <3>4. Formed(BoundSeenOccurrences(file.seen))
      BY <3>2 DEF SeenInv, Formed
    <3> QED BY <2>1, <3>1, <3>3, <3>4 DEF SeenInv
  <2> QED BY <2>2, <2>3
<1>3. CASE Written
  <2> DEFINE save == Head(queue).save
             new == Updated(memory, save)
  <2>1. Head(queue) \in Request /\ Head(queue).op = "update"
    BY <1>3 DEF Written, IInv
  <2>2. save \in Save
    BY <2>1 DEF Request
  <2>3. Formed(new.seen) /\ CountedSeen(new.evidence, new.seen)
    BY <2>2, SaveCounts DEF Updated, Valid, IInv, SeenInv, Counted
  <2>4. file' = Version2(new.evidence, new.seen) /\ memory' = new
    BY <1>3 DEF Written
  <2>5. file'.evidence = new.evidence /\ file'.seen = new.seen
    BY <2>4 DEF Version2
  <2> HIDE DEF new
  <2> QED BY <2>3, <2>4, <2>5 DEF SeenInv
<1>4. CASE Clear \/ Restart
  <2>1. /\ file' = NoFile \/ file' = file
        /\ memory' = Empty \/ memory' = Unread
    BY <1>4 DEF Clear, Restart
  <2>2. /\ NoFile.seen = {} /\ NoFile.evidence \in Evidence
        /\ Empty.seen = {} /\ Empty.evidence \in Evidence
        /\ Unread.seen = {} /\ Unread.evidence \in Evidence
    BY DEF NoFile, Empty, Unread, Valid, NoEvidence, Evidence
  <2> QED BY <2>1, <2>2, NoneSeen DEF SeenInv
<1> QED BY <1>1, <1>2, <1>3, <1>4 DEF Next, Serves, Requests, LoadFails, Read,
           UpdateNothing, StartWrite, WriteFails, ClearFails, vars

(* As long as there is room for a record of every relationship, a JOIN     *)
(* whose occurrence is remembered is in the count: it is never skipped as  *)
(* seen without having been learned, however saves, clears, failed writes  *)
(* and reloads follow each other.                                          *)
THEOREM SeenJoinsAreCounted ==
  ASSUME Cardinality(Relationship) <= EvidenceLimit
  PROVE  Spec => []SeenIsCounted
<1>1. SeenInv => SeenIsCounted
  BY DEF SeenInv, SeenIsCounted, CountedSeen
<1>2. IInv /\ SeenInv /\ [Next]_vars => SeenInv'
  BY SeenNextHolds
<1> QED BY <1>1, <1>2, SeenInitHolds, Invariance, PTL DEF Spec

-----------------------------------------------------------------------------
(* In a finite strict total order the number of elements above an element  *)
(* is its rank: every rank from 0 on is taken by one element.              *)
LEMMA Ranked ==
  ASSUME NEW S, IsFiniteSet(S), NEW above \in [S -> SUBSET S],
         \A x \in S : x \notin above[x],
         \A x, y \in S : x # y => x \in above[y] \/ y \in above[x],
         \A x, y \in S : x \in above[y] => above[x] \subseteq above[y]
  PROVE  [x \in S |-> Cardinality(above[x])] \in Bijection(S, 0..(Cardinality(S) - 1))
<1> DEFINE rank == [x \in S |-> Cardinality(above[x])]
           ranks == 0..(Cardinality(S) - 1)
<1>1. Cardinality(S) \in Nat
  BY FS_CardinalityType
<1>2. ASSUME NEW x \in S
      PROVE  IsFiniteSet(above[x]) /\ Cardinality(above[x]) \in ranks
  <2>1. IsFiniteSet(S \ {x}) /\ Cardinality(S \ {x}) = Cardinality(S) - 1
    BY FS_RemoveElement
  <2>2. above[x] \subseteq S \ {x}
    OBVIOUS
  <2>3. IsFiniteSet(above[x]) /\ Cardinality(above[x]) <= Cardinality(S) - 1
    BY <2>1, <2>2, FS_Subset
  <2>4. Cardinality(above[x]) \in Nat
    BY <2>3, FS_CardinalityType
  <2> QED BY <1>1, <2>3, <2>4
<1>3. ASSUME NEW x \in S, NEW y \in S, x \in above[y]
      PROVE  Cardinality(above[x]) # Cardinality(above[y])
  <2>1. above[x] \subseteq above[y] /\ x \notin above[x]
    BY <1>3
  <2> QED BY <1>2, <1>3, <2>1, FS_Subset
<1>4. rank \in Injection(S, ranks)
  <2>1. rank \in [S -> ranks]
    BY <1>2
  <2>2. \A x, y \in S : rank[x] = rank[y] => x = y
    BY <1>3
  <2> QED BY <2>1, <2>2, Zenon DEF Injection, IsInjective
<1>5. IsFiniteSet(ranks) /\ Cardinality(ranks) = Cardinality(S)
  BY <1>1, FS_Interval
<1>6. rank \in Surjection(S, ranks)
  BY <1>4, <1>5, FS_Injection
<1> QED BY <1>4, <1>6 DEF Bijection

(* The elements of the first L ranks: L of them, or all there are.         *)
LEMMA TopRanked ==
  ASSUME NEW S, IsFiniteSet(S), NEW above \in [S -> SUBSET S],
         \A x \in S : x \notin above[x],
         \A x, y \in S : x # y => x \in above[y] \/ y \in above[x],
         \A x, y \in S : x \in above[y] => above[x] \subseteq above[y],
         NEW L \in Nat,
         NEW top, top = {x \in S : Cardinality(above[x]) < L}
  PROVE  /\ IsFiniteSet(top) /\ Cardinality(top) <= L
         /\ top # S => Cardinality(top) = L
<1> DEFINE rank == [x \in S |-> Cardinality(above[x])]
           n == Cardinality(S)
<1>1. rank \in Bijection(S, 0..(n - 1))
  BY Ranked
<1>2. n \in Nat /\ IsFiniteSet(top)
  BY FS_CardinalityType, FS_Subset
<1>3. \A x \in S : rank[x] \in 0..(n - 1)
  BY <1>1 DEF Bijection, Injection
<1>4. CASE n <= L
  <2>1. \A x \in S : Cardinality(above[x]) \in 0..(n - 1)
    BY <1>3
  <2>2. top = S
    BY <1>2, <1>4, <2>1
  <2> QED BY <1>2, <1>4, <2>2
<1>5. CASE n > L
  <2> DEFINE place == [x \in top |-> rank[x]]
             places == 0..(L - 1)
  <2>1. place \in [top -> places]
    BY <1>2, <1>3
  <2>2. \A x, y \in top : place[x] = place[y] => x = y
    BY <1>1 DEF Bijection, Injection, IsInjective
  <2>3. \A p \in places : \E x \in top : place[x] = p
    <3> SUFFICES ASSUME NEW p \in places PROVE \E x \in top : place[x] = p
      OBVIOUS
    <3>1. p \in 0..(n - 1) /\ p < L
      BY <1>2, <1>5
    <3>2. PICK x \in S : rank[x] = p
      BY <1>1, <3>1 DEF Bijection, Surjection
    <3> QED BY <3>1, <3>2
  <2>4. place \in Bijection(top, places)
    BY <2>1, <2>2, <2>3 DEF Bijection, Injection, IsInjective, Surjection
  <2>5. Cardinality(places) = Cardinality(top)
    BY <1>2, <2>4, FS_Bijection DEF ExistsBijection
  <2>6. Cardinality(places) = L
    BY FS_Interval
  <2> QED BY <1>2, <2>5, <2>6
<1> QED BY <1>2, <1>4, <1>5

(* A finite set of numbers has a largest one.                              *)
LEMMA LargestExists ==
  ASSUME NEW S \in SUBSET Nat, IsFiniteSet(S), S # {}
  PROVE  \E n \in S : \A m \in S : m <= n
<1> DEFINE above == [x \in S |-> {y \in S : y > x}]
           n == Cardinality(S)
<1>1. above \in [S -> SUBSET S]
  OBVIOUS
<1>2. /\ \A x \in S : x \notin above[x]
      /\ \A x, y \in S : x # y => x \in above[y] \/ y \in above[x]
      /\ \A x, y \in S : x \in above[y] => above[x] \subseteq above[y]
  <2>1. \A x, y \in S : x \in above[y] <=> x > y
    OBVIOUS
  <2>2. \A x, y \in S : x \in Nat /\ y \in Nat
    OBVIOUS
  <2>3. ASSUME NEW x \in S, NEW y \in S, x \in above[y], NEW z \in above[x]
        PROVE  z \in above[y]
    BY <2>1, <2>2, <2>3
  <2>4. \A x \in S : x \notin above[x]
    BY <2>1, <2>2
  <2>5. \A x, y \in S : x # y => x \in above[y] \/ y \in above[x]
    BY <2>1, <2>2
  <2> QED BY <2>3, <2>4, <2>5
<1>3. [x \in S |-> Cardinality(above[x])] \in Bijection(S, 0..(n - 1))
  <2> HIDE DEF above
  <2> QED BY <1>1, <1>2, Ranked, Zenon
<1>4. n \in Nat /\ n # 0
  BY FS_CardinalityType, FS_EmptySet
<1>5. PICK x \in S : Cardinality(above[x]) = 0
  <2>1. 0 \in 0..(n - 1)
    BY <1>4
  <2> HIDE DEF above, n
  <2> QED BY <1>3, <2>1 DEF Bijection, Surjection
<1>6. above[x] = {}
  <2>1. IsFiniteSet(above[x])
    BY <1>1, FS_Subset
  <2> QED BY <1>5, <2>1, FS_EmptySet
<1> QED BY <1>6

-----------------------------------------------------------------------------
(* The orders by which the strongest and the newest are chosen are strict  *)
(* and total, so that bounding keeps as many as there is room for.         *)
LEMMA OccurrenceFields ==
  \A o \in Occurrence :
    /\ o.document \in Document /\ o.relationship \in Relationship
    /\ o.ordinal \in Nat /\ o.order \in Nat
    /\ o.document \in Nat /\ o.relationship \in Nat
    /\ o = [document |-> o.document, relationship |-> o.relationship,
            ordinal |-> o.ordinal, order |-> o.order]
<1> TAKE o \in Occurrence
<1>1. /\ o.document \in Document /\ o.relationship \in Relationship
      /\ o.ordinal \in Nat /\ o.order \in Nat
  BY DEF Occurrence
<1>2. o = [document |-> o.document, relationship |-> o.relationship,
           ordinal |-> o.ordinal, order |-> o.order]
  BY DEF Occurrence
<1> QED BY <1>1, <1>2, IdentityAssumption

LEMMA NewerIsStrict ==
  /\ \A o \in Occurrence : ~Newer(o, o)
  /\ \A o, p \in Occurrence : o # p => Newer(o, p) \/ Newer(p, o)
  /\ \A o, p, q \in Occurrence : Newer(o, p) /\ Newer(p, q) => Newer(o, q)
<1>1. ASSUME NEW o \in Occurrence PROVE ~Newer(o, o)
  BY OccurrenceFields DEF Newer, Smaller
<1>2. ASSUME NEW o \in Occurrence, NEW p \in Occurrence,
             ~Newer(o, p), ~Newer(p, o)
      PROVE  o = p
  <2>1. /\ o.order = p.order /\ o.document = p.document
        /\ o.relationship = p.relationship /\ o.ordinal = p.ordinal
    BY <1>2, OccurrenceFields DEF Newer, Smaller
  <2> QED BY <2>1, OccurrenceFields
<1>3. ASSUME NEW o \in Occurrence, NEW p \in Occurrence, NEW q \in Occurrence,
             Newer(o, p), Newer(p, q)
      PROVE  Newer(o, q)
  BY <1>3, OccurrenceFields DEF Newer, Smaller
<1> QED BY <1>1, <1>2, <1>3

LEMMA NewestStay ==
  ASSUME NEW seen \in SUBSET Occurrence, IsFiniteSet(seen)
  PROVE  /\ IsFiniteSet(BoundSeenOccurrences(seen))
         /\ Cardinality(BoundSeenOccurrences(seen)) <= OccurrenceLimit
         /\ BoundSeenOccurrences(seen) # seen =>
              Cardinality(BoundSeenOccurrences(seen)) = OccurrenceLimit
<1> DEFINE above == [o \in seen |-> {p \in seen : Newer(p, o)}]
           newest == BoundSeenOccurrences(seen)
<1>1. above \in [seen -> SUBSET seen]
  OBVIOUS
<1>2. \A o \in seen : o \notin above[o]
  BY NewerIsStrict
<1>3. \A o, p \in seen : o # p => o \in above[p] \/ p \in above[o]
  BY NewerIsStrict
<1>4. ASSUME NEW o \in seen, NEW p \in seen, o \in above[p]
      PROVE  above[o] \subseteq above[p]
  <2> SUFFICES ASSUME NEW q \in seen, Newer(q, o) PROVE Newer(q, p)
    OBVIOUS
  <2>1. Newer(o, p)
    BY <1>4
  <2> QED BY <2>1, NewerIsStrict
<1>5. newest = {o \in seen : Cardinality(above[o]) < OccurrenceLimit}
  BY DEF BoundSeenOccurrences
<1>6. OccurrenceLimit \in Nat
  BY LimitAssumption
<1> HIDE DEF above, newest
<1>7. \A o, p \in seen : o \in above[p] => above[o] \subseteq above[p]
  BY <1>4
<1>8. /\ IsFiniteSet(newest) /\ Cardinality(newest) <= OccurrenceLimit
      /\ newest # seen => Cardinality(newest) = OccurrenceLimit
  BY <1>1, <1>2, <1>3, <1>5, <1>6, <1>7, TopRanked
<1> QED BY <1>8 DEF newest

LEMMA StrongestStay ==
  ASSUME NEW e \in Evidence
  PROVE  Cardinality({r \in Relationship : StrongestEvidence(e)[r] > 0})
           <= EvidenceLimit
<1> DEFINE above == [r \in Relationship |-> {s \in Relationship : Stronger(e, s, r)}]
           top == {r \in Relationship : Cardinality(above[r]) < EvidenceLimit}
           kept == {r \in Relationship : StrongestEvidence(e)[r] > 0}
<1>1. above \in [Relationship -> SUBSET Relationship]
  OBVIOUS
<1>2. \A r \in Relationship : e[r] \in Nat /\ r \in Nat
  BY IdentityAssumption DEF Evidence
<1>3. \A r, s \in Relationship : s \in above[r] <=> Stronger(e, s, r)
  OBVIOUS
<1>4. \A r \in Relationship : r \notin above[r]
  BY <1>2, <1>3 DEF Stronger
<1>5. \A r, s \in Relationship : r # s => r \in above[s] \/ s \in above[r]
  BY <1>2, <1>3 DEF Stronger
<1>6. ASSUME NEW r \in Relationship, NEW s \in Relationship, r \in above[s],
             NEW q \in above[r]
      PROVE  q \in above[s]
  BY <1>2, <1>3, <1>6 DEF Stronger
<1>7. kept \subseteq top
  BY DEF StrongestEvidence
<1>8. top = {r \in Relationship : Cardinality(above[r]) < EvidenceLimit}
  OBVIOUS
<1>9. IsFiniteSet(Relationship) /\ EvidenceLimit \in Nat
  BY IdentityAssumption, LimitAssumption
<1> HIDE DEF above, top, kept
<1>10. \A r, s \in Relationship : r \in above[s] => above[r] \subseteq above[s]
  BY <1>6
<1>11. IsFiniteSet(top) /\ Cardinality(top) <= EvidenceLimit
  BY <1>1, <1>4, <1>5, <1>8, <1>9, <1>10, TopRanked
<1>12. IsFiniteSet(kept) /\ Cardinality(kept) <= Cardinality(top)
  BY <1>7, <1>11, FS_Subset
<1>13. Cardinality(kept) \in Nat /\ Cardinality(top) \in Nat
  BY <1>11, <1>12, FS_CardinalityType
<1>14. Cardinality(kept) <= EvidenceLimit
  BY <1>9, <1>11, <1>12, <1>13
<1> QED BY <1>14 DEF kept

(* The order given last is the largest one.                                *)
LEMMA LastOrderIsLast ==
  ASSUME NEW seen \in SUBSET Occurrence, IsFiniteSet(seen)
  PROVE  /\ LastOrder(seen) \in Nat
         /\ \A o \in seen : o.order <= LastOrder(seen)
<1> DEFINE order == [o \in seen |-> o.order]
           orders == {order[o] : o \in seen}
           all == {0} \cup {o.order : o \in seen}
<1>1. order \in Surjection(seen, orders)
  BY DEF Surjection
<1>2. IsFiniteSet(orders) /\ IsFiniteSet({0})
  BY <1>1, FS_Surjection, FS_Singleton
<1>3. all = {0} \cup orders
  OBVIOUS
<1>4. IsFiniteSet(all)
  BY <1>2, <1>3, FS_Union
<1>5. all \in SUBSET Nat /\ all # {}
  BY OccurrenceFields
<1>6. \E n \in all : \A m \in all : m <= n
  <2> HIDE DEF all
  <2> QED BY <1>4, <1>5, LargestExists
<1>7. \E n \in all : \A o \in seen : o.order <= n
  BY <1>6
<1>8. LastOrder(seen) \in all /\ \A o \in seen : o.order <= LastOrder(seen)
  BY <1>7 DEF LastOrder
<1> QED BY <1>5, <1>8

(* Insertion orders are not shared.                                        *)
Ordered(seen) == \A o, p \in seen : o.order = p.order => o = p

New(seen, save, i) ==
  [document |-> save.document, relationship |-> save.joins[i],
   ordinal |-> Ordinal(save, i), order |-> OrderOf(seen, save, i)]

LEMMA SaveFields ==
  ASSUME NEW save \in Save
  PROVE  /\ save.document \in Document
         /\ save.joins \in Seq(Relationship)
         /\ Len(save.joins) \in Nat
         /\ DOMAIN save.joins = 1..Len(save.joins)
         /\ IsFiniteSet(DOMAIN save.joins)
         /\ \A i \in DOMAIN save.joins : save.joins[i] \in Relationship
<1>1. save.joins \in Seq(Relationship) /\ save.document \in Document
  BY DEF Save
<1>2. Len(save.joins) \in Nat /\ DOMAIN save.joins = 1..Len(save.joins)
  BY <1>1
<1>3. IsFiniteSet(DOMAIN save.joins)
  BY <1>2, FS_Interval
<1> QED BY <1>1, <1>2, <1>3

(* JOINs of the same relationship have different ordinals.                 *)
LEMMA OrdinalsDiffer ==
  ASSUME NEW save \in Save, NEW i \in DOMAIN save.joins, NEW j \in DOMAIN save.joins,
         save.joins[i] = save.joins[j]
  PROVE  /\ Ordinal(save, i) \in Nat
         /\ Ordinal(save, i) = Ordinal(save, j) => i = j
<1> DEFINE before(k) == {l \in 1..(k - 1) : save.joins[l] = save.joins[k]}
<1>1. ASSUME NEW k \in DOMAIN save.joins
      PROVE  IsFiniteSet(before(k)) /\ Cardinality(before(k)) \in Nat
  <2>1. k \in Int /\ k - 1 \in Int /\ 1 \in Int
    BY SaveFields
  <2>2. IsFiniteSet(1..(k - 1))
    BY <2>1, FS_Interval
  <2> QED BY <2>2, FS_Subset, FS_CardinalityType
<1>2. ASSUME NEW k \in DOMAIN save.joins, NEW l \in DOMAIN save.joins,
             save.joins[k] = save.joins[l], k < l
      PROVE  Cardinality(before(k)) # Cardinality(before(l))
  <2>1. k \in Int /\ l \in Int /\ k >= 1
    BY SaveFields
  <2>2. before(k) \subseteq before(l) /\ k \in before(l) /\ k \notin before(k)
    BY <1>2, <2>1
  <2> QED BY <1>1, <2>2, FS_Subset
<1>3. i \in Int /\ j \in Int
  BY SaveFields
<1>4. i < j \/ j < i \/ i = j
  BY <1>3
<1> QED BY <1>1, <1>2, <1>4 DEF Ordinal

(* What a JOIN adds or keeps: one that was seen is the occurrence it was,  *)
(* one that is fresh comes after every order given before.                 *)
LEMMA SeenAgain ==
  ASSUME NEW seen \in SUBSET Occurrence, NEW save \in Save,
         NEW i \in Observed(save), i \notin Fresh(seen, save)
  PROVE  New(seen, save, i) \in seen
<1>1. \E o \in seen : IsOccurrence(o, save, i)
  BY DEF Fresh
<1> DEFINE old == CHOOSE o \in seen : IsOccurrence(o, save, i)
<1>2. old \in seen /\ IsOccurrence(old, save, i)
  BY <1>1
<1>3. OrderOf(seen, save, i) = old.order
  BY DEF OrderOf
<1>4. New(seen, save, i) = [document |-> old.document, relationship |-> old.relationship,
                            ordinal |-> old.ordinal, order |-> old.order]
  BY <1>2, <1>3 DEF IsOccurrence, New
<1> HIDE DEF old
<1>5. New(seen, save, i) = old
  BY <1>2, <1>4, OccurrenceFields
<1> QED BY <1>2, <1>5

LEMMA FreshOrders ==
  ASSUME NEW seen \in SUBSET Occurrence, IsFiniteSet(seen), NEW save \in Save
  PROVE  /\ \A i \in Fresh(seen, save) :
              /\ OrderOf(seen, save, i) \in Nat
              /\ \A o \in seen : o.order < OrderOf(seen, save, i)
         /\ \A i, j \in Fresh(seen, save) :
              OrderOf(seen, save, i) = OrderOf(seen, save, j) => i = j
<1> DEFINE fresh == Fresh(seen, save)
           upTo(i) == {j \in fresh : j <= i}
<1>1. fresh \subseteq DOMAIN save.joins /\ \A i \in fresh : i \in Int
  BY SaveFields DEF Fresh, Observed
<1>2. IsFiniteSet(fresh)
  BY <1>1, SaveFields, FS_Subset
<1>3. ASSUME NEW i \in fresh
      PROVE  IsFiniteSet(upTo(i)) /\ Cardinality(upTo(i)) \in Nat \ {0}
  <2>1. IsFiniteSet(upTo(i)) /\ i \in upTo(i)
    BY <1>1, <1>2, FS_Subset
  <2>2. Cardinality(upTo(i)) \in Nat /\ Cardinality(upTo(i)) # 0
    BY <2>1, FS_CardinalityType, FS_EmptySet
  <2> QED BY <2>1, <2>2
<1>4. \A i \in fresh : OrderOf(seen, save, i) = LastOrder(seen) + Cardinality(upTo(i))
  BY DEF OrderOf
<1>5. LastOrder(seen) \in Nat /\ \A o \in seen : o.order <= LastOrder(seen)
  BY LastOrderIsLast
<1>6. ASSUME NEW i \in fresh
      PROVE  /\ OrderOf(seen, save, i) \in Nat
             /\ \A o \in seen : o.order < OrderOf(seen, save, i)
  <2>1. Cardinality(upTo(i)) \in Nat \ {0}
    BY <1>3
  <2>2. \A o \in seen : o.order \in Nat
    BY OccurrenceFields
  <2> HIDE DEF upTo, fresh
  <2> QED BY <1>4, <1>5, <2>1, <2>2
<1>7. ASSUME NEW i \in fresh, NEW j \in fresh, i < j
      PROVE  OrderOf(seen, save, i) # OrderOf(seen, save, j)
  <2>1. i \in Int /\ j \in Int
    BY <1>1
  <2>2. upTo(i) \subseteq upTo(j) /\ j \in upTo(j) /\ j \notin upTo(i)
    <3>1. ASSUME NEW k \in upTo(i) PROVE k \in upTo(j)
      <4>1. k \in fresh /\ k \in Int /\ k <= i
        BY <1>1
      <4> QED BY <1>7, <2>1, <4>1
    <3>2. j \in upTo(j) /\ j \notin upTo(i)
      BY <1>7, <2>1
    <3> QED BY <3>1, <3>2
  <2>3. Cardinality(upTo(i)) # Cardinality(upTo(j))
    BY <1>3, <2>2, FS_Subset
  <2>4. Cardinality(upTo(i)) \in Nat /\ Cardinality(upTo(j)) \in Nat
    BY <1>3
  <2>5. /\ OrderOf(seen, save, i) = LastOrder(seen) + Cardinality(upTo(i))
        /\ OrderOf(seen, save, j) = LastOrder(seen) + Cardinality(upTo(j))
    BY <1>4
  <2> HIDE DEF upTo, fresh
  <2> QED BY <1>5, <2>3, <2>4, <2>5
<1>8. \A i, j \in fresh : i < j \/ j < i \/ i = j
  BY <1>1
<1> HIDE DEF upTo, fresh
<1>9. \A i, j \in fresh : OrderOf(seen, save, i) = OrderOf(seen, save, j) => i = j
  BY <1>7, <1>8
<1>10. \A i \in fresh : /\ OrderOf(seen, save, i) \in Nat
                        /\ \A o \in seen : o.order < OrderOf(seen, save, i)
  BY <1>6
<1> QED BY <1>9, <1>10 DEF fresh

LEMMA SeenAfterParts ==
  ASSUME NEW seen, NEW save
  PROVE  SeenAfter(seen, save) =
           BoundSeenOccurrences(
             {o \in seen : o.document # save.document /\ o.relationship \notin Removals(save)}
               \cup {New(seen, save, i) : i \in Observed(save)})
BY DEF SeenAfter, New

(* A save gives every occurrence an order of its own.                      *)
LEMMA SaveOrders ==
  ASSUME NEW seen \in SUBSET Occurrence, IsFiniteSet(seen), Ordered(seen),
         NEW save \in Save
  PROVE  /\ \A i \in Observed(save) : New(seen, save, i) \in Occurrence
         /\ SeenAfter(seen, save) \in SUBSET Occurrence
         /\ Ordered(SeenAfter(seen, save))
<1> DEFINE new(i) == New(seen, save, i)
           fresh == Fresh(seen, save)
           all == seen \cup {new(i) : i \in fresh}
<1>1. ASSUME NEW i \in fresh
      PROVE  /\ new(i) \in Occurrence
             /\ \A o \in seen : o.order < new(i).order
  <2>1. i \in DOMAIN save.joins
    BY DEF Fresh, Observed
  <2>2. Ordinal(save, i) \in Nat
    BY <2>1, OrdinalsDiffer
  <2>3. /\ OrderOf(seen, save, i) \in Nat
        /\ \A o \in seen : o.order < OrderOf(seen, save, i)
    BY FreshOrders
  <2> QED BY <2>1, <2>2, <2>3, SaveFields DEF New, Occurrence
<1>2. \A i \in Observed(save) : new(i) \in all
  BY SeenAgain
<1>3. \A i \in Observed(save) : new(i) \in Occurrence
  BY <1>1, <1>2
<1>4. SeenAfter(seen, save) \subseteq all
  BY <1>2, SeenAfterParts DEF BoundSeenOccurrences
<1>5. Ordered(all)
  <2> SUFFICES ASSUME NEW o \in all, NEW p \in all, o.order = p.order
               PROVE  o = p
    BY DEF Ordered
  <2>1. \A q \in seen : q.order \in Nat
    BY OccurrenceFields
  <2>2. CASE o \in seen /\ p \in seen
    BY <2>2 DEF Ordered
  <2>3. CASE o \in seen /\ p \notin seen
    <3>1. PICK i \in fresh : p = new(i)
      BY <2>3
    <3>2. o.order < p.order
      BY <1>1, <2>3, <3>1
    <3> QED BY <2>1, <2>3, <3>2
  <2>4. CASE o \notin seen /\ p \in seen
    <3>1. PICK i \in fresh : o = new(i)
      BY <2>4
    <3>2. p.order < o.order
      BY <1>1, <2>4, <3>1
    <3> QED BY <2>1, <2>4, <3>2
  <2>5. CASE o \notin seen /\ p \notin seen
    <3>1. PICK i \in fresh : o = new(i)
      BY <2>5
    <3>2. PICK j \in fresh : p = new(j)
      BY <2>5
    <3>3. OrderOf(seen, save, i) = OrderOf(seen, save, j)
      BY <3>1, <3>2 DEF New
    <3>4. i = j
      BY <3>3, FreshOrders
    <3> QED BY <3>1, <3>2, <3>4
  <2> QED BY <2>2, <2>3, <2>4, <2>5
<1>6. all \subseteq Occurrence
  BY <1>1
<1> QED BY <1>3, <1>4, <1>5, <1>6 DEF Ordered

-----------------------------------------------------------------------------
(* The type invariant with what it rests on: the occurrences of the file   *)
(* have orders of their own, too.                                          *)
TInv ==
  /\ file \in File /\ memory \in State
  /\ Ordered(file.seen) /\ Ordered(memory.seen)
  /\ file.version = "2" => Bounded(file)
  /\ Bounded(memory)
  /\ writing \in BOOLEAN /\ requests \in 0..MaxRequests

LEMMA BoundedParts ==
  ASSUME NEW e \in Evidence, NEW seen \in SUBSET Occurrence, IsFiniteSet(seen)
  PROVE  /\ Cardinality({r \in Relationship : StrongestEvidence(e)[r] > 0}) <= EvidenceLimit
         /\ Cardinality(BoundSeenOccurrences(seen)) <= OccurrenceLimit
BY StrongestStay, NewestStay

LEMMA NothingIsBounded ==
  ASSUME NEW s, s.evidence = NoEvidence, s.seen = {}
  PROVE  Bounded(s) /\ Ordered(s.seen)
<1>1. {r \in Relationship : NoEvidence[r] > 0} = {}
  BY DEF NoEvidence
<1> QED BY <1>1, FS_EmptySet, LimitAssumption DEF Bounded, Ordered

LEMMA EmptyType ==
  /\ NoFile \in File /\ Invalid \in File
  /\ Empty \in State /\ Unread \in State
<1>1. NoEvidence \in Evidence
  BY DEF NoEvidence, Evidence
<1> QED BY <1>1 DEF NoFile, Invalid, File, Empty, Unread, Valid, State

LEMMA ParsedType ==
  ASSUME NEW f \in File, IsFiniteSet(f.seen), Ordered(f.seen)
  PROVE  Parsed(f) \in State /\ Bounded(Parsed(f)) /\ Ordered(Parsed(f).seen)
<1>1. f.evidence \in Evidence /\ f.seen \in SUBSET Occurrence
  BY DEF File
<1>2. CASE f.version = "unknown"
  <2>1. Parsed(f) = [Empty EXCEPT !.kind = "invalid"]
    BY <1>2 DEF Parsed
  <2>2. Parsed(f).evidence = NoEvidence /\ Parsed(f).seen = {}
    BY <2>1 DEF Empty, Valid
  <2>3. Parsed(f) \in State
    BY <2>1, EmptyType DEF State
  <2> QED BY <2>2, <2>3, NothingIsBounded
<1>3. CASE f.version # "unknown"
  <2> DEFINE kept == BoundSeenOccurrences(f.seen)
             strongest == StrongestEvidence(f.evidence)
  <2>1. Parsed(f) = Valid(strongest, kept, f.version = "1")
    BY <1>3 DEF Parsed
  <2>2. kept \subseteq f.seen
    BY DEF BoundSeenOccurrences
  <2>3. strongest \in Evidence /\ kept \in SUBSET Occurrence
    BY <1>1, <2>2, StrongestType
  <2>4. Ordered(kept)
    BY <2>2 DEF Ordered
  <2>5. /\ Cardinality({r \in Relationship : strongest[r] > 0}) <= EvidenceLimit
        /\ Cardinality(kept) <= OccurrenceLimit
    BY <1>1, BoundedParts
  <2> HIDE DEF kept, strongest
  <2>6. Valid(strongest, kept, f.version = "1") \in State
    BY <2>3 DEF Valid, State
  <2> QED BY <2>1, <2>4, <2>5, <2>6 DEF Valid, Bounded
<1> QED BY <1>2, <1>3

LEMMA UpdatedType ==
  ASSUME NEW s \in State, IsFiniteSet(s.seen), Ordered(s.seen), NEW save \in Save
  PROVE  /\ Updated(s, save) \in State
         /\ Bounded(Updated(s, save)) /\ Ordered(Updated(s, save).seen)
<1> DEFINE e == EvidenceAfter(s.evidence, s.seen, save)
           seen == SeenAfter(s.seen, save)
<1>1. s.evidence \in Evidence /\ s.seen \in SUBSET Occurrence
  BY DEF State
<1>2. /\ e \in Evidence /\ StrongestEvidence(e) = e
      /\ IsFiniteSet(seen) /\ BoundSeenOccurrences(seen) = seen
  BY <1>1, SaveType
<1>3. seen \in SUBSET Occurrence /\ Ordered(seen)
  BY <1>1, SaveOrders
<1>4. Updated(s, save) = Valid(e, seen, FALSE)
  BY DEF Updated
<1> HIDE DEF e, seen
<1>5. /\ Cardinality({r \in Relationship : e[r] > 0}) <= EvidenceLimit
      /\ Cardinality(seen) <= OccurrenceLimit
  BY <1>2, <1>3, BoundedParts
<1> QED BY <1>2, <1>3, <1>4, <1>5 DEF Valid, State, Bounded

LEMMA TypeInitHolds == Init => TInv
<1> SUFFICES ASSUME Init PROVE TInv
  OBVIOUS
<1>1. file \in File /\ file.version # "2" /\ Ordered(file.seen)
  <2>1. CASE file \in {NoFile, Invalid}
    BY <2>1, EmptyType DEF NoFile, Invalid, Ordered
  <2>2. CASE \E e \in [Relationship -> 0..1] :
               file = [version |-> "1", evidence |-> e, seen |-> {}]
    BY <2>2 DEF File, Evidence, Ordered
  <2> QED BY <2>1, <2>2 DEF Init
<1>2. memory \in State /\ Bounded(memory) /\ Ordered(memory.seen)
  <2>1. memory.evidence = NoEvidence /\ memory.seen = {}
    BY DEF Init, Unread, Empty, Valid
  <2> QED BY <2>1, EmptyType, NothingIsBounded DEF Init
<1>3. writing \in BOOLEAN /\ requests \in 0..MaxRequests
  <2>1. writing \in BOOLEAN
    BY DEF Init
  <2>2. requests \in 0..MaxRequests
    BY BoundAssumption DEF Init
  <2> QED BY <2>1, <2>2
<1> QED BY <1>1, <1>2, <1>3 DEF TInv

LEMMA TypeNextHolds == IInv /\ TInv /\ [Next]_vars => TInv'
<1> SUFFICES ASSUME IInv, TInv, [Next]_vars PROVE TInv'
  OBVIOUS
<1>1. CASE Requests
  <2>1. requests' \in 0..MaxRequests
    BY <1>1, BoundAssumption DEF Requests, TInv
  <2> QED BY <1>1, <2>1 DEF Requests, TInv, Bounded
<1>2. CASE Load
  <2>1. memory' = Parsed(file)
    BY <1>2 DEF Load
  <2>2. memory' \in State /\ Bounded(Parsed(file)) /\ Ordered(memory'.seen)
    BY <2>1, ParsedType DEF IInv, Counted, TInv
  <2>3. Bounded(memory)'
    BY <2>1, <2>2 DEF Bounded
  <2> QED BY <1>2, <2>2, <2>3 DEF Load, TInv, Bounded
<1>3. CASE LoadFails \/ Read \/ UpdateNothing \/ WriteFails \/ ClearFails
  <2>1. writing' \in BOOLEAN /\ UNCHANGED <<file, memory, requests>>
    BY <1>3 DEF LoadFails, Read, UpdateNothing, WriteFails, ClearFails, Settles
  <2> QED BY <2>1 DEF TInv, Bounded
<1>4. CASE StartWrite
  BY <1>4 DEF StartWrite, TInv, Bounded
<1>5. CASE Written
  <2> DEFINE new == Updated(memory, Head(queue).save)
  <2>1. Head(queue) \in Request /\ Head(queue).op = "update"
    BY <1>5 DEF Written, IInv
  <2>2. Head(queue).save \in Save
    BY <2>1 DEF Request
  <2>3. new \in State /\ Bounded(new) /\ Ordered(new.seen)
    BY <2>2, UpdatedType DEF IInv, Counted, TInv
  <2>4. /\ file' = Version2(new.evidence, new.seen) /\ memory' = new
        /\ writing' = FALSE /\ requests' = requests
    BY <1>5 DEF Written, Settles
  <2> HIDE DEF new
  <2>5. file' \in File /\ file'.evidence = new.evidence /\ file'.seen = new.seen
    BY <2>3, <2>4 DEF Version2, File, State
  <2>6. Bounded(file)' /\ Bounded(memory)'
    BY <2>3, <2>4, <2>5 DEF Bounded
  <2> QED BY <2>3, <2>4, <2>5, <2>6 DEF TInv
<1>6. CASE Clear
  <2>1. /\ file' = NoFile /\ memory' = Empty
        /\ writing' = FALSE /\ requests' = requests
    BY <1>6 DEF Clear, Settles
  <2>2. /\ memory'.evidence = NoEvidence /\ memory'.seen = {}
        /\ file'.seen = {} /\ file'.version = "none"
    BY <2>1 DEF Empty, Valid, NoFile
  <2>3. Bounded(memory)' /\ Ordered(memory'.seen) /\ Ordered(file'.seen)
    BY <2>2, NothingIsBounded DEF Bounded, Ordered
  <2> QED BY <2>1, <2>2, <2>3, EmptyType DEF TInv
<1>7. CASE Restart
  <2>1. /\ file' = file /\ memory' = Unread
        /\ writing' = FALSE /\ requests' = requests
    BY <1>7 DEF Restart
  <2>2. memory'.evidence = NoEvidence /\ memory'.seen = {}
    BY <2>1 DEF Unread, Empty, Valid
  <2>3. Bounded(memory)' /\ Ordered(memory'.seen)
    BY <2>2, NothingIsBounded DEF Bounded, Ordered
  <2> QED BY <2>1, <2>3, EmptyType DEF TInv, Bounded
<1>8. CASE UNCHANGED vars
  BY <1>8 DEF vars, TInv, Bounded
<1> QED BY <1>1, <1>2, <1>3, <1>4, <1>5, <1>6, <1>7, <1>8 DEF Next, Serves

LEMMA TypeInvariance == Spec => []TInv
<1>1. IInv /\ TInv /\ [Next]_vars => TInv'
  BY TypeNextHolds
<1> QED BY <1>1, TypeInitHolds, Invariance, PTL DEF Spec

-----------------------------------------------------------------------------
(* The positions of the JOINs of one relationship.                         *)
JoinsOf(save, r) == {i \in DOMAIN save.joins : save.joins[i] = r}

(* The ordinals of the JOINs of one relationship are 0, 1, 2 and so on.    *)
LEMMA OrdinalsRank ==
  ASSUME NEW save \in Save, NEW r \in Relationship
  PROVE  /\ IsFiniteSet(JoinsOf(save, r))
         /\ Cardinality(JoinsOf(save, r)) \in 0..Len(save.joins)
         /\ \A i \in JoinsOf(save, r) :
              Ordinal(save, i) \in 0..(Cardinality(JoinsOf(save, r)) - 1)
         /\ \A n \in 0..(Cardinality(JoinsOf(save, r)) - 1) :
              \E i \in JoinsOf(save, r) : Ordinal(save, i) = n
<1> DEFINE S == JoinsOf(save, r)
           above == [i \in S |-> {j \in S : j < i}]
<1>1. /\ S \subseteq DOMAIN save.joins
      /\ \A i \in S : i \in Int /\ i >= 1 /\ i <= Len(save.joins)
  BY SaveFields DEF JoinsOf
<1>2. IsFiniteSet(S) /\ Cardinality(S) \in Nat /\ Cardinality(S) <= Len(save.joins)
  <2>1. IsFiniteSet(S) /\ Cardinality(S) <= Cardinality(DOMAIN save.joins)
    BY <1>1, SaveFields, FS_Subset
  <2>2. Cardinality(S) \in Nat
    BY <2>1, FS_CardinalityType
  <2>3. Cardinality(DOMAIN save.joins) = Len(save.joins)
    <3>1. DOMAIN save.joins = 1..Len(save.joins) /\ Len(save.joins) \in Nat
      BY SaveFields
    <3>2. Cardinality(1..Len(save.joins)) =
            IF 1 > Len(save.joins) THEN 0 ELSE Len(save.joins) - 1 + 1
      BY <3>1, FS_Interval
    <3> QED BY <3>1, <3>2
  <2> QED BY <2>1, <2>2, <2>3
<1>3. \A i \in S : Ordinal(save, i) = Cardinality(above[i])
  <2> TAKE i \in S
  <2>1. {j \in 1..(i - 1) : save.joins[j] = save.joins[i]} = above[i]
    BY <1>1, SaveFields DEF JoinsOf
  <2> QED BY <2>1 DEF Ordinal
<1>4. above \in [S -> SUBSET S]
  OBVIOUS
<1>5. \A i, j \in S : j \in above[i] <=> j < i
  OBVIOUS
<1>6. \A i \in S : i \notin above[i]
  BY <1>1, <1>5
<1>7. \A i, j \in S : i # j => i \in above[j] \/ j \in above[i]
  BY <1>1, <1>5
<1>8. ASSUME NEW i \in S, NEW j \in S, i \in above[j], NEW k \in above[i]
      PROVE  k \in above[j]
  BY <1>1, <1>5, <1>8
<1> HIDE DEF S, above
<1>9. \A i, j \in S : i \in above[j] => above[i] \subseteq above[j]
  BY <1>8
<1>10. [i \in S |-> Cardinality(above[i])] \in Bijection(S, 0..(Cardinality(S) - 1))
  BY <1>2, <1>4, <1>6, <1>7, <1>9, Ranked
<1>11. /\ \A i \in S : Cardinality(above[i]) \in 0..(Cardinality(S) - 1)
       /\ \A n \in 0..(Cardinality(S) - 1) : \E i \in S : Cardinality(above[i]) = n
  BY <1>10 DEF Bijection, Injection, Surjection
<1>12. Cardinality(S) \in 0..Len(save.joins)
  BY <1>2, SaveFields
<1>13. /\ \A i \in S : Ordinal(save, i) \in 0..(Cardinality(S) - 1)
       /\ \A n \in 0..(Cardinality(S) - 1) : \E i \in S : Ordinal(save, i) = n
  BY <1>3, <1>11
<1> QED BY <1>2, <1>12, <1>13 DEF S

(* The mark of the i-th JOIN, and the marks the ledger expects a document  *)
(* to have after a save.                                                   *)
MarkOf(save, i) == <<save.document, save.joins[i], Ordinal(save, i) + 1>>
NowMarks(save) == {MarkOf(save, i) : i \in Observed(save)}
JoinCounts(save) == [r \in Relationship |-> Cardinality(JoinsOf(save, r))]

LEMMA ObservedFields ==
  ASSUME NEW save \in Save, NEW i \in Observed(save)
  PROVE  /\ i \in DOMAIN save.joins /\ save.joins[i] \in Relationship
         /\ save.joins[i] \notin Removals(save)
         /\ i \in JoinsOf(save, save.joins[i])
         /\ Ordinal(save, i) \in Nat
<1>1. i \in DOMAIN save.joins /\ save.joins[i] \notin save.known
  BY DEF Observed
<1> QED BY <1>1, SaveFields, OrdinalsDiffer DEF Removals, JoinsOf

LEMMA LedgerNow ==
  ASSUME NEW save \in Save, Len(save.joins) <= MaxJoins
  PROVE  {m \in {save.document} \X (Relationship \ Removals(save)) \X (1..MaxJoins) :
            m[3] <= JoinCounts(save)[m[2]]}
         = NowMarks(save)
<1> DEFINE now == {m \in {save.document} \X (Relationship \ Removals(save)) \X (1..MaxJoins) :
                     m[3] <= JoinCounts(save)[m[2]]}
<1>1. Len(save.joins) \in Nat /\ MaxJoins \in Nat
  BY SaveFields, BoundAssumption
<1>2. ASSUME NEW i \in Observed(save)
      PROVE  MarkOf(save, i) \in now
  <2> DEFINE r == save.joins[i]
             n == Cardinality(JoinsOf(save, r))
  <2>1. r \in Relationship \ Removals(save) /\ i \in JoinsOf(save, r)
    BY ObservedFields
  <2>2. n \in 0..Len(save.joins) /\ Ordinal(save, i) \in 0..(n - 1)
    BY <2>1, OrdinalsRank
  <2>3. JoinCounts(save)[r] = n
    BY <2>1 DEF JoinCounts
  <2> HIDE DEF n
  <2>4. Ordinal(save, i) + 1 \in 1..MaxJoins /\ Ordinal(save, i) + 1 <= JoinCounts(save)[r]
    BY <1>1, <2>2, <2>3
  <2> HIDE DEF r
  <2>5. /\ <<save.document, r, Ordinal(save, i) + 1>>
             \in {save.document} \X (Relationship \ Removals(save)) \X (1..MaxJoins)
        /\ <<save.document, r, Ordinal(save, i) + 1>>[3]
             <= JoinCounts(save)[<<save.document, r, Ordinal(save, i) + 1>>[2]]
    BY <2>1, <2>4
  <2> QED BY <2>5 DEF MarkOf, r
<1>3. ASSUME NEW m \in now
      PROVE  m \in NowMarks(save)
  <2>1. PICK r \in Relationship \ Removals(save), n \in 1..MaxJoins :
          m = <<save.document, r, n>> /\ n <= JoinCounts(save)[r]
    OBVIOUS
  <2>2. JoinCounts(save)[r] = Cardinality(JoinsOf(save, r))
    BY DEF JoinCounts
  <2>3. Cardinality(JoinsOf(save, r)) \in Nat
    BY OrdinalsRank
  <2>4. n - 1 \in 0..(Cardinality(JoinsOf(save, r)) - 1)
    BY <1>1, <2>1, <2>2, <2>3
  <2>5. PICK i \in JoinsOf(save, r) : Ordinal(save, i) = n - 1
    BY <2>4, OrdinalsRank
  <2>6. i \in Observed(save) /\ save.joins[i] = r
    BY DEF JoinsOf, Observed, Removals
  <2>7. Ordinal(save, i) + 1 = n
    BY <1>1, <2>5
  <2>8. m = MarkOf(save, i)
    BY <2>1, <2>6, <2>7 DEF MarkOf
  <2> QED BY <2>6, <2>8 DEF NowMarks
<1>4. NowMarks(save) \subseteq now
  BY <1>2 DEF NowMarks
<1> QED BY <1>3, <1>4

(* A JOIN is fresh if it has no mark; different JOINs have different marks.*)
LEMMA FreshIsUnmarked ==
  ASSUME NEW seen \in SUBSET Occurrence, NEW save \in Save
  PROVE  /\ \A i \in Observed(save) :
              i \in Fresh(seen, save) <=> MarkOf(save, i) \notin Marks(seen)
         /\ \A i, j \in Observed(save) : MarkOf(save, i) = MarkOf(save, j) => i = j
<1>1. ASSUME NEW i \in Observed(save)
      PROVE  i \in Fresh(seen, save) <=> MarkOf(save, i) \notin Marks(seen)
  <2>1. \A o \in seen : o.ordinal \in Nat
    BY OccurrenceFields
  <2>2. Ordinal(save, i) \in Nat
    BY ObservedFields
  <2>3. \A o \in seen :
          IsOccurrence(o, save, i) <=>
            MarkOf(save, i) = <<o.document, o.relationship, o.ordinal + 1>>
    BY <2>1, <2>2 DEF IsOccurrence, MarkOf
  <2> QED BY <2>3 DEF Fresh, Marks
<1>2. ASSUME NEW i \in Observed(save), NEW j \in Observed(save),
             MarkOf(save, i) = MarkOf(save, j)
      PROVE  i = j
  <2>1. save.joins[i] = save.joins[j] /\ Ordinal(save, i) + 1 = Ordinal(save, j) + 1
    BY <1>2 DEF MarkOf
  <2>2. Ordinal(save, i) = Ordinal(save, j)
    BY <2>1, ObservedFields
  <2> QED BY <2>1, <2>2, ObservedFields, OrdinalsDiffer
<1> QED BY <1>1, <1>2

(* What the ledger adds to a count is what the store adds.                 *)
LEMMA LedgerCounts ==
  ASSUME NEW seen \in SUBSET Occurrence, NEW save \in Save,
         NEW r \in Relationship
  PROVE  Cardinality({m \in NowMarks(save) \ Marks(seen) : m[2] = r})
           = Cardinality({i \in Fresh(seen, save) : save.joins[i] = r})
<1> DEFINE added == {i \in Fresh(seen, save) : save.joins[i] = r}
           gained == {m \in NowMarks(save) \ Marks(seen) : m[2] = r}
           mark == [i \in added |-> MarkOf(save, i)]
<1>1. added \subseteq Observed(save) /\ added \subseteq DOMAIN save.joins
  BY DEF Fresh, Observed
<1>2. IsFiniteSet(added)
  BY <1>1, SaveFields, FS_Subset
<1>3. \A i \in Observed(save) : MarkOf(save, i)[2] = save.joins[i]
  BY DEF MarkOf
<1>4. \A i \in added : mark[i] \in gained
  BY <1>1, <1>3, FreshIsUnmarked DEF NowMarks
<1>5. ASSUME NEW m \in gained
      PROVE  \E i \in added : mark[i] = m
  <2>1. PICK i \in Observed(save) : m = MarkOf(save, i)
    BY DEF NowMarks
  <2>2. i \in added
    BY <1>3, <2>1, FreshIsUnmarked
  <2> QED BY <2>1, <2>2
<1>6. \A i, j \in added : mark[i] = mark[j] => i = j
  BY <1>1, FreshIsUnmarked
<1>7. mark \in Bijection(added, gained)
  <2>1. mark \in [added -> gained]
    BY <1>4
  <2> HIDE DEF added, gained
  <2>2. DOMAIN mark = added
    OBVIOUS
  <2> HIDE DEF mark
  <2> QED BY <1>5, <1>6, <2>1, <2>2 DEF Bijection, Injection, IsInjective, Surjection
<1>8. Cardinality(gained) = Cardinality(added)
  <2> HIDE DEF added, gained, mark
  <2> QED BY <1>2, <1>7, FS_Bijection DEF ExistsBijection
<1> QED BY <1>8

(* What is remembered before the bound is applied, and its marks.          *)
Remembered(seen, save) ==
  {o \in seen : o.document # save.document /\ o.relationship \notin Removals(save)}
    \cup {New(seen, save, i) : i \in Observed(save)}

LEMMA RememberedMarks ==
  ASSUME NEW seen \in SUBSET Occurrence, NEW save \in Save
  PROVE  Marks(Remembered(seen, save)) =
           NowMarks(save) \cup
             {m \in Marks(seen) : m[1] # save.document /\ m[2] \notin Removals(save)}
<1> DEFINE new(i) == New(seen, save, i)
           others == {o \in seen : o.document # save.document
                                     /\ o.relationship \notin Removals(save)}
           mark(o) == <<o.document, o.relationship, o.ordinal + 1>>
<1>1. \A i \in Observed(save) : mark(new(i)) = MarkOf(save, i)
  BY DEF New, MarkOf
<1>2. Marks(Remembered(seen, save)) =
        {mark(o) : o \in others} \cup {mark(new(i)) : i \in Observed(save)}
  BY DEF Marks, Remembered
<1>3. {mark(new(i)) : i \in Observed(save)} = NowMarks(save)
  BY <1>1 DEF NowMarks
<1>4. \A o : mark(o)[1] = o.document /\ mark(o)[2] = o.relationship
  OBVIOUS
<1>5. Marks(seen) = {mark(o) : o \in seen}
  BY DEF Marks
<1> HIDE DEF mark
<1>6. {mark(o) : o \in others} =
        {m \in Marks(seen) : m[1] # save.document /\ m[2] \notin Removals(save)}
  BY <1>4, <1>5
<1> QED BY <1>2, <1>3, <1>6

LEMMA RememberedIsKeyed ==
  ASSUME NEW seen \in SUBSET Occurrence, IsFiniteSet(seen), Ordered(seen),
         Keyed(seen), NEW save \in Save
  PROVE  /\ Remembered(seen, save) \in SUBSET Occurrence
         /\ IsFiniteSet(Remembered(seen, save))
         /\ Keyed(Remembered(seen, save))
<1> DEFINE new == [i \in Observed(save) |-> New(seen, save, i)]
           now == {new[i] : i \in Observed(save)}
           others == {o \in seen : o.document # save.document
                                     /\ o.relationship \notin Removals(save)}
<1>1. Remembered(seen, save) = others \cup now
  BY DEF Remembered
<1>2. now \in SUBSET Occurrence
  BY SaveOrders
<1>3. IsFiniteSet(Observed(save))
  BY SaveFields, FS_Subset DEF Observed
<1>4. new \in Surjection(Observed(save), now)
  BY DEF Surjection
<1>5. IsFiniteSet(now) /\ IsFiniteSet(others)
  BY <1>3, <1>4, FS_Surjection, FS_Subset
<1>6. IsFiniteSet(others \cup now)
  BY <1>5, FS_Union
<1>7. \A i \in Observed(save) :
        /\ new[i].document = save.document /\ new[i].relationship = save.joins[i]
        /\ new[i].ordinal = Ordinal(save, i)
  BY DEF New
<1>8. ASSUME NEW o \in others \cup now, NEW p \in others \cup now,
             o.document = p.document, o.relationship = p.relationship,
             o.ordinal = p.ordinal
      PROVE  o = p
  <2>1. CASE o.document # save.document
    <3>1. o \in seen /\ p \in seen
      BY <1>7, <1>8, <2>1
    <3> QED BY <1>8, <3>1 DEF Keyed
  <2>2. CASE o.document = save.document
    <3>1. PICK i \in Observed(save) : o = new[i]
      BY <2>2
    <3>2. PICK j \in Observed(save) : p = new[j]
      BY <1>8, <2>2
    <3>3. save.joins[i] = save.joins[j] /\ Ordinal(save, i) = Ordinal(save, j)
      BY <1>7, <1>8, <3>1, <3>2
    <3>4. i = j
      BY <3>3, ObservedFields, OrdinalsDiffer
    <3> QED BY <3>1, <3>2, <3>4
  <2> QED BY <2>1, <2>2
<1> QED BY <1>1, <1>2, <1>6, <1>8 DEF Keyed

(* As many occurrences as marks.                                           *)
LEMMA OneMarkEach ==
  ASSUME NEW seen \in SUBSET Occurrence, IsFiniteSet(seen), Keyed(seen)
  PROVE  Cardinality(Marks(seen)) = Cardinality(seen)
<1> DEFINE mark == [o \in seen |-> <<o.document, o.relationship, o.ordinal + 1>>]
           marks == Marks(seen)
<1>1. mark \in [seen -> marks]
  BY DEF Marks
<1>2. \A m \in marks : \E o \in seen : mark[o] = m
  BY DEF Marks
<1>3. ASSUME NEW o \in seen, NEW p \in seen, mark[o] = mark[p]
      PROVE  o = p
  <2>1. /\ o.document = p.document /\ o.relationship = p.relationship
        /\ o.ordinal + 1 = p.ordinal + 1
    BY <1>3
  <2>2. o.ordinal = p.ordinal
    BY <2>1, OccurrenceFields
  <2> QED BY <2>1, <2>2 DEF Keyed
<1>4. mark \in Bijection(seen, marks)
  <2>1. DOMAIN mark = seen
    OBVIOUS
  <2> HIDE DEF mark, marks
  <2> QED BY <1>1, <1>2, <1>3, <2>1 DEF Bijection, Injection, IsInjective, Surjection
<1> QED BY <1>4, FS_Bijection DEF ExistsBijection

(* Marks are only forgotten at the bound.                                  *)
LEMMA ForgottenAtBound ==
  ASSUME NEW seen \in SUBSET Occurrence, IsFiniteSet(seen), Ordered(seen),
         Keyed(seen), NEW save \in Save
  PROVE  LET all == Marks(Remembered(seen, save))
             kept == Marks(SeenAfter(seen, save))
         IN  /\ kept \subseteq all
             /\ kept # all => Cardinality(kept) = OccurrenceLimit
<1> DEFINE all == Remembered(seen, save)
           kept == SeenAfter(seen, save)
<1>1. kept = BoundSeenOccurrences(all)
  BY SeenAfterParts DEF Remembered
<1>2. /\ all \in SUBSET Occurrence /\ IsFiniteSet(all) /\ Keyed(all)
  BY RememberedIsKeyed
<1>3. kept \subseteq all
  BY <1>1 DEF BoundSeenOccurrences
<1>4. /\ IsFiniteSet(kept)
      /\ kept # all => Cardinality(kept) = OccurrenceLimit
  BY <1>1, <1>2, NewestStay
<1>5. kept \in SUBSET Occurrence /\ Keyed(kept)
  BY <1>2, <1>3 DEF Keyed
<1>6. Cardinality(Marks(kept)) = Cardinality(kept)
  BY <1>4, <1>5, OneMarkEach
<1>7. Marks(kept) \subseteq Marks(all)
  BY <1>3 DEF Marks
<1>8. Marks(kept) # Marks(all) => kept # all
  OBVIOUS
<1> QED BY <1>4, <1>6, <1>7, <1>8

(* The ledger counts as the store does.                                    *)
LEMMA LedgerCardinality ==
  ASSUME NEW S
  PROVE  Ledger!Cardinality(S) = Cardinality(S)
BY DEF Ledger!Cardinality, Cardinality

-----------------------------------------------------------------------------
(* The store implements the ledger.  The invariant it needs besides: no    *)
(* JOIN is remembered twice, and no document waits with more JOINs than    *)
(* the ledger's bound.                                                     *)
LInv ==
  /\ Keyed(file.seen) /\ Keyed(memory.seen)
  /\ \A i \in DOMAIN queue :
       queue[i].op = "update" => Len(queue[i].save.joins) <= MaxJoins

LEMMA FewerAreKeyed ==
  ASSUME NEW seen, Keyed(seen)
  PROVE  Keyed(BoundSeenOccurrences(seen)) /\ Keyed({})
BY DEF Keyed, BoundSeenOccurrences

LEMMA SaveIsKeyed ==
  ASSUME NEW seen \in SUBSET Occurrence, IsFiniteSet(seen), Ordered(seen),
         Keyed(seen), NEW save \in Save
  PROVE  Keyed(SeenAfter(seen, save))
<1>1. SeenAfter(seen, save) = BoundSeenOccurrences(Remembered(seen, save))
  BY SeenAfterParts DEF Remembered
<1> QED BY <1>1, RememberedIsKeyed, FewerAreKeyed

LEMMA LedgerInitHolds == Init => LInv
<1> SUFFICES ASSUME Init PROVE LInv
  OBVIOUS
<1>1. file.seen = {} /\ memory.seen = {} /\ DOMAIN queue = {}
  BY DEF Init, NoFile, Invalid, Unread, Empty, Valid
<1> QED BY <1>1 DEF LInv, Keyed

LEMMA LedgerNextHolds == IInv /\ TInv /\ LInv /\ [Next]_vars => LInv'
<1> SUFFICES ASSUME IInv, TInv, LInv, [Next]_vars PROVE LInv'
  OBVIOUS
<1> DEFINE Short(q) == \A i \in DOMAIN q :
                         q[i].op = "update" => Len(q[i].save.joins) <= MaxJoins
<1>1. Short(queue) /\ queue \in Seq(Request)
  BY DEF LInv, IInv
<1>2. ASSUME queue # <<>> PROVE Short(Tail(queue))
  <2> SUFFICES ASSUME NEW i \in DOMAIN Tail(queue), Tail(queue)[i].op = "update"
               PROVE  Len(Tail(queue)[i].save.joins) <= MaxJoins
    OBVIOUS
  <2>1. i + 1 \in DOMAIN queue /\ Tail(queue)[i] = queue[i + 1]
    BY <1>1, <1>2
  <2> QED BY <1>1, <2>1
<1>3. CASE Requests
  <2>1. PICK q \in Request :
          /\ queue' = Append(queue, q)
          /\ q.op = "update" => Len(q.save.joins) <= MaxJoins
    <3>1. CASE \E op \in {"read", "clear"} :
                 queue' = Append(queue, [op |-> op, save |-> None])
      BY <3>1 DEF Request
    <3>2. CASE \E d \in Document, joins \in Texts, known \in SUBSET Relationship :
                 queue' = Append(queue, [op |-> "update", save |->
                   [document |-> d, joins |-> joins, known |-> known]])
      BY <3>2, TextsAssumption DEF Request, Save
    <3> QED BY <1>3, <3>1, <3>2 DEF Requests
  <2>2. Short(queue')
    <3> SUFFICES ASSUME NEW i \in DOMAIN queue', queue'[i].op = "update"
                 PROVE  Len(queue'[i].save.joins) <= MaxJoins
      OBVIOUS
    <3>1. (i \in DOMAIN queue /\ queue'[i] = queue[i]) \/ queue'[i] = q
      BY <1>1, <2>1
    <3> QED BY <1>1, <2>1, <3>1
  <2> QED BY <1>3, <2>2 DEF Requests, LInv
<1>4. CASE Load
  <2>1. Keyed(Parsed(file).seen)
    BY FewerAreKeyed DEF LInv, Parsed, Valid, Empty
  <2> QED BY <1>4, <2>1 DEF Load, LInv
<1>5. CASE LoadFails \/ Read \/ UpdateNothing \/ WriteFails \/ ClearFails
  <2>1. queue # <<>> /\ queue' = Tail(queue) /\ UNCHANGED <<file, memory>>
    BY <1>5 DEF LoadFails, Read, UpdateNothing, WriteFails, ClearFails,
                Settles, Running, IInv
  <2> QED BY <1>2, <2>1 DEF LInv
<1>6. CASE StartWrite
  BY <1>6 DEF StartWrite, LInv
<1>7. CASE Written
  <2> DEFINE save == Head(queue).save
             seen == SeenAfter(memory.seen, save)
  <2>1. Head(queue) \in Request /\ Head(queue).op = "update" /\ queue # <<>>
    BY <1>7 DEF Written, IInv
  <2>2. save \in Save
    BY <2>1 DEF Request
  <2>3. Keyed(seen)
    BY <2>2, SaveIsKeyed DEF IInv, Counted, TInv, State, LInv
  <2>4. file'.seen = seen /\ memory'.seen = seen /\ queue' = Tail(queue)
    BY <1>7 DEF Written, Settles, Updated, Valid, Version2
  <2> QED BY <1>2, <2>1, <2>3, <2>4 DEF LInv
<1>8. CASE Clear
  <2>1. queue # <<>> /\ queue' = Tail(queue) /\ file'.seen = {} /\ memory'.seen = {}
    BY <1>8 DEF Clear, Settles, Running, NoFile, Empty, Valid
  <2> QED BY <1>2, <2>1 DEF LInv, Keyed
<1>9. CASE Restart
  <2>1. queue' = <<>> /\ file' = file /\ memory'.seen = {}
    BY <1>9 DEF Restart, Unread, Empty, Valid
  <2> QED BY <2>1 DEF LInv, Keyed
<1>10. CASE UNCHANGED vars
  BY <1>10 DEF vars, LInv
<1> QED BY <1>3, <1>4, <1>5, <1>6, <1>7, <1>8, <1>9, <1>10 DEF Next, Serves

LEMMA LedgerInvariance == Spec => []LInv
<1>1. IInv /\ TInv /\ LInv /\ [Next]_vars => LInv'
  BY LedgerNextHolds
<1> QED BY <1>1, LedgerInitHolds, Invariance, TypeInvariance, PTL DEF Spec

(* Whatever is saved, however many documents and JOINs there are, the      *)
(* store remembers at most MAX_LEARNED_RELATIONSHIP_EVIDENCE records and   *)
(* MAX_LEARNED_RELATIONSHIP_SEEN_OCCURRENCES occurrences, writes no more   *)
(* than that, never has one JOIN of a document twice, and no two           *)
(* occurrences have the same insertion order, so that the one evicted next *)
(* is determined.                                                          *)
THEOREM TypeCorrect == Spec => []TypeOK
<1>1. IInv /\ TInv /\ LInv => TypeOK
  BY DEF IInv, TInv, LInv, TypeOK, OrdersDiffer, Ordered
<1> QED BY <1>1, Invariance, TypeInvariance, LedgerInvariance, PTL

(* One update is one observation of the ledger.                            *)
LEMMA SaveObserves ==
  ASSUME Cardinality(Relationship) <= EvidenceLimit,
         NEW e \in Evidence, NEW seen \in SUBSET Occurrence, IsFiniteSet(seen),
         Ordered(seen), Keyed(seen), NEW save \in Save, Len(save.joins) <= MaxJoins,
         Parsed(file).evidence = e, Parsed(file).seen = seen,
         Parsed(file)'.evidence = EvidenceAfter(e, seen, save),
         Parsed(file)'.seen = SeenAfter(seen, save)
  PROVE  Ledger!Next
<1> DEFINE d == save.document
           joins == JoinCounts(save)
           removed == Removals(save)
           now == {m \in {d} \X (Relationship \ removed) \X (1..MaxJoins) :
                     m[3] <= joins[m[2]]}
           remembered == now \cup {m \in Marks(seen) : m[1] # d /\ m[2] \notin removed}
           counts == [r \in Relationship |->
             IF r \in removed THEN 0
             ELSE e[r] + Cardinality({m \in now \ Marks(seen) : m[2] = r})]
<1>1. now = NowMarks(save)
  BY LedgerNow
<1>2. remembered = Marks(Remembered(seen, save))
  BY <1>1, RememberedMarks
<1>3. EvidenceAfter(e, seen, save) = counts
  <2> DEFINE all == [r \in Relationship |->
        IF r \in Removals(save) THEN 0
        ELSE e[r] + Cardinality({i \in Fresh(seen, save) : save.joins[i] = r})]
  <2>1. all \in Evidence
    <3> SUFFICES ASSUME NEW r \in Relationship PROVE all[r] \in Nat
      BY DEF Evidence
    <3>1. {i \in Fresh(seen, save) : save.joins[i] = r} \subseteq DOMAIN save.joins
      BY DEF Fresh, Observed
    <3>2. Cardinality({i \in Fresh(seen, save) : save.joins[i] = r}) \in Nat
      BY <3>1, SaveFields, FS_Subset, FS_CardinalityType
    <3> QED BY <3>2 DEF Evidence
  <2>2. EvidenceAfter(e, seen, save) = all
    BY <2>1, AllAreStrongest DEF EvidenceAfter
  <2>3. ASSUME NEW r \in Relationship
        PROVE  Cardinality({m \in now \ Marks(seen) : m[2] = r})
                 = Cardinality({i \in Fresh(seen, save) : save.joins[i] = r})
    <3>1. {m \in now \ Marks(seen) : m[2] = r} = {m \in NowMarks(save) \ Marks(seen) : m[2] = r}
      BY <1>1
    <3>2. Cardinality({m \in NowMarks(save) \ Marks(seen) : m[2] = r})
            = Cardinality({i \in Fresh(seen, save) : save.joins[i] = r})
      BY LedgerCounts
    <3> HIDE DEF now
    <3> QED BY <3>1, <3>2
  <2> HIDE DEF now
  <2>4. all = counts
    BY <2>3
  <2> QED BY <2>2, <2>4
<1>4. /\ Marks(SeenAfter(seen, save)) \subseteq remembered
      /\ Marks(SeenAfter(seen, save)) # remembered =>
           Cardinality(Marks(SeenAfter(seen, save))) = OccurrenceLimit
  BY <1>2, ForgottenAtBound
<1>5. d \in Document /\ removed \in SUBSET Relationship
  BY SaveFields DEF Removals
<1>6. joins \in [Relationship -> 0..MaxJoins]
  <2> SUFFICES ASSUME NEW r \in Relationship
               PROVE  Cardinality(JoinsOf(save, r)) \in 0..MaxJoins
    BY DEF JoinCounts
  <2>1. Cardinality(JoinsOf(save, r)) \in 0..Len(save.joins) /\ Len(save.joins) \in Nat
    BY OrdinalsRank, SaveFields
  <2> QED BY <2>1, BoundAssumption
<1>7. Ledger!Observe(d, joins, removed)
  <2>1. (Parsed(file).evidence)' = [r \in Relationship |->
          IF r \in removed THEN 0
          ELSE e[r] + Ledger!Cardinality({m \in now \ Marks(seen) : m[2] = r})]
    BY <1>3, LedgerCardinality
  <2>2. Marks(Parsed(file).seen)' = Marks(SeenAfter(seen, save))
    BY DEF Marks
  <2>3. /\ Marks(Parsed(file).seen)' \subseteq remembered
        /\ Marks(Parsed(file).seen)' # remembered =>
             Ledger!Cardinality(Marks(Parsed(file).seen)') = OccurrenceLimit
    BY <1>4, <2>2, LedgerCardinality
  <2> HIDE DEF d, joins, removed
  <2> QED BY <2>1, <2>3 DEF Ledger!Observe
<1> QED BY <1>5, <1>6, <1>7 DEF Ledger!Next

LEMMA LedgerSteps ==
  ASSUME Cardinality(Relationship) <= EvidenceLimit
  PROVE  IInv /\ TInv /\ LInv /\ [Next]_vars => [Ledger!Next]_Ledger!vars
<1> SUFFICES ASSUME IInv, TInv, LInv, [Next]_vars
             PROVE  [Ledger!Next]_Ledger!vars
  OBVIOUS
<1>1. ASSUME file' = file
      PROVE  UNCHANGED Ledger!vars
  BY <1>1 DEF Ledger!vars, Parsed, Marks
<1>2. CASE Written
  <2> DEFINE save == Head(queue).save
             e == EvidenceAfter(memory.evidence, memory.seen, save)
             seen == SeenAfter(memory.seen, save)
  <2>1. Head(queue) \in Request /\ Head(queue).op = "update" /\ queue # <<>>
          /\ memory = Parsed(file)
    BY <1>2 DEF Written, IInv, MemoryIsFile
  <2>2. save \in Save /\ Len(save.joins) <= MaxJoins
    <3>1. 1 \in DOMAIN queue /\ Head(queue) = queue[1]
      BY <2>1 DEF IInv
    <3> QED BY <2>1, <3>1 DEF Request, LInv
  <2>3. /\ memory.evidence \in Evidence /\ memory.seen \in SUBSET Occurrence
        /\ IsFiniteSet(memory.seen) /\ Ordered(memory.seen) /\ Keyed(memory.seen)
    BY DEF IInv, Counted, TInv, LInv, State
  <2>4. StrongestEvidence(e) = e /\ BoundSeenOccurrences(seen) = seen
    BY <2>2, <2>3, SaveType
  <2>5. file' = Version2(e, seen)
    BY <1>2 DEF Written, Updated, Valid
  <2> HIDE DEF e, seen
  <2>6. Parsed(file)'.evidence = e /\ Parsed(file)'.seen = seen
    BY <2>4, <2>5 DEF Parsed, Version2, Valid
  <2>7. Parsed(file).evidence = memory.evidence /\ Parsed(file).seen = memory.seen
    BY <2>1
  <2>8. Ledger!Next
    BY <2>2, <2>3, <2>6, <2>7, SaveObserves DEF e, seen
  <2> QED BY <2>8
<1>3. CASE Clear
  <2>1. Parsed(file)' = Empty
    BY <1>3, NoFileIsEmpty DEF Clear
  <2>2. Ledger!Clear
    BY <2>1 DEF Ledger!Clear, Ledger!Nothing, Empty, Valid, NoEvidence, Marks
  <2> QED BY <2>2 DEF Ledger!Next
<1>4. CASE ~Written /\ ~Clear
  <2>1. file' = file
    BY <1>4 DEF Next, Serves, Requests, Load, LoadFails, Read, UpdateNothing,
                StartWrite, WriteFails, ClearFails, Restart, vars
  <2> QED BY <1>1, <2>1
<1> QED BY <1>2, <1>3, <1>4

LEMMA LedgerInit == Init => Ledger!Init
<1> SUFFICES ASSUME Init PROVE Ledger!Init
  OBVIOUS
<1>1. CASE file \in {NoFile, Invalid}
  <2>1. Parsed(file).evidence = NoEvidence /\ Parsed(file).seen = {}
    BY <1>1, NoFileIsEmpty DEF Parsed, Invalid, NoFile, Empty, Valid
  <2> QED BY <2>1 DEF Ledger!Init, NoEvidence, Marks
<1>2. CASE \E e \in [Relationship -> 0..1] :
             file = [version |-> "1", evidence |-> e, seen |-> {}]
  <2>1. PICK e \in [Relationship -> 0..1] :
          file = [version |-> "1", evidence |-> e, seen |-> {}]
    BY <1>2
  <2>2. Parsed(file).evidence = StrongestEvidence(e)
          /\ Parsed(file).seen = BoundSeenOccurrences({})
    BY <2>1 DEF Parsed, Valid
  <2>3. StrongestEvidence(e) \in [Relationship -> 0..1]
    BY DEF StrongestEvidence
  <2>4. BoundSeenOccurrences({}) = {}
    BY DEF BoundSeenOccurrences
  <2> QED BY <2>2, <2>3, <2>4 DEF Ledger!Init, Marks
<1> QED BY <1>1, <1>2 DEF Init

(* As long as there is room for a record of every relationship, every      *)
(* update that is written counts, once, exactly the JOINs the document     *)
(* gained since it was last observed, forgets the document's JOINs that    *)
(* are gone, and evicts a marker only when all its places are taken; no    *)
(* other request, failure or reload changes the ledger.                    *)
THEOREM StoreImplementsLedger ==
  ASSUME Cardinality(Relationship) <= EvidenceLimit
  PROVE  Spec => LedgerSpec
<1>1. IInv /\ TInv /\ LInv /\ [Next]_vars => [Ledger!Next]_Ledger!vars
  BY LedgerSteps
<1> QED BY <1>1, LedgerInit, Invariance, TypeInvariance, LedgerInvariance, PTL
        DEF Spec, LedgerSpec, Ledger!Spec
=============================================================================
