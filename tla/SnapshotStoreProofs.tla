------------------------ MODULE SnapshotStoreProofs ------------------------
(***************************************************************************)
(* Proofs about the snapshot files, for any number of windows, calls and   *)
(* temporary files.  The invariant has three parts beside the types: a     *)
(* temporary file has one save, a save that was flushed finds its own      *)
(* snapshot in it, and the path holds only what was flushed.               *)
(***************************************************************************)
EXTENDS SnapshotStore, TLAPS

NameOf(o) == operation[o].name

(* A name in use is used by one save, and flushed files exist.             *)
Exclusive ==
  /\ \A o, p \in Operation : NameOf(o) = NameOf(p) /\ NameOf(o) # None => o = p
  /\ \A n \in flushed : temporary[n] # None

(* The file of a save exists, and holds what its progress says.            *)
Sound(o) ==
  /\ NameOf(o) \in Name => temporary[NameOf(o)] # None
  /\ At(o, "flushing") => temporary[NameOf(o)] = operation[o].snapshot
  /\ operation[o].complete /\ (At(o, "closing") \/ At(o, "renaming")) =>
       temporary[NameOf(o)] = operation[o].snapshot /\ NameOf(o) \in flushed
  /\ At(o, "renaming") => operation[o].complete
  /\ At(o, "opening") \/ At(o, "writing") \/ At(o, "flushing") =>
       ~operation[o].complete

IInv ==
  /\ TypeOK /\ Exclusive /\ PublishedIsWhole
  /\ \A o \in Operation : Sound(o)

LEMMA InitHolds == Init => IInv
  BY ContentAssumption, NameAssumption
     DEF Init, IInv, TypeOK, Exclusive, Sound, PublishedIsWhole, Idle, NameOf,
         At, Purpose, Content, Progress

LEMMA TypeNext == TypeOK /\ [Next]_vars => TypeOK'
<1> SUFFICES ASSUME TypeOK, [Next]_vars PROVE TypeOK'
  OBVIOUS
<1> USE NameAssumption, ContentAssumption DEF TypeOK, Content, Progress
<1>1. ASSUME NEW o \in Operation, NEW w \in Window, Starts(o, w) PROVE TypeOK'
  <2>1. PICK pc \in {"opening", "reading", "deleting"},
             s \in Snapshot \cup {None} :
          /\ operation' = [operation EXCEPT ![o] = Begun(pc, w, s)]
          /\ s \in Snapshot <=> pc = "opening"
    BY <1>1 DEF Starts
  <2>2. UNCHANGED <<published, recoverable, temporary, flushed>>
    BY <1>1 DEF Starts, KeepsPath, KeepsFiles
  <2>3. Purpose(pc) = "save" <=> pc = "opening"
    BY DEF Purpose
  <2> QED BY <2>1, <2>2, <2>3 DEF Begun
<1>2. ASSUME NEW o \in Operation, Settles(o), KeepsPath, KeepsFiles PROVE TypeOK'
  BY <1>2 DEF Settles, Idle, Purpose, KeepsPath, KeepsFiles
<1>3. ASSUME NEW o \in Operation, Steps(o) PROVE TypeOK'
  <2>1. CASE Open(o)
    BY <2>1 DEF Open, At, Purpose, KeepsPath
  <2>2. CASE Write(o)
    BY <2>2 DEF Write, At, Goes, Purpose, KeepsPath
  <2>3. CASE Flush(o)
    <3> HIDE DEF Progress
    <3>1. NameOf(o) \in Name
      BY <2>3 DEF Flush, At, Purpose, NameOf
    <3>2. flushed' \subseteq Name /\ UNCHANGED <<published, recoverable, temporary>>
      BY <2>3, <3>1 DEF Flush, NameOf, KeepsPath
    <3>3. Purpose("closing") = "save" /\ Purpose(operation[o].pc) = "save"
      BY <2>3 DEF Flush, At, Purpose
    <3>4. operation' = [operation EXCEPT ![o] =
            [operation[o] EXCEPT !.pc = "closing", !.complete = TRUE]]
      BY <2>3 DEF Flush
    <3>5. \A p \in Operation : p # o => operation'[p] = operation[p]
      BY <3>4
    <3>6. operation[o].snapshot \in Snapshot /\ operation[o].name \in Name
      BY <3>1, <3>3 DEF NameOf
    <3>7. /\ operation'[o].pc = "closing" /\ operation'[o].complete = TRUE
          /\ operation'[o].window = operation[o].window
          /\ operation'[o].snapshot = operation[o].snapshot
          /\ operation'[o].name = operation[o].name
      BY <3>4
    <3>8. \A p \in Operation :
            /\ operation'[p].snapshot \in Snapshot <=>
                 Purpose(operation'[p].pc) = "save"
            /\ operation'[p].name \in Name <=>
                 /\ Purpose(operation'[p].pc) = "save"
                 /\ operation'[p].pc # "opening"
      BY <3>3, <3>5, <3>6, <3>7
    <3>9. operation' \in [Operation -> Progress]
      <4>1. operation[o] \in Progress
        OBVIOUS
      <4>2. [operation[o] EXCEPT !.pc = "closing", !.complete = TRUE] \in Progress
        BY <4>1 DEF Progress
      <4> QED BY <3>4, <4>2
    <3> QED BY <3>2, <3>8, <3>9
  <2>4. CASE WriteOrFlushFails(o) \/ Close(o) \/ RenameFails(o)
    BY <2>4 DEF WriteOrFlushFails, Close, RenameFails, At, Goes, Purpose,
       KeepsPath, KeepsFiles
  <2>5. CASE Rename(o)
    BY <2>5 DEF Rename, At, Publishes, Removed, Settles, Idle, Purpose
  <2>6. CASE Unlink(o)
    BY <2>6 DEF Unlink, At, Removed, Settles, Idle, Purpose, KeepsPath, KeepsFiles
  <2>7. CASE Read(o)
    BY <1>2, <2>7 DEF Read, At, Goes, Purpose, KeepsPath, KeepsFiles
  <2>8. CASE Delete(o)
    BY <1>2, <2>8 DEF Delete, Publishes, Settles, Idle, Purpose, KeepsFiles
  <2> QED BY <1>2, <1>3, <2>1, <2>2, <2>3, <2>4, <2>5, <2>6, <2>7, <2>8
          DEF Steps, OpenFails, CloseFails
<1>4. ASSUME NEW w \in Window, WindowEnds(w) PROVE TypeOK'
  BY <1>4 DEF WindowEnds, Idle, Purpose, KeepsPath, KeepsFiles
<1>5. CASE MachineStops
  BY <1>5 DEF MachineStops, Idle, Purpose
<1>6. CASE UNCHANGED vars
  BY <1>6 DEF vars
<1> QED BY <1>1, <1>3, <1>4, <1>5, <1>6 DEF Next

THEOREM TypeCorrect == Spec => []TypeOK
<1>1. Init => TypeOK
  BY InitHolds DEF IInv
<1> QED BY <1>1, TypeNext, PTL DEF Spec

(* What a step of o leaves alone: the other calls and their files.         *)
Apart(o) ==
  \A p \in Operation : p # o =>
    /\ operation'[p] = operation[p]
    /\ NameOf(p) \in Name =>
         /\ temporary'[NameOf(p)] = temporary[NameOf(p)]
         /\ NameOf(p) \in flushed <=> NameOf(p) \in flushed'

(* To check a step it is enough to look at the call that takes it.         *)
LEMMA OneCall ==
  ASSUME IInv, TypeOK', NEW o \in Operation, Apart(o), Sound(o)',
         \/ NameOf(o)' \in {None, NameOf(o)}
         \/ temporary[NameOf(o)'] = None,
         \A n \in flushed' : temporary'[n] # None,
         PublishedIsWhole'
  PROVE  IInv'
<1> USE NameAssumption
<1>1. ASSUME NEW p \in Operation PROVE Sound(p)'
  <2>1. CASE p # o
    <3>1. operation'[p] = operation[p] /\ NameOf(p)' = NameOf(p)
      BY <2>1 DEF Apart, NameOf
    <3>2. NameOf(p) \in Name \/ NameOf(p) = None
      BY DEF IInv, TypeOK, Progress, NameOf
    <3>3. Sound(p)
      BY DEF IInv
    <3>4. NameOf(p) = None => ~At(p, "flushing") /\ ~At(p, "closing")
                              /\ ~At(p, "renaming")
      BY DEF IInv, TypeOK, NameOf, At, Purpose
    <3> QED BY <2>1, <3>1, <3>2, <3>3, <3>4 DEF Apart, Sound, At
  <2> QED BY <2>1
<1>2. ASSUME NEW p \in Operation, p # o, NameOf(p)' = NameOf(o)',
             NameOf(p)' # None
      PROVE  FALSE
  <2>1. NameOf(p)' = NameOf(p)
    BY <1>2 DEF Apart, NameOf
  <2>2. NameOf(p) \in Name
    BY <1>2, <2>1 DEF IInv, TypeOK, Progress, NameOf
  <2>3. temporary[NameOf(p)] # None
    BY <2>2 DEF IInv, Sound
  <2> QED BY <1>2, <2>1, <2>3 DEF IInv, Exclusive
<1>3. ASSUME NEW p \in Operation, NEW q \in Operation,
             NameOf(p)' = NameOf(q)', NameOf(p)' # None
      PROVE  p = q
  <2>1. CASE p # o /\ q # o
    BY <1>3, <2>1 DEF Apart, NameOf, IInv, Exclusive
  <2> QED BY <1>2, <1>3, <2>1
<1>4. Exclusive'
  BY <1>3 DEF Exclusive
<1> QED BY <1>1, <1>4 DEF IInv

LEMMA InvNext == IInv /\ [Next]_vars => IInv'
<1> SUFFICES ASSUME IInv, [Next]_vars PROVE IInv'
  OBVIOUS
<1> USE NameAssumption, ContentAssumption
<1>1. TypeOK /\ TypeOK'
  BY TypeNext DEF IInv
<1>2. ASSUME NEW o \in Operation, NEW r,
             operation' = [operation EXCEPT ![o] = r]
      PROVE  /\ operation'[o] = r /\ NameOf(o)' = r.name
             /\ \A p \in Operation : p # o => operation'[p] = operation[p]
  BY <1>1, <1>2 DEF TypeOK, NameOf
(* A step that touches no file.                                            *)
<1>3. ASSUME NEW o \in Operation, NEW r,
             operation' = [operation EXCEPT ![o] = r],
             r.name \in {None, NameOf(o)}, Sound(o)',
             KeepsFiles, PublishedIsWhole'
      PROVE  IInv'
  <2>1. Apart(o)
    BY <1>2, <1>3 DEF Apart, KeepsFiles
  <2>2. \A n \in flushed' : temporary'[n] # None
    BY <1>3 DEF KeepsFiles, IInv, Exclusive
  <2> QED BY <1>1, <1>2, <1>3, <2>1, <2>2, OneCall
<1>4. ASSUME NEW o \in Operation, Settles(o) PROVE Sound(o)' /\ NameOf(o)' = None
  <2>1. operation'[o] = Idle
    BY <1>2, <1>4 DEF Settles
  <2>2. /\ operation'[o].name = None
        /\ operation'[o].pc = "idle"
        /\ operation'[o].complete = FALSE
    BY <2>1 DEF Idle
  <2> QED BY <2>2 DEF Sound, At, NameOf
<1>5. ASSUME NEW o \in Operation, Settles(o), KeepsFiles, PublishedIsWhole'
      PROVE  IInv'
  BY <1>3, <1>4, <1>5 DEF Settles, Idle
<1>6. KeepsPath => PublishedIsWhole'
  BY DEF KeepsPath, IInv, PublishedIsWhole
<1>7. ASSUME NEW o \in Operation, NEW w \in Window, Starts(o, w) PROVE IInv'
  <2>1. PICK pc \in {"opening", "reading", "deleting"},
             s \in Snapshot \cup {None} :
          operation' = [operation EXCEPT ![o] = Begun(pc, w, s)]
    BY <1>7 DEF Starts
  <2>2. Sound(o)'
    <3>1. operation'[o] = Begun(pc, w, s)
      BY <1>2, <2>1
    <3>2. /\ operation'[o].name = None
          /\ operation'[o].pc = pc
          /\ operation'[o].complete = FALSE
      BY <3>1 DEF Begun
    <3> QED BY <3>2 DEF Sound, At, NameOf
  <2>3. KeepsFiles /\ PublishedIsWhole'
    BY <1>6, <1>7 DEF Starts
  <2> QED BY <1>3, <2>1, <2>2, <2>3 DEF Begun
<1>8. ASSUME NEW o \in Operation, Steps(o) PROVE IInv'
  <2>1. Sound(o) /\ NameOf(o) \in Name \cup {None}
    BY <1>1 DEF IInv, TypeOK, Progress, NameOf
  <2>2. ASSUME NEW r, operation' = [operation EXCEPT ![o] = r],
               Apart(o), Sound(o)', r.name \in {None, NameOf(o)},
               \A n \in flushed' : temporary'[n] # None, PublishedIsWhole'
        PROVE  IInv'
    BY <1>1, <1>2, <2>2, OneCall
  <2>3. CASE Open(o)
    <3>1. PICK n \in Name :
            /\ temporary[n] = None
            /\ temporary' = [temporary EXCEPT ![n] = Partial]
            /\ operation' = [operation EXCEPT ![o] =
                 [operation[o] EXCEPT !.pc = "writing", !.name = n]]
      BY <2>3 DEF Open
    <3>2. /\ operation'[o].name = n /\ operation'[o].pc = "writing"
          /\ operation'[o].complete = operation[o].complete
          /\ \A p \in Operation : p # o => operation'[p] = operation[p]
      BY <1>1, <3>1 DEF TypeOK
    <3>3. \A p \in Operation : NameOf(p) # n
      BY <3>1 DEF IInv, Sound
    <3>4. n \notin flushed
      BY <3>1 DEF IInv, Exclusive
    <3>5. UNCHANGED flushed /\ PublishedIsWhole'
      BY <1>6, <2>3 DEF Open
    <3>6. Apart(o)
      BY <1>1, <3>1, <3>2, <3>3, <3>5 DEF Apart, TypeOK
    <3>7. ~operation[o].complete
      BY <2>3 DEF Open, IInv, Sound, At
    <3>8. Sound(o)'
      BY <1>1, <3>1, <3>2, <3>7 DEF Sound, At, NameOf, TypeOK
    <3>9. \A m \in flushed' : temporary'[m] # None
      BY <1>1, <3>1, <3>4, <3>5 DEF TypeOK, IInv, Exclusive
    <3>10. temporary[NameOf(o)'] = None
      BY <3>1, <3>2 DEF NameOf
    <3> QED BY <1>1, <3>5, <3>6, <3>8, <3>9, <3>10, OneCall
  <2>4. CASE Write(o)
    <3> DEFINE n == NameOf(o)
    <3>1. /\ n \in Name /\ temporary' = [temporary EXCEPT ![n] = operation[o].snapshot]
          /\ operation[o].snapshot \in Snapshot /\ ~operation[o].complete
          /\ operation' = [operation EXCEPT ![o] = [operation[o] EXCEPT !.pc = "flushing"]]
          /\ UNCHANGED flushed
      BY <1>1, <2>1, <2>4 DEF Write, Goes, At, NameOf, TypeOK, Purpose, Sound
    <3>2. /\ operation'[o].name = n /\ operation'[o].pc = "flushing"
          /\ operation'[o].snapshot = operation[o].snapshot
          /\ operation'[o].complete = operation[o].complete
          /\ \A p \in Operation : p # o => operation'[p] = operation[p]
      BY <1>1, <3>1 DEF TypeOK, Progress, NameOf
    <3>3. temporary'[n] = operation[o].snapshot /\ temporary'[n] # None
      BY <1>1, <3>1 DEF TypeOK
    <3>4. Sound(o)'
      BY <3>1, <3>2, <3>3 DEF Sound, At, NameOf
    <3>5. \A p \in Operation : p # o => NameOf(p) # n
      BY <3>1 DEF IInv, Exclusive
    <3>6. Apart(o)
      BY <1>1, <3>1, <3>2, <3>5 DEF Apart, TypeOK
    <3>7. \A m \in flushed' : temporary'[m] # None
      BY <1>1, <3>1, <3>3 DEF TypeOK, IInv, Exclusive
    <3>8. PublishedIsWhole'
      BY <1>6, <2>4 DEF Write
    <3> QED BY <2>2, <3>1, <3>2, <3>4, <3>6, <3>7, <3>8 DEF NameOf
  <2>5. CASE Flush(o)
    <3> DEFINE n == NameOf(o)
    <3>1. /\ n \in Name /\ flushed' = flushed \cup {n} /\ UNCHANGED temporary
          /\ temporary[n] = operation[o].snapshot /\ temporary[n] # None
          /\ operation' = [operation EXCEPT ![o] =
               [operation[o] EXCEPT !.pc = "closing", !.complete = TRUE]]
      BY <1>1, <2>1, <2>5 DEF Flush, At, NameOf, TypeOK, Purpose, Sound
    <3>2. /\ operation'[o].name = n /\ operation'[o].pc = "closing"
          /\ operation'[o].snapshot = operation[o].snapshot
          /\ \A p \in Operation : p # o => operation'[p] = operation[p]
      BY <1>1, <3>1 DEF TypeOK, Progress, NameOf
    <3>3. Sound(o)'
      BY <3>1, <3>2 DEF Sound, At, NameOf
    <3>4. \A p \in Operation : p # o => NameOf(p) # n
      BY <3>1 DEF IInv, Exclusive
    <3>5. Apart(o)
      BY <3>1, <3>2, <3>4 DEF Apart
    <3>6. \A m \in flushed' : temporary'[m] # None
      BY <3>1 DEF IInv, Exclusive
    <3>7. PublishedIsWhole'
      BY <1>6, <2>5 DEF Flush
    <3> QED BY <2>2, <3>1, <3>2, <3>3, <3>5, <3>6, <3>7 DEF NameOf
  <2>6. CASE WriteOrFlushFails(o)
    <3>1. /\ operation' = [operation EXCEPT ![o] = [operation[o] EXCEPT !.pc = "closing"]]
          /\ ~operation[o].complete /\ KeepsFiles /\ KeepsPath
      BY <1>1, <2>1, <2>6 DEF WriteOrFlushFails, Goes, At, Sound, TypeOK
    <3>2. /\ operation'[o].name = NameOf(o) /\ operation'[o].pc = "closing"
          /\ operation'[o].complete = operation[o].complete
      BY <1>1, <3>1 DEF TypeOK, Progress, NameOf
    <3>3. Sound(o)'
      BY <2>1, <3>1, <3>2 DEF Sound, At, NameOf, KeepsFiles
    <3> QED BY <1>3, <1>6, <3>1, <3>2, <3>3 DEF NameOf
  <2>7. CASE Close(o)
    <3>1. PICK pc \in {"renaming", "unlinking"} :
            /\ operation' = [operation EXCEPT ![o] = [operation[o] EXCEPT !.pc = pc]]
            /\ pc = "renaming" => operation[o].complete
            /\ At(o, "closing") /\ KeepsFiles /\ KeepsPath
      BY <1>1, <2>7 DEF Close, Goes, TypeOK
    <3>2. /\ operation'[o].name = NameOf(o) /\ operation'[o].pc = pc
          /\ operation'[o].complete = operation[o].complete
          /\ operation'[o].snapshot = operation[o].snapshot
      BY <1>1, <3>1 DEF TypeOK, Progress, NameOf
    <3>3. Sound(o)'
      BY <2>1, <3>1, <3>2 DEF Sound, At, NameOf, KeepsFiles
    <3> QED BY <1>3, <1>6, <3>1, <3>2, <3>3 DEF NameOf
  <2>8. CASE Rename(o)
    <3> DEFINE n == NameOf(o)
    <3>1. /\ n \in Name /\ n \in flushed /\ temporary[n] \in Snapshot
          /\ temporary' = [temporary EXCEPT ![n] = None]
          /\ flushed' = flushed \ {n}
          /\ published' = temporary[n]
          /\ recoverable' = recoverable \cup {temporary[n]}
      BY <1>1, <2>1, <2>8
         DEF Rename, Removed, Publishes, At, NameOf, TypeOK, Purpose, Sound
    <3>2. operation' = [operation EXCEPT ![o] = Idle] /\ Sound(o)' /\ Idle.name = None
      BY <1>4, <2>8 DEF Rename, Settles, Idle
    <3>3. \A p \in Operation : p # o => operation'[p] = operation[p]
      BY <1>2, <3>2
    <3>4. \A p \in Operation : p # o => NameOf(p) # n
      BY <3>1 DEF IInv, Exclusive
    <3>5. Apart(o)
      BY <1>1, <3>1, <3>3, <3>4 DEF Apart, TypeOK
    <3>6. \A m \in flushed' : temporary'[m] # None
      BY <1>1, <3>1 DEF TypeOK, IInv, Exclusive
    <3>7. PublishedIsWhole'
      BY <3>1 DEF PublishedIsWhole, IInv
    <3> QED BY <2>2, <3>2, <3>5, <3>6, <3>7
  <2>9. CASE RenameFails(o)
    <3>1. /\ operation' = [operation EXCEPT ![o] = [operation[o] EXCEPT !.pc = "unlinking"]]
          /\ KeepsFiles /\ KeepsPath
      BY <2>9 DEF RenameFails, Goes
    <3>2. operation'[o].name = NameOf(o) /\ operation'[o].pc = "unlinking"
      BY <1>1, <3>1 DEF TypeOK, Progress, NameOf
    <3>3. Sound(o)'
      BY <2>1, <3>1, <3>2 DEF Sound, At, NameOf, KeepsFiles
    <3> QED BY <1>3, <1>6, <3>1, <3>2, <3>3 DEF NameOf
  <2>10. CASE Unlink(o)
    <3> DEFINE n == NameOf(o)
    <3>1. CASE KeepsFiles
      BY <1>5, <1>6, <2>10, <3>1 DEF Unlink
    <3>2. CASE Removed(n)
      <4>1. n \in Name
        BY <1>1, <2>10 DEF Unlink, At, NameOf, TypeOK, Purpose
      <4>2. operation' = [operation EXCEPT ![o] = Idle] /\ Sound(o)' /\ Idle.name = None
        BY <1>4, <2>10 DEF Unlink, Settles, Idle
      <4>3. \A p \in Operation : p # o => operation'[p] = operation[p]
        BY <1>2, <4>2
      <4>4. \A p \in Operation : p # o => NameOf(p) # n
        BY <4>1 DEF IInv, Exclusive
      <4>5. Apart(o)
        BY <1>1, <3>2, <4>1, <4>3, <4>4 DEF Apart, TypeOK, Removed
      <4>6. \A m \in flushed' : temporary'[m] # None
        BY <1>1, <3>2, <4>1 DEF TypeOK, IInv, Exclusive, Removed
      <4>7. PublishedIsWhole'
        BY <1>6, <2>10 DEF Unlink
      <4> QED BY <2>2, <4>2, <4>5, <4>6, <4>7
    <3> QED BY <2>10, <3>1, <3>2 DEF Unlink, NameOf
  <2>11. CASE Read(o)
    <3>1. CASE Settles(o)
      BY <1>5, <1>6, <2>11, <3>1 DEF Read
    <3>2. CASE Goes(o, "discarding")
      <4>1. /\ operation' = [operation EXCEPT ![o] = [operation[o] EXCEPT !.pc = "discarding"]]
            /\ KeepsFiles /\ KeepsPath
        BY <2>11, <3>2 DEF Read, Goes
      <4>2. operation'[o].name = NameOf(o) /\ operation'[o].pc = "discarding"
        BY <1>1, <4>1 DEF TypeOK, Progress, NameOf
      <4>3. Sound(o)'
        BY <2>1, <4>1, <4>2 DEF Sound, At, NameOf, KeepsFiles
      <4> QED BY <1>3, <1>6, <4>1, <4>2, <4>3 DEF NameOf
    <3> QED BY <2>11, <3>1, <3>2 DEF Read
  <2>12. CASE Delete(o)
    <3>1. PublishedIsWhole'
      BY <1>6, <2>12 DEF Delete, Publishes, PublishedIsWhole, IInv
    <3> QED BY <1>5, <2>12, <3>1 DEF Delete
  <2> QED BY <1>5, <1>6, <1>8, <2>3, <2>4, <2>5, <2>6, <2>7, <2>8, <2>9, <2>10,
             <2>11, <2>12 DEF Steps, OpenFails, CloseFails
<1>9. ASSUME NEW w \in Window, WindowEnds(w) PROVE IInv'
  <2>1. ASSUME NEW p \in Operation
        PROVE  operation'[p] = operation[p] \/ operation'[p] = Idle
    BY <1>9, <2>1 DEF WindowEnds
  <2>2. KeepsFiles /\ PublishedIsWhole'
    BY <1>6, <1>9 DEF WindowEnds
  <2>3. Exclusive'
    BY <2>1, <2>2 DEF IInv, Exclusive, KeepsFiles, NameOf, Idle
  <2>4. ASSUME NEW p \in Operation PROVE Sound(p)'
    BY <2>1, <2>2 DEF IInv, Sound, At, KeepsFiles, NameOf, Idle
  <2> QED BY <1>1, <2>2, <2>3, <2>4 DEF IInv
<1>10. CASE MachineStops
  <2>1. \A p \in Operation : operation'[p] = Idle
    BY <1>10 DEF MachineStops
  <2>2. PublishedIsWhole'
    BY <1>10 DEF MachineStops, PublishedIsWhole, IInv
  <2>3. Exclusive'
    BY <1>1, <1>10, <2>1
       DEF MachineStops, Exclusive, IInv, NameOf, Idle, TypeOK
  <2>4. \A p \in Operation : Sound(p)'
    BY <2>1 DEF Sound, At, NameOf, Idle
  <2> QED BY <1>1, <2>2, <2>3, <2>4 DEF IInv
<1>11. CASE UNCHANGED vars
  BY <1>11 DEF vars, IInv, TypeOK, Exclusive, Sound, PublishedIsWhole, At, NameOf
<1> QED BY <1>7, <1>8, <1>9, <1>10, <1>11 DEF Next

LEMMA InvAlways == Spec => []IInv
  BY InitHolds, InvNext, PTL DEF Spec

(* Nobody reads half a snapshot: however many windows save, whatever fails *)
(* and whenever a window ends or the machine stops, the path holds nothing *)
(* or a file that was written to its end.                                  *)
THEOREM NobodyReadsHalfASnapshot == Spec => []PublishedIsWhole
<1>1. IInv => PublishedIsWhole
  BY DEF IInv
<1> QED BY <1>1, InvAlways, PTL

(* The save that renames a temporary file is the one that wrote it.        *)
THEOREM SavesRenameTheirOwn == Spec => []RenamesItsOwn
<1>1. IInv => RenamesItsOwn
  BY DEF IInv, Sound, RenamesItsOwn, At, NameOf
<1> QED BY <1>1, InvAlways, PTL

-----------------------------------------------------------------------------
(* The register                                                            *)

LEMMA InitRefines == Init => Register!Init
  BY ContentAssumption
     DEF Init, Register!Init, Register!Idle, calls, kept, Called, Usable, Idle,
         Purpose

LEMMA StepRefines == IInv /\ IInv' /\ [Next]_vars => [Register!Next]_(Register!vars)
<1> SUFFICES ASSUME IInv, IInv', [Next]_vars
             PROVE  Register!Next \/ UNCHANGED Register!vars
  OBVIOUS
<1> USE ContentAssumption
<1>1. TypeOK /\ TypeOK'
  BY DEF IInv
<1>2. ASSUME NEW o \in Operation, NEW r, operation' = [operation EXCEPT ![o] = r]
      PROVE  calls' = [calls EXCEPT ![o] = Called(r)]
  BY <1>1, <1>2 DEF calls, TypeOK
<1>3. ASSUME NEW o \in Operation, NEW r, operation' = [operation EXCEPT ![o] = r],
             Called(r) = Called(operation[o])
      PROVE  calls' = calls
  BY <1>1, <1>3 DEF calls, TypeOK
<1>4. ASSUME NEW o \in Operation, NEW pc, Goes(o, pc),
             Purpose(pc) = Purpose(operation[o].pc)
      PROVE  calls' = calls
  <2> DEFINE r == [operation[o] EXCEPT !.pc = pc]
  <2>1. operation' = [operation EXCEPT ![o] = r]
    BY <1>4 DEF Goes
  <2>2. r.pc = pc /\ r.snapshot = operation[o].snapshot
    BY <1>1 DEF TypeOK, Progress
  <2> HIDE DEF r
  <2> QED BY <1>3, <1>4, <2>1, <2>2 DEF Called
<1>5. Called(Idle) = Register!Idle
  BY DEF Called, Idle, Register!Idle, Purpose
<1>6. ASSUME NEW o \in Operation, Settles(o)
      PROVE  calls' = [calls EXCEPT ![o] = Register!Idle]
  BY <1>2, <1>5, <1>6 DEF Settles
<1>7. KeepsPath => Usable(published)' = Usable(published) /\ kept' = kept
  BY DEF KeepsPath, Usable, kept
<1>8. ASSUME NEW c, Publishes(c, TRUE) PROVE Register!Becomes(Usable(c))
  BY <1>8 DEF Publishes, Register!Becomes, Usable, kept
<1>9. ASSUME NEW o \in Operation
      PROVE  /\ calls[o].purpose = Purpose(operation[o].pc)
             /\ calls[o].snapshot = operation[o].snapshot
             /\ ~At(o, "idle") => calls[o] # Register!Idle
             /\ At(o, "idle") => calls[o] = Register!Idle
  <2>1. calls[o] = Called(operation[o])
    BY DEF calls
  <2>2. operation[o] \in Progress
    BY <1>1 DEF TypeOK
  <2>3. Purpose(operation[o].pc) = "idle" <=> operation[o].pc = "idle"
    BY <2>2 DEF Purpose, Progress
  <2>4. operation[o].pc = "idle" => operation[o].snapshot = None
    BY <1>1, <2>2 DEF TypeOK, Progress, Purpose
  <2> QED BY <2>1, <2>3, <2>4 DEF Called, At, Register!Idle
<1>10. ASSUME NEW o \in Operation, ~At(o, "idle"), Settles(o), KeepsPath
       PROVE  Register!Ends(o)
  BY <1>6, <1>7, <1>9, <1>10 DEF Register!Ends
<1>11. ASSUME NEW o \in Operation, NEW w \in Window, Starts(o, w)
       PROVE  Register!Begins(o)
  <2>1. PICK pc \in {"opening", "reading", "deleting"},
             s \in Snapshot \cup {None} :
          /\ operation' = [operation EXCEPT ![o] = Begun(pc, w, s)]
          /\ IF pc = "opening" THEN s \in Snapshot ELSE s = None
    BY <1>11 DEF Starts
  <2>2. calls' = [calls EXCEPT ![o] = Called(Begun(pc, w, s))]
    BY <1>2, <2>1
  <2>3. Called(Begun(pc, w, s)) = [purpose |-> Purpose(pc), snapshot |-> s]
    BY DEF Called, Begun
  <2>4. Called(Begun(pc, w, s)) \in Register!Call
    BY <2>1, <2>3 DEF Register!Call, Purpose
  <2>5. calls[o] = Register!Idle /\ KeepsPath
    BY <1>9, <1>11 DEF Starts
  <2> QED BY <1>7, <2>2, <2>4, <2>5 DEF Register!Begins
<1>12. ASSUME NEW o \in Operation, Steps(o)
       PROVE  Register!Ends(o) \/ UNCHANGED Register!vars
  <2>1. ASSUME KeepsPath, calls' = calls PROVE UNCHANGED Register!vars
    BY <1>7, <2>1 DEF Register!vars
  <2>2. ASSUME NEW from, NEW to, operation[o].pc = from, Goes(o, to), KeepsPath,
               Purpose(from) = Purpose(to)
        PROVE  UNCHANGED Register!vars
    BY <1>4, <2>1, <2>2
  <2>3. CASE Open(o)
    <3>1. PICK n \in Name : operation' = [operation EXCEPT ![o] =
                              [operation[o] EXCEPT !.pc = "writing", !.name = n]]
      BY <2>3 DEF Open
    <3> DEFINE r == [operation[o] EXCEPT !.pc = "writing", !.name = n]
    <3>2. r.pc = "writing" /\ r.snapshot = operation[o].snapshot
      BY <1>1 DEF TypeOK, Progress
    <3>3. Called(r) = Called(operation[o])
      BY <2>3, <3>2 DEF Called, Open, At, Purpose
    <3> HIDE DEF r
    <3> QED BY <1>3, <2>1, <2>3, <3>1, <3>3 DEF Open, r
  <2>4. CASE Flush(o)
    <3> DEFINE r == [operation[o] EXCEPT !.pc = "closing", !.complete = TRUE]
    <3>1. operation' = [operation EXCEPT ![o] = r]
      BY <2>4 DEF Flush
    <3>2. r.pc = "closing" /\ r.snapshot = operation[o].snapshot
      BY <1>1 DEF TypeOK, Progress
    <3>3. Called(r) = Called(operation[o])
      BY <2>4, <3>2 DEF Called, Flush, At, Purpose
    <3> HIDE DEF r
    <3> QED BY <1>3, <2>1, <2>4, <3>1, <3>3 DEF Flush
  <2>5. CASE Write(o) \/ WriteOrFlushFails(o) \/ Close(o) \/ RenameFails(o)
    BY <2>2, <2>5 DEF Write, WriteOrFlushFails, Close, RenameFails, At, Purpose
  <2>6. CASE Rename(o)
    <3> DEFINE n == operation[o].name
    <3>1. /\ temporary[n] = operation[o].snapshot /\ n \in flushed
          /\ operation[o].snapshot \in Snapshot
      BY <1>1, <2>6 DEF IInv, Sound, Rename, At, NameOf, TypeOK, Purpose
    <3>2. Publishes(operation[o].snapshot, TRUE)
      BY <2>6, <3>1 DEF Rename, Publishes
    <3>3. Register!Becomes(calls[o].snapshot)
      BY <1>8, <1>9, <3>1, <3>2 DEF Usable
    <3>4. calls[o].purpose = "save" /\ calls[o] # Register!Idle
      BY <1>9, <2>6 DEF Rename, At, Purpose
    <3> QED BY <1>6, <2>6, <3>3, <3>4 DEF Rename, Register!Ends
  <2>7. CASE Unlink(o) \/ OpenFails(o) \/ CloseFails(o)
    BY <1>10, <2>7 DEF Unlink, OpenFails, CloseFails, At
  <2>8. CASE Read(o)
    <3>1. CASE Settles(o)
      BY <1>10, <2>8, <3>1 DEF Read, At
    <3>2. CASE Goes(o, "discarding")
      BY <2>2, <2>8, <3>2 DEF Read, At, Purpose
    <3> QED BY <2>8, <3>1, <3>2 DEF Read
  <2>9. CASE Delete(o)
    <3>1. ~At(o, "idle") /\ calls[o].purpose \in {"load", "delete"}
      BY <1>9, <2>9 DEF Delete, At, Purpose
    <3>2. CASE Publishes(None, TRUE)
      <4>1. Register!Becomes(None)
        BY <1>8, <3>2 DEF Usable
      <4> QED BY <1>6, <1>9, <2>9, <3>1, <4>1 DEF Delete, Register!Ends
    <3>3. CASE KeepsPath
      BY <1>10, <2>9, <3>1, <3>3 DEF Delete
    <3> QED BY <2>9, <3>2, <3>3 DEF Delete
  <2> QED BY <1>12, <2>3, <2>4, <2>5, <2>6, <2>7, <2>8, <2>9 DEF Steps
<1>13. ASSUME NEW w \in Window, WindowEnds(w) PROVE Register!Abandoned
  <2> DEFINE gone == {o \in Operation : operation[o].window = w}
  <2>1. calls' = [o \in Operation |-> IF o \in gone THEN Register!Idle ELSE calls[o]]
    BY <1>5, <1>13 DEF WindowEnds, calls
  <2>2. Usable(published)' = Usable(published) /\ kept' = kept
    BY <1>7, <1>13 DEF WindowEnds
  <2> QED BY <2>1, <2>2 DEF Register!Abandoned
<1>14. CASE MachineStops
  <2>1. calls' = [o \in Operation |-> Register!Idle]
    BY <1>5, <1>14 DEF MachineStops, calls
  <2>2. published' \in recoverable /\ recoverable' = {published'}
    BY <1>14 DEF MachineStops
  <2>3. Usable(published)' \in kept /\ kept' = {Usable(published)'}
    BY <2>2 DEF kept, Usable
  <2> QED BY <2>1, <2>3 DEF Register!MachineStops, Register!Next
<1>15. CASE UNCHANGED vars
  BY <1>7, <1>15 DEF vars, KeepsPath, calls, Register!vars
<1> QED
  BY <1>11, <1>12, <1>13, <1>14, <1>15 DEF Next, Register!Next

(* The file operations implement an atomically replaced register, of which *)
(* MetadataCache takes saves, loads and deletes for single steps.          *)
THEOREM ImplementsRegister == Spec => RegisterSpec
  BY InitRefines, StepRefines, InvAlways, PTL
     DEF Spec, RegisterSpec, Register!Spec
=============================================================================
