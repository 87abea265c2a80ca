------------------------ MODULE EditorTriggersProofs ------------------------
(***************************************************************************)
(* Proofs about the automatic triggers, for any editors, documents and     *)
(* offsets.  The invariant adds to the types that what is pending was      *)
(* typed last and in the active editor, and that a run or a check has the  *)
(* editor its trigger was typed in: this is what clearing the triggers at  *)
(* a switch of the editor is for, since a trigger itself names only the    *)
(* document.                                                               *)
(***************************************************************************)
EXTENDS EditorTriggers, TLAPS

PendingIsNewest ==
  \A t \in pending \cup signature :
    /\ t.generation = generation
    /\ active # NoEditor
    /\ origin[generation] = active
    /\ t.place.document = DocumentOf[active]

WorkIsHome ==
  \A w \in run \cup checks :
    /\ w.trigger.generation <= generation
    /\ origin[w.trigger.generation] = w.editor
    /\ w.trigger.place.document = DocumentOf[w.editor]

(* A trigger that is resolved is no longer pending.                        *)
TakenOnce ==
  \A w \in run, t \in pending : w.trigger.generation # t.generation

IInv == TypeOK /\ PendingIsNewest /\ WorkIsHome /\ TakenOnce

LEMMA InitHolds == Init => IInv
<1> SUFFICES ASSUME Init PROVE IInv
  OBVIOUS
<1>1. TypeOK
  BY BoundAssumption DEF Init, TypeOK, AtMostOne
<1> QED BY <1>1 DEF Init, IInv, PendingIsNewest, WorkIsHome, TakenOnce

LEMMA PlaceTyped ==
  ASSUME TypeOK, NEW e \in Editor, NEW o \in Offset
  PROVE  PlaceAt(e, o) \in Place
  BY DocumentAssumption DEF TypeOK, PlaceAt, Place

(* The three ways a completion trigger can go in a step.                   *)
CompletionKept ==
  /\ pending' = pending /\ run' = run
  /\ timer' \in {timer, {}}
CompletionCleared == pending' = {} /\ run' = run /\ timer' = {}
CompletionTaken ==
  \E t \in pending :
    /\ run = {} /\ active # NoEditor
    /\ t.place.document = DocumentOf[active]
    /\ pending' = {} /\ timer' = {}
    /\ run' = {[stage |-> "resolving", trigger |-> t, editor |-> active]}

SignatureKept ==
  signature' = signature /\ checks' = checks /\ fallback' \subseteq fallback
SignatureCleared ==
  signature' = {} /\ checks' = checks /\ fallback' \subseteq fallback
SignatureTaken ==
  \E t \in signature :
    /\ active # NoEditor
    /\ t.place.document = DocumentOf[active]
    /\ signature' = {} /\ fallback' = {}
    /\ checks' \in {checks, checks \cup
         {[stage |-> "resolving", trigger |-> t, editor |-> active]}}

EditorTyped ==
  /\ active' \in Editor \cup {NoEditor}
  /\ version' \in [Document -> 1..MaxVersion]
  /\ cursor' \in [Editor -> Offset]
  /\ selection' \in [Editor -> SUBSET Offset]

LEMMA TriggersPreserve ==
  ASSUME IInv, EditorTyped, UNCHANGED <<generation, origin>>,
         CompletionKept \/ CompletionCleared \/ CompletionTaken,
         SignatureKept \/ SignatureCleared \/ SignatureTaken,
         active' = active \/ (CompletionCleared /\ SignatureCleared)
  PROVE  IInv'
<1>1. active' = active \/ (pending' = {} /\ signature' = {})
  BY DEF CompletionCleared, SignatureCleared
<1>2. /\ pending' \in SUBSET pending /\ timer' \in SUBSET timer
      /\ \A g \in timer' : \E t \in pending' : t.generation = g
      /\ AtMostOne(pending')
  <2>1. CASE CompletionKept
    BY <2>1 DEF CompletionKept, IInv, TypeOK
  <2>2. CASE CompletionCleared
    BY <2>2 DEF CompletionCleared, AtMostOne
  <2>3. CASE CompletionTaken
    BY <2>3 DEF CompletionTaken, AtMostOne
  <2> QED BY <2>1, <2>2, <2>3
<1>3. /\ signature' \in SUBSET signature /\ fallback' \in SUBSET fallback
      /\ AtMostOne(signature') /\ AtMostOne(fallback')
  <2>1. AtMostOne(fallback) /\ AtMostOne(signature)
    BY DEF IInv, TypeOK
  <2> QED BY <2>1
       DEF SignatureKept, SignatureCleared, SignatureTaken, AtMostOne
<1>4. /\ run' \subseteq Work({"resolving", "hiding", "opening"}) /\ AtMostOne(run')
      /\ \A w \in run' :
           /\ w.trigger.generation <= generation
           /\ origin[w.trigger.generation] = w.editor
           /\ w.trigger.place.document = DocumentOf[w.editor]
      /\ \A w \in run', t \in pending' : w.trigger.generation # t.generation
  <2>1. CASE run' = run /\ pending' \in SUBSET pending
    BY <2>1 DEF IInv, TypeOK, WorkIsHome, TakenOnce
  <2>2. CASE CompletionTaken
    <3>1. PICK t \in pending :
            /\ active # NoEditor /\ t.place.document = DocumentOf[active]
            /\ pending' = {}
            /\ run' = {[stage |-> "resolving", trigger |-> t, editor |-> active]}
      BY <2>2 DEF CompletionTaken
    <3>2. t \in Trigger /\ t.generation = generation /\ origin[generation] = active
          /\ active \in Editor /\ generation \in Nat
      BY <3>1, BoundAssumption DEF IInv, TypeOK, PendingIsNewest
    <3> QED BY <3>1, <3>2 DEF Work, AtMostOne
  <2> QED BY <1>2, <2>1, <2>2 DEF CompletionKept, CompletionCleared
<1>5. /\ checks' \subseteq Work({"resolving", "opening"})
      /\ \A w \in checks' :
           /\ w.trigger.generation <= generation
           /\ origin[w.trigger.generation] = w.editor
           /\ w.trigger.place.document = DocumentOf[w.editor]
  <2>1. CASE checks' = checks
    BY <2>1 DEF IInv, TypeOK, WorkIsHome
  <2>2. CASE SignatureTaken
    <3>1. PICK t \in signature :
            /\ active # NoEditor /\ t.place.document = DocumentOf[active]
            /\ checks' \in {checks, checks \cup
                 {[stage |-> "resolving", trigger |-> t, editor |-> active]}}
      BY <2>2 DEF SignatureTaken
    <3>2. t \in Trigger /\ t.generation = generation /\ origin[generation] = active
          /\ active \in Editor /\ generation \in Nat
      BY <3>1, BoundAssumption DEF IInv, TypeOK, PendingIsNewest
    <3>3. [stage |-> "resolving", trigger |-> t, editor |-> active]
            \in Work({"resolving", "opening"})
      BY <3>2 DEF Work
    <3> QED BY <2>1, <3>1, <3>2, <3>3 DEF IInv, TypeOK, WorkIsHome
  <2> QED BY <2>1, <2>2 DEF SignatureKept, SignatureCleared
<1>6. TypeOK'
  BY <1>2, <1>3, <1>4, <1>5 DEF IInv, TypeOK, EditorTyped
<1>7. PendingIsNewest'
  BY <1>1, <1>2, <1>3 DEF IInv, PendingIsNewest
<1>8. WorkIsHome' /\ TakenOnce'
  BY <1>4, <1>5 DEF WorkIsHome, TakenOnce
<1> QED BY <1>6, <1>7, <1>8 DEF IInv

LEMMA FulfilsCases ==
  ASSUME IInv, active # NoEditor, NEW t \in pending, NEW o, Fulfils(t, o),
         \/ timer' = {}
         \/ t.place = PlaceAt(active, o) /\ (run # {} => timer' = timer)
  PROVE  CompletionKept \/ CompletionTaken
<1>1. CASE run = {} /\ t.place = PlaceAt(active, o)
  <2>1. t.place.document = DocumentOf[active]
    BY <1>1 DEF PlaceAt
  <2> QED BY <1>1, <2>1 DEF Fulfils, CompletionTaken
<1>2. CASE run # {}
  BY <1>2 DEF Fulfils, CompletionKept
<1>3. CASE run = {} /\ t.place # PlaceAt(active, o) /\ timer' = {}
  BY <1>3 DEF Fulfils, CompletionKept
<1> QED BY <1>1, <1>2, <1>3

LEMMA HintsCases ==
  ASSUME IInv, active # NoEditor, NEW t \in signature, NEW o, Hints(t, o),
         \/ fallback' = {}
         \/ t.place # PlaceAt(active, o) => fallback' = fallback
  PROVE  SignatureCleared \/ SignatureTaken
<1>1. CASE t.place = PlaceAt(active, o)
  <2>1. t.place.document = DocumentOf[active]
    BY <1>1 DEF PlaceAt
  <2> QED BY <1>1, <2>1 DEF Hints, SignatureTaken
<1>2. CASE t.place # PlaceAt(active, o)
  BY <1>2 DEF Hints, SignatureCleared
<1> QED BY <1>1, <1>2

LEMMA SelectsCases ==
  ASSUME IInv, NEW e \in Editor, NEW o \in Offset, Selects(e, o)
  PROVE  /\ EditorTyped /\ UNCHANGED <<generation, origin, active>>
         /\ CompletionKept \/ CompletionCleared \/ CompletionTaken
         /\ SignatureKept \/ SignatureCleared \/ SignatureTaken
<1> DEFINE here == IF e = active THEN o ELSE cursor[active]
<1>1. EditorTyped /\ UNCHANGED <<generation, origin, active>>
  BY DEF Selects, IInv, TypeOK, EditorTyped
<1>2. CompletionKept \/ CompletionCleared \/ CompletionTaken
  <2>1. CASE active # NoEditor /\ \E t \in pending : t.place = PlaceAt(active, here)
    <3>1. PICK t \in pending : Fulfils(t, here) /\ (run # {} => timer' = timer)
      BY <2>1 DEF Selects
    <3>2. t.place = PlaceAt(active, here)
      BY <2>1 DEF IInv, TypeOK, AtMostOne
    <3> HIDE DEF here
    <3> QED BY <2>1, <3>1, <3>2, FulfilsCases
  <2>2. CASE ~(active # NoEditor /\ \E t \in pending : t.place = PlaceAt(active, here))
    BY <2>2 DEF Selects, CompletionKept, CompletionCleared
  <2> QED BY <2>1, <2>2
<1>3. SignatureKept \/ SignatureCleared \/ SignatureTaken
  <2>1. CASE active # NoEditor /\ signature # {}
    <3>1. PICK t \in signature :
            Hints(t, here) /\ (t.place # PlaceAt(active, here) => fallback' = fallback)
      BY <2>1 DEF Selects
    <3> HIDE DEF here
    <3> QED BY <2>1, <3>1, HintsCases
  <2>2. CASE ~(active # NoEditor /\ signature # {})
    BY <2>2 DEF Selects, signatureVars, SignatureKept
  <2> QED BY <2>1, <2>2
<1> QED BY <1>1, <1>2, <1>3

LEMMA ClearsCases == Clears => CompletionCleared /\ SignatureCleared
  BY DEF Clears, CompletionCleared, SignatureCleared

LEMMA ClosesCases ==
  ASSUME IInv, NEW d \in Document, Closes(d)
  PROVE  /\ CompletionKept \/ CompletionCleared
         /\ SignatureKept \/ SignatureCleared
<1>1. /\ pending' \in {pending, {}} /\ run' = run
      /\ signature' \in {signature, {}} /\ checks' = checks
  BY DEF Closes, IInv, TypeOK, AtMostOne
<1>2. /\ timer' = IF pending' = pending THEN timer ELSE {}
      /\ fallback' = IF signature' = signature THEN fallback ELSE {}
  BY DEF Closes
<1> QED BY <1>1, <1>2
        DEF CompletionKept, CompletionCleared, SignatureKept, SignatureCleared

LEMMA TimerCases ==
  ASSUME IInv, TimerFires
  PROVE  CompletionKept \/ CompletionTaken
<1>1. CASE active # NoEditor /\ \E t \in pending : t.generation \in timer
  <2>1. PICK t \in pending : Fulfils(t, cursor[active])
    BY <1>1 DEF TimerFires
  <2> QED BY <1>1, <2>1, FulfilsCases DEF TimerFires
<1>2. CASE ~(active # NoEditor /\ \E t \in pending : t.generation \in timer)
  BY <1>2 DEF TimerFires, CompletionKept
<1> QED BY <1>1, <1>2

LEMMA FallbackCases ==
  ASSUME IInv, FallbackFires
  PROVE  SignatureKept \/ SignatureCleared \/ SignatureTaken
<1>1. CASE active # NoEditor /\ \E t \in signature : t.generation \in fallback
  <2>1. PICK t \in signature : Hints(t, cursor[active])
    BY <1>1 DEF FallbackFires
  <2> QED BY <1>1, <2>1, HintsCases DEF FallbackFires
<1>2. CASE ~(active # NoEditor /\ \E t \in signature : t.generation \in fallback)
  BY <1>2 DEF FallbackFires, SignatureKept
<1> QED BY <1>1, <1>2

(* What an edit leaves: new triggers, or none.                             *)
LEMMA EditTyped ==
  ASSUME IInv, NEW d \in Document, Edit(d)
  PROVE  EditorTyped /\ active' = active
<1>1. version' \in [Document -> 1..MaxVersion]
  <2>1. version[d] \in 1..MaxVersion /\ version[d] < MaxVersion
    BY DEF Edit, IInv, TypeOK
  <2>2. version[d] + 1 \in 1..MaxVersion
    BY <2>1, BoundAssumption
  <2> QED BY <2>2 DEF Edit, IInv, TypeOK
<1>2. selection' \in [Editor -> SUBSET Offset]
  <2>1. CASE active # NoEditor /\ DocumentOf[active] = d
    <3>1. PICK o \in Offset : selection' = [selection EXCEPT ![active] = {o}]
      BY <2>1 DEF Edit
    <3>2. {o} \in SUBSET Offset
      OBVIOUS
    <3> QED BY <3>1, <3>2 DEF IInv, TypeOK
  <2>2. CASE ~(active # NoEditor /\ DocumentOf[active] = d)
    BY <2>2 DEF Edit, IInv, TypeOK
  <2> QED BY <2>1, <2>2
<1> QED BY <1>1, <1>2 DEF Edit, EditorTyped, IInv, TypeOK

LEMMA LeavesTriggersPreserves ==
  ASSUME IInv, NEW d \in Document, Edit(d), LeavesTriggers(d)
  PROVE  IInv'
<1>1. /\ active \in Editor /\ DocumentOf[active] = d /\ active' = active
      /\ generation' = generation + 1 /\ generation' \in Generation
      /\ generation \in Nat
  BY BoundAssumption DEF LeavesTriggers, Edit, IInv, TypeOK, Generation
<1>2. PICK o \in Offset :
        LET t == [generation |-> generation',
                  place |-> [PlaceAt(active, o) EXCEPT !.version = @ + 1]]
        IN pending' \in {{}, {t}} /\ signature' \in {{}, {t}}
  BY DEF LeavesTriggers
<1> DEFINE place == [PlaceAt(active, o) EXCEPT !.version = @ + 1]
           t == [generation |-> generation', place |-> place]
<1>3. pending' \in {{}, {t}} /\ signature' \in {{}, {t}}
  BY <1>2
<1>4. place \in Place /\ place.document = d
  <2>1. version[d] + 1 \in 1..MaxVersion
    BY BoundAssumption DEF Edit, IInv, TypeOK
  <2> QED BY <1>1, <2>1 DEF PlaceAt, Place
<1>5. t \in Trigger /\ t.generation = generation' /\ t.place.document = d
  BY <1>1, <1>4 DEF Trigger
<1> HIDE DEF place, t
<1>6. origin' = [origin EXCEPT ![generation + 1] = active]
  BY <1>1 DEF LeavesTriggers
<1>7. /\ origin' \in [Generation -> Editor \cup {NoEditor}]
      /\ origin'[generation'] = active
      /\ \A g \in Generation : g # generation + 1 => origin'[g] = origin[g]
  BY <1>1, <1>6 DEF IInv, TypeOK
<1>8. /\ timer' = {u.generation : u \in pending'} /\ run' = run
      /\ fallback' = {u.generation : u \in signature'} /\ checks' = checks
  BY DEF LeavesTriggers
<1>9. /\ AtMostOne(pending') /\ AtMostOne(signature') /\ AtMostOne(fallback')
      /\ \A g \in timer' : \E u \in pending' : u.generation = g
      /\ timer' \subseteq Generation /\ fallback' \subseteq Generation
  BY <1>1, <1>3, <1>5, <1>8 DEF AtMostOne
<1>10. EditorTyped
  BY EditTyped
<1>11. generation' \in 0..MaxGeneration
  BY <1>1 DEF Generation
<1>12. TypeOK'
  BY <1>3, <1>5, <1>7, <1>8, <1>9, <1>10, <1>11 DEF IInv, TypeOK, EditorTyped
<1>13. PendingIsNewest'
  BY <1>1, <1>3, <1>5, <1>7, EditorAssumption DEF PendingIsNewest
<1>14. \A w \in run \cup checks :
         /\ w.trigger.generation \in Generation
         /\ w.trigger.generation <= generation
  BY DEF IInv, TypeOK, WorkIsHome, Work, Trigger
<1>15. \A w \in run \cup checks :
         /\ w.trigger.generation <= generation'
         /\ w.trigger.generation # generation'
  BY <1>1, <1>14 DEF Generation
<1>16. WorkIsHome'
  BY <1>1, <1>7, <1>8, <1>14, <1>15 DEF IInv, WorkIsHome
<1>17. TakenOnce'
  BY <1>3, <1>5, <1>8, <1>15 DEF TakenOnce
<1> QED BY <1>12, <1>13, <1>16, <1>17 DEF IInv

LEMMA RunStepsCases ==
  ASSUME IInv, RunSteps
  PROVE  /\ RunUnchanged
         /\ \E w \in run :
              \/ run' = {}
              \/ \E stage \in {"hiding", "opening"} : Reaches(w, stage)
  BY DEF RunSteps, ProviderReturns, Opens, Opened

LEMMA RunStepsPreserve ==
  ASSUME IInv, RunSteps
  PROVE  IInv'
<1>1. PICK w \in run :
        \/ run' = {}
        \/ \E stage \in {"hiding", "opening"} : Reaches(w, stage)
  BY RunStepsCases
<1>2. UNCHANGED <<active, version, cursor, selection, generation, pending, timer,
                  signature, fallback, checks, origin>>
  BY RunStepsCases DEF RunUnchanged, editorVars, signatureVars
<1>3. CASE run' = {}
  BY <1>2, <1>3
     DEF IInv, TypeOK, AtMostOne, PendingIsNewest, WorkIsHome, TakenOnce
<1>4. ASSUME NEW stage \in {"hiding", "opening"}, Reaches(w, stage)
      PROVE  IInv'
  <2> DEFINE next == [w EXCEPT !.stage = stage]
  <2>1. w \in Work({"resolving", "hiding", "opening"})
    BY DEF IInv, TypeOK
  <2>2. /\ next \in Work({"resolving", "hiding", "opening"})
        /\ next.trigger = w.trigger /\ next.editor = w.editor
    BY <2>1 DEF Work
  <2>3. run' = {next}
    BY <1>4 DEF Reaches
  <2> HIDE DEF next
  <2>4. TypeOK'
    BY <1>2, <2>2, <2>3 DEF IInv, TypeOK, AtMostOne
  <2>5. PendingIsNewest' /\ WorkIsHome' /\ TakenOnce'
    BY <1>2, <2>2, <2>3 DEF IInv, PendingIsNewest, WorkIsHome, TakenOnce
  <2> QED BY <2>4, <2>5 DEF IInv
<1> QED BY <1>1, <1>3, <1>4

LEMMA CheckReturnsPreserves ==
  ASSUME IInv, CheckReturns
  PROVE  IInv'
<1>1. UNCHANGED <<active, version, cursor, selection, generation, pending, timer,
                  run, signature, fallback, origin>>
  BY DEF CheckReturns, editorVars, completionVars
<1>2. PICK w \in checks :
        \/ checks' = (checks \ {w}) \cup {[w EXCEPT !.stage = "opening"]}
        \/ checks' = checks \ {w}
  BY DEF CheckReturns
<1> DEFINE next == [w EXCEPT !.stage = "opening"]
<1>3. w \in Work({"resolving", "opening"})
  BY DEF IInv, TypeOK
<1>4. /\ next \in Work({"resolving", "opening"})
      /\ next.trigger = w.trigger /\ next.editor = w.editor
  BY <1>3 DEF Work
<1>5. checks' \subseteq checks \cup {next}
  BY <1>2
<1> HIDE DEF next
<1>6. TypeOK'
  BY <1>1, <1>4, <1>5 DEF IInv, TypeOK
<1>7. PendingIsNewest' /\ WorkIsHome' /\ TakenOnce'
  BY <1>1, <1>4, <1>5 DEF IInv, PendingIsNewest, WorkIsHome, TakenOnce
<1> QED BY <1>6, <1>7 DEF IInv

LEMMA SameEditor ==
  ASSUME IInv, UNCHANGED editorVars
  PROVE  EditorTyped /\ active' = active
  BY DEF editorVars, EditorTyped, IInv, TypeOK

LEMMA IInvNext == IInv /\ [Next]_vars => IInv'
<1> SUFFICES ASSUME IInv, [Next]_vars PROVE IInv'
  OBVIOUS
<1>1. CASE UNCHANGED vars
  BY <1>1 DEF vars, editorVars, completionVars, signatureVars, IInv, TypeOK,
              PendingIsNewest, WorkIsHome, TakenOnce
<1>2. ASSUME NEW d \in Document, Edit(d) PROVE IInv'
  <2>1. CASE LeavesTriggers(d)
    BY <1>2, <2>1, LeavesTriggersPreserves
  <2>2. CASE LeavesNone
    BY <1>2, <2>2, EditTyped, ClearsCases, TriggersPreserve DEF LeavesNone
  <2> QED BY <1>2, <2>1, <2>2 DEF Edit
<1>3. ASSUME NEW d \in Document, Closes(d) PROVE IInv'
  BY <1>3, SameEditor, ClosesCases, TriggersPreserve DEF Closes
<1>4. ASSUME NEW e \in Editor, Delivers(e) \/ MovesCursor(e) PROVE IInv'
  <2>1. PICK o \in Offset : Selects(e, o)
    BY <1>4 DEF Delivers, MovesCursor, IInv, TypeOK
  <2> QED BY <2>1, SelectsCases, TriggersPreserve
<1>5. CASE SwitchesEditor
  <2>1. EditorTyped
    BY <1>5 DEF SwitchesEditor, EditorTyped, IInv, TypeOK
  <2> QED BY <1>5, <2>1, ClearsCases, TriggersPreserve DEF SwitchesEditor
<1>6. CASE TimerFires
  <2>1. SignatureKept
    BY <1>6 DEF TimerFires, signatureVars, SignatureKept
  <2> QED BY <1>6, <2>1, SameEditor, TimerCases, TriggersPreserve DEF TimerFires
<1>7. CASE FallbackFires
  <2>1. CompletionKept
    BY <1>7 DEF FallbackFires, completionVars, CompletionKept
  <2> QED BY <1>7, <2>1, SameEditor, FallbackCases, TriggersPreserve
          DEF FallbackFires
<1>8. CASE RunSteps
  BY <1>8, RunStepsPreserve
<1>9. CASE CheckReturns
  BY <1>9, CheckReturnsPreserves
<1> QED
  BY <1>1, <1>2, <1>3, <1>4, <1>5, <1>6, <1>7, <1>8, <1>9 DEF Next

(* The invariant holds throughout, from any editor and with edits, timers *)
(* and returning providers in any order.                                   *)
THEOREM Inductive == Spec => []IInv
  BY InitHolds, IInvNext, PTL DEF Spec

(* Every variable keeps its type: at most one trigger of each kind waits,  *)
(* one run is in progress, and the timer has a trigger to fulfil.          *)
THEOREM TypeCorrect == Spec => []TypeOK
<1>1. IInv => TypeOK
  BY DEF IInv
<1> QED BY <1>1, Inductive, PTL

(* A run or a check that is still where its trigger was typed is home.     *)
LEMMA StillThereIsHome ==
  ASSUME IInv, NEW w \in run \cup checks, StillThere(w)
  PROVE  IsHome(w)
<1>1. /\ active = origin[w.trigger.generation]
      /\ w.trigger.place.document = DocumentOf[active]
  BY DEF StillThere, IInv, WorkIsHome
<1>2. w.trigger.place \in Place
  BY DEF IInv, TypeOK, Work, Trigger
<1>3. PlaceOf(active) = w.trigger.place
  BY <1>1, <1>2 DEF PlaceOf, PlaceAt, Place, StillThere
<1> QED BY <1>1, <1>3 DEF IsHome

NothingOpens ==
  Opening(run') \subseteq Opening(run) /\ Opening(checks') \subseteq Opening(checks)

LEMMA TriggersOpenNothing ==
  ASSUME CompletionKept \/ CompletionCleared \/ CompletionTaken,
         SignatureKept \/ SignatureCleared \/ SignatureTaken
  PROVE  NothingOpens
<1>1. Opening(run') \subseteq Opening(run)
  BY DEF CompletionKept, CompletionCleared, CompletionTaken, Opening
<1>2. Opening(checks') \subseteq Opening(checks)
  BY DEF SignatureKept, SignatureCleared, SignatureTaken, Opening
<1> QED BY <1>1, <1>2 DEF NothingOpens

LEMMA RunOpensAtHome ==
  ASSUME IInv, RunSteps
  PROVE  \A w \in Opening(run') \ Opening(run) : IsHome(w)
<1>1. CASE ProviderReturns
  <2>1. Opening(run') = {}
    BY <1>1 DEF ProviderReturns, Reaches, Opening, IInv, TypeOK, Work
  <2> QED BY <2>1
<1>2. CASE Opens
  <2>1. PICK w \in run : IF StillThere(w) THEN Reaches(w, "opening") \/ run' = {}
                         ELSE run' = {}
    BY <1>2 DEF Opens
  <2>2. CASE run' = {}
    BY <2>2 DEF Opening
  <2>3. CASE StillThere(w) /\ Reaches(w, "opening")
    <3>1. IsHome(w)
      BY <2>3, StillThereIsHome
    <3>2. w \in Work({"resolving", "hiding", "opening"})
      BY DEF IInv, TypeOK
    <3>3. \A v \in run' : v.trigger = w.trigger
      BY <2>3, <3>2 DEF Reaches, Work
    <3> QED BY <3>1, <3>3 DEF Opening, IsHome
  <2> QED BY <2>1, <2>2, <2>3
<1>3. CASE Opened
  BY <1>3 DEF Opened, Opening
<1> QED BY <1>1, <1>2, <1>3 DEF RunSteps

LEMMA CheckOpensAtHome ==
  ASSUME IInv, CheckReturns
  PROVE  \A w \in Opening(checks') \ Opening(checks) : IsHome(w)
<1>1. PICK w \in checks :
        \/ /\ StillThere(w)
           /\ checks' = (checks \ {w}) \cup {[w EXCEPT !.stage = "opening"]}
        \/ checks' = checks \ {w}
  BY DEF CheckReturns
<1>2. CASE checks' = checks \ {w}
  BY <1>2 DEF Opening
<1>3. CASE /\ StillThere(w)
           /\ checks' = (checks \ {w}) \cup {[w EXCEPT !.stage = "opening"]}
  <2>1. IsHome(w)
    BY <1>3, StillThereIsHome
  <2>2. w \in Work({"resolving", "opening"})
    BY DEF IInv, TypeOK
  <2>3. [w EXCEPT !.stage = "opening"].trigger = w.trigger
    BY <2>2 DEF Work
  <2>4. \A v \in Opening(checks') \ Opening(checks) : v.trigger = w.trigger
    BY <1>3, <2>3 DEF Opening
  <2> QED BY <2>1, <2>4 DEF IsHome
<1> QED BY <1>1, <1>2, <1>3

(* However steps interleave, suggestions and hints open only in the editor,*)
(* the version and at the cursor their trigger was typed for.              *)
THEOREM WidgetsOpenWhereTyped == Spec => OpensWhereTyped
<1> DEFINE Good ==
      /\ \A w \in Opening(run') \ Opening(run) : IsHome(w)
      /\ \A w \in Opening(checks') \ Opening(checks) : IsHome(w)
<1>1. ASSUME IInv, Next PROVE Good
  <2>1. ASSUME NothingOpens PROVE Good
    BY <2>1 DEF NothingOpens
  <2> HIDE DEF Good
  <2>2. ASSUME NEW d \in Document, Edit(d) PROVE Good
    <3>1. UNCHANGED <<run, checks>>
      BY <2>2 DEF Edit, LeavesTriggers, LeavesNone, Clears
    <3> QED BY <2>1, <3>1 DEF NothingOpens
  <2>3. ASSUME NEW d \in Document, Closes(d) PROVE Good
    BY <1>1, <2>1, <2>3, ClosesCases, TriggersOpenNothing
  <2>4. ASSUME NEW e \in Editor, Delivers(e) \/ MovesCursor(e) PROVE Good
    <3>1. PICK o \in Offset : Selects(e, o)
      BY <1>1, <2>4 DEF Delivers, MovesCursor, IInv, TypeOK
    <3> QED BY <1>1, <2>1, <3>1, SelectsCases, TriggersOpenNothing
  <2>5. CASE SwitchesEditor
    BY <2>1, <2>5, ClearsCases, TriggersOpenNothing DEF SwitchesEditor
  <2>6. CASE TimerFires
    <3>1. SignatureKept
      BY <2>6 DEF TimerFires, signatureVars, SignatureKept
    <3> QED BY <1>1, <2>1, <2>6, <3>1, TimerCases, TriggersOpenNothing
  <2>7. CASE FallbackFires
    <3>1. CompletionKept
      BY <2>7 DEF FallbackFires, completionVars, CompletionKept
    <3> QED BY <1>1, <2>1, <2>7, <3>1, FallbackCases, TriggersOpenNothing
  <2>8. CASE RunSteps
    <3>1. checks' = checks
      BY <1>1, <2>8, RunStepsCases DEF RunUnchanged, signatureVars
    <3>2. \A w \in Opening(run') \ Opening(run) : IsHome(w)
      BY <1>1, <2>8, RunOpensAtHome
    <3> QED BY <3>1, <3>2 DEF Good
  <2>9. CASE CheckReturns
    <3>1. run' = run
      BY <2>9 DEF CheckReturns, completionVars
    <3>2. \A w \in Opening(checks') \ Opening(checks) : IsHome(w)
      BY <1>1, <2>9, CheckOpensAtHome
    <3> QED BY <3>1, <3>2 DEF Good
  <2> QED
    BY <1>1, <2>2, <2>3, <2>4, <2>5, <2>6, <2>7, <2>8, <2>9 DEF Next
<1>2. IInv /\ [Next]_vars => [Good]_vars
  BY <1>1
<1> QED BY <1>2, Inductive, PTL DEF OpensWhereTyped, Spec

-----------------------------------------------------------------------------
(* The lifecycle of the triggers.                                          *)
stages == [g \in Generation |-> StageOf(g)]

LEMMA StagesKept ==
  ASSUME generation' = generation, pending' = pending, run' = run
  PROVE  stages' = stages
  BY DEF stages, StageOf

(* What the pending trigger and the run say of the stages.                 *)
LEMMA StageFacts ==
  ASSUME IInv
  PROVE  /\ \A t \in pending :
              t.generation \in Generation /\ StageOf(t.generation) = "waiting"
         /\ \A w \in run :
              /\ w.trigger.generation \in Generation
              /\ StageOf(w.trigger.generation) =
                   IF w.stage = "opening" THEN "opening" ELSE "resolving"
         /\ \A g \in Generation :
              /\ StageOf(g) = "waiting" => \E t \in pending : t.generation = g
              /\ StageOf(g) \in {"resolving", "opening"} =>
                   \E w \in run : w.trigger.generation = g
<1>1. ASSUME NEW t \in pending
      PROVE  t.generation \in Generation /\ StageOf(t.generation) = "waiting"
  <2>1. t \in Trigger /\ t.generation = generation /\ generation \in Nat
    BY BoundAssumption DEF IInv, TypeOK, PendingIsNewest
  <2> QED BY <2>1 DEF Trigger, StageOf
<1>2. ASSUME NEW w \in run
      PROVE  /\ w.trigger.generation \in Generation
             /\ StageOf(w.trigger.generation) =
                  IF w.stage = "opening" THEN "opening" ELSE "resolving"
  <2>1. /\ w.trigger.generation \in Generation
        /\ w.trigger.generation <= generation /\ generation \in Nat
        /\ \A t \in pending : t.generation # w.trigger.generation
        /\ \A v \in run : v = w
    BY BoundAssumption
       DEF IInv, TypeOK, WorkIsHome, TakenOnce, Work, Trigger, AtMostOne
  <2>2. ~(w.trigger.generation > generation)
    BY <2>1 DEF Generation
  <2> QED BY <2>1, <2>2 DEF StageOf
<1>3. ASSUME NEW g \in Generation
      PROVE  /\ StageOf(g) = "waiting" => \E t \in pending : t.generation = g
             /\ StageOf(g) \in {"resolving", "opening"} =>
                  \E w \in run : w.trigger.generation = g
  BY DEF StageOf
<1> QED BY <1>1, <1>2, <1>3

LEMMA StagesCleared ==
  ASSUME IInv, generation' = generation, pending' = {}, run' = run, pending # {}
  PROVE  Lifecycle!Next
<1>1. PICK t \in pending : TRUE
  OBVIOUS
<1> DEFINE g == t.generation
<1>2. g \in Generation /\ StageOf(g) = "waiting"
  BY StageFacts
<1>3. \A u \in pending : u = t
  BY DEF IInv, TypeOK, AtMostOne
<1>4. StageOf(g)' = "over"
  BY <1>2 DEF StageOf, IInv, TakenOnce
<1>5. \A h \in Generation : h # g => StageOf(h)' = StageOf(h)
  BY <1>3 DEF StageOf
<1>6. stages' = [stages EXCEPT ![g] = "over"]
  <2> HIDE DEF g
  <2> QED BY <1>2, <1>4, <1>5 DEF stages
<1>7. Lifecycle!Cancels(g)
  BY <1>2, <1>6 DEF Lifecycle!Cancels, Lifecycle!Moves, stages
<1> QED BY <1>2, <1>7 DEF Lifecycle!Next

LEMMA StagesTaken ==
  ASSUME IInv, CompletionTaken, generation' = generation
  PROVE  Lifecycle!Next
<1>1. PICK t \in pending :
        /\ run = {} /\ pending' = {}
        /\ run' = {[stage |-> "resolving", trigger |-> t, editor |-> active]}
  BY DEF CompletionTaken
<1> DEFINE g == t.generation
<1>2. g \in Generation /\ StageOf(g) = "waiting"
  BY StageFacts
<1>3. \A u \in pending : u = t
  BY DEF IInv, TypeOK, AtMostOne
<1>4. StageOf(g)' = "resolving"
  BY <1>1, <1>2 DEF StageOf
<1>5. \A h \in Generation : h # g => StageOf(h)' = StageOf(h)
  BY <1>1, <1>3 DEF StageOf
<1>6. stages' = [stages EXCEPT ![g] = "resolving"]
  <2> HIDE DEF g
  <2> QED BY <1>2, <1>4, <1>5 DEF stages
<1>7. \A h \in Generation : StageOf(h) \notin {"resolving", "opening"}
  BY <1>1, StageFacts
<1>8. Lifecycle!Resolves(g)
  BY <1>2, <1>6, <1>7
     DEF Lifecycle!Resolves, Lifecycle!Moves, Lifecycle!In, stages
<1> QED BY <1>2, <1>8 DEF Lifecycle!Next

LEMMA StagesTyped ==
  ASSUME IInv, NEW d \in Document, LeavesTriggers(d)
  PROVE  Lifecycle!Next
<1>0. PICK g \in Generation : g = generation + 1
  BY BoundAssumption DEF LeavesTriggers, IInv, TypeOK, Generation
<1>1. /\ generation' = g /\ g \in Generation /\ generation \in Nat /\ run' = run
      /\ \A t \in pending' : t.generation = g
  BY <1>0, BoundAssumption DEF LeavesTriggers, IInv, TypeOK, Generation
<1>2. StageOf(g) = "untyped"
  BY <1>0, <1>1 DEF StageOf
<1>3. \A w \in run : w.trigger.generation \in Generation /\ w.trigger.generation # g
  BY <1>0, <1>1 DEF IInv, TypeOK, WorkIsHome, Work, Trigger, Generation
<1>4. StageOf(g)' \in {"waiting", "over"}
  <2>1. /\ g \in Nat /\ ~(g > generation')
        /\ ~\E w \in run' : w.trigger.generation = g
    BY <1>1, <1>3 DEF Generation
  <2> QED BY <2>1 DEF StageOf
<1>5. ASSUME NEW h \in Generation, h # g
      PROVE  StageOf(h)' = IF StageOf(h) = "waiting" THEN "over" ELSE StageOf(h)
  <2>1. h > generation' <=> h > generation
    BY <1>0, <1>1, <1>5 DEF Generation
  <2>2. ~\E t \in pending' : t.generation = h
    BY <1>1, <1>5
  <2>3. CASE \E t \in pending : t.generation = h
    <3>1. StageOf(h) = "waiting" /\ ~(h > generation)
          /\ ~\E w \in run : w.trigger.generation = h
      BY <1>1, <2>3, StageFacts DEF IInv, TakenOnce, StageOf
    <3> QED BY <1>1, <2>1, <2>2, <3>1 DEF StageOf
  <2>4. CASE ~\E t \in pending : t.generation = h
    <3>1. StageOf(h) # "waiting"
      BY <2>4, StageFacts
    <3> QED BY <1>1, <2>1, <2>2, <2>4, <3>1 DEF StageOf
  <2> QED BY <2>3, <2>4
<1>6. \E s \in {"waiting", "over"} :
        stages' = [u \in Generation |->
          IF u = g THEN s
          ELSE IF stages[u] = "waiting" THEN "over" ELSE stages[u]]
  <2> DEFINE moved(s) == [u \in Generation |->
               IF u = g THEN s
               ELSE IF stages[u] = "waiting" THEN "over" ELSE stages[u]]
  <2>1. \A u \in Generation : stages[u] = StageOf(u) /\ stages'[u] = StageOf(u)'
    BY DEF stages
  <2>2. \A u \in Generation : stages'[u] = moved(StageOf(g)')[u]
    BY <1>1, <1>5, <2>1
  <2>3. stages' = moved(StageOf(g)')
    BY <2>2 DEF stages
  <2> QED BY <1>4, <2>3
<1>7. Lifecycle!Types(g)
  BY <1>1, <1>2, <1>6 DEF Lifecycle!Types, stages
<1> QED BY <1>1, <1>7 DEF Lifecycle!Next

LEMMA StagesRun ==
  ASSUME IInv, RunSteps
  PROVE  Lifecycle!Next \/ stages' = stages
<1>1. generation' = generation /\ pending' = pending
  BY RunStepsCases DEF RunUnchanged
<1>2. PICK w \in run :
        \/ run' = {}
        \/ w.stage = "resolving" /\ Reaches(w, "hiding")
        \/ w.stage = "hiding" /\ Reaches(w, "opening")
  BY DEF RunSteps, ProviderReturns, Opens, Opened
<1> DEFINE g == w.trigger.generation
<1>3. /\ g \in Generation
      /\ StageOf(g) = IF w.stage = "opening" THEN "opening" ELSE "resolving"
  BY StageFacts
<1>4. /\ \A v \in run : v = w
      /\ w \in Work({"resolving", "hiding", "opening"})
      /\ ~\E t \in pending : t.generation = g
      /\ ~(g > generation)
  <2>1. g \in Generation /\ g <= generation /\ generation \in Nat
    BY <1>3, BoundAssumption DEF IInv, TypeOK, WorkIsHome
  <2>2. ~(g > generation)
    BY <2>1 DEF Generation
  <2> QED BY <2>2 DEF IInv, TypeOK, AtMostOne, TakenOnce
<1>5. ASSUME \A v \in run' : v.trigger = w.trigger
      PROVE  \A h \in Generation : h # g => StageOf(h)' = StageOf(h)
  BY <1>1, <1>4, <1>5 DEF StageOf
<1>6. CASE run' = {}
  <2>1. StageOf(g)' = "over"
    BY <1>1, <1>4, <1>6 DEF StageOf
  <2>2. stages' = [stages EXCEPT ![g] = "over"]
    <3>1. \A h \in Generation : h # g => StageOf(h)' = StageOf(h)
      BY <1>5, <1>6
    <3> HIDE DEF g
    <3> QED BY <1>3, <2>1, <3>1 DEF stages
  <2>3. Lifecycle!Ends(g)
    BY <1>3, <2>2 DEF Lifecycle!Ends, Lifecycle!Moves, stages
  <2> QED BY <1>3, <2>3 DEF Lifecycle!Next
<1>7. ASSUME NEW s \in {"hiding", "opening"}, Reaches(w, s)
      PROVE  /\ StageOf(g)' = IF s = "opening" THEN "opening" ELSE "resolving"
             /\ \A h \in Generation : h # g => StageOf(h)' = StageOf(h)
  <2> DEFINE next == [w EXCEPT !.stage = s]
  <2>1. run' = {next}
    BY <1>7 DEF Reaches
  <2>2. next.trigger = w.trigger /\ next.stage = s
    BY <1>4 DEF Work
  <2> HIDE DEF next
  <2>3. StageOf(g)' = IF s = "opening" THEN "opening" ELSE "resolving"
    BY <1>1, <1>4, <2>1, <2>2 DEF StageOf
  <2> QED BY <1>5, <2>1, <2>2, <2>3
<1>8. CASE w.stage = "resolving" /\ Reaches(w, "hiding")
  <2>1. StageOf(g)' = StageOf(g)
    BY <1>3, <1>7, <1>8
  <2>2. \A h \in Generation : StageOf(h)' = StageOf(h)
    BY <1>7, <1>8, <2>1
  <2> QED BY <2>2 DEF stages
<1>9. CASE w.stage = "hiding" /\ Reaches(w, "opening")
  <2>1. /\ StageOf(g)' = "opening"
        /\ \A h \in Generation : h # g => StageOf(h)' = StageOf(h)
    BY <1>7, <1>9
  <2>2. stages' = [stages EXCEPT ![g] = "opening"]
    <3> HIDE DEF g
    <3> QED BY <1>3, <2>1 DEF stages
  <2>3. Lifecycle!Opens(g)
    BY <1>3, <1>9, <2>2 DEF Lifecycle!Opens, Lifecycle!Moves, stages
  <2> QED BY <1>3, <2>3 DEF Lifecycle!Next
<1> QED BY <1>2, <1>6, <1>8, <1>9

LEMMA StagesStep ==
  ASSUME IInv, generation' = generation,
         CompletionKept \/ CompletionCleared \/ CompletionTaken
  PROVE  Lifecycle!Next \/ stages' = stages
<1>1. CASE pending' = pending /\ run' = run
  BY <1>1, StagesKept
<1>2. CASE CompletionCleared /\ pending # {}
  BY <1>2, StagesCleared DEF CompletionCleared
<1>3. CASE CompletionTaken
  BY <1>3, StagesTaken
<1> QED BY <1>1, <1>2, <1>3 DEF CompletionKept, CompletionCleared

(* Every trigger has the one lifecycle docs/COMPLETION_PIPELINE.md         *)
(* describes: it opens the suggestions at most once, never after it was    *)
(* cancelled or replaced, and never while another one resolves.            *)
THEOREM ImplementsLifecycle == Spec => LifecycleSpec
<1>1. Init => Lifecycle!Init
  <2> SUFFICES ASSUME Init, NEW g \in Generation PROVE StageOf(g) = "untyped"
    BY DEF Lifecycle!Init
  <2>1. g > generation
    BY BoundAssumption DEF Init, Generation
  <2> QED BY <2>1 DEF StageOf
<1>2. ASSUME IInv, [Next]_vars PROVE Lifecycle!Next \/ stages' = stages
  <2>1. CASE UNCHANGED vars
    BY <2>1, StagesKept DEF vars, completionVars
  <2>2. ASSUME NEW d \in Document, Edit(d)
        PROVE  Lifecycle!Next \/ stages' = stages
    <3>1. CASE LeavesTriggers(d)
      BY <1>2, <3>1, StagesTyped
    <3>2. CASE LeavesNone
      BY <1>2, <3>2, ClearsCases, StagesStep DEF LeavesNone
    <3> QED BY <2>2, <3>1, <3>2 DEF Edit
  <2>3. ASSUME NEW d \in Document, Closes(d)
        PROVE  Lifecycle!Next \/ stages' = stages
    BY <1>2, <2>3, ClosesCases, StagesStep DEF Closes
  <2>4. ASSUME NEW e \in Editor, Delivers(e) \/ MovesCursor(e)
        PROVE  Lifecycle!Next \/ stages' = stages
    <3>1. PICK o \in Offset : Selects(e, o)
      BY <1>2, <2>4 DEF Delivers, MovesCursor, IInv, TypeOK
    <3> QED BY <1>2, <3>1, SelectsCases, StagesStep
  <2>5. CASE SwitchesEditor
    BY <1>2, <2>5, ClearsCases, StagesStep DEF SwitchesEditor
  <2>6. CASE TimerFires
    BY <1>2, <2>6, TimerCases, StagesStep DEF TimerFires
  <2>7. CASE FallbackFires \/ CheckReturns
    BY <2>7, StagesKept DEF FallbackFires, CheckReturns, completionVars
  <2>8. CASE RunSteps
    BY <1>2, <2>8, StagesRun
  <2> QED
    BY <1>2, <2>1, <2>2, <2>3, <2>4, <2>5, <2>6, <2>7, <2>8 DEF Next
<1>3. IInv /\ [Next]_vars => [Lifecycle!Next]_stages
  BY <1>2
<1> QED BY <1>1, <1>3, Inductive, PTL DEF LifecycleSpec, Lifecycle!Spec, Spec, stages
=============================================================================
