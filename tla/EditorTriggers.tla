--------------------------- MODULE EditorTriggers ---------------------------
(***************************************************************************)
(* Automatic completion and automatic signature help (extension.ts with    *)
(* AutomaticCompletionTrigger.ts and AutomaticSignatureHelp.ts).           *)
(*                                                                         *)
(* An edit can leave a pending trigger of each kind: a document version    *)
(* and the cursor the edit will have moved to.  A timer and the editor's   *)
(* selection event, which comes after the edit, both try to fulfil it; a   *)
(* later edit, another editor or another cursor cancels it.  Fulfilling    *)
(* one awaits a provider and the editor's commands while the user goes on. *)
(* A variable that holds at most one thing is a set, empty for undefined.  *)
(***************************************************************************)
EXTENDS Naturals

CONSTANTS
  Editor,
  NoEditor,
  Document,
  DocumentOf,   \* the document an editor shows
  Offset,
  MaxVersion,   \* bound: versions of a document
  MaxGeneration \* bound: edits that may leave triggers

ASSUME EditorAssumption == NoEditor \notin Editor
ASSUME DocumentAssumption == DocumentOf \in [Editor -> Document]
ASSUME BoundAssumption == MaxVersion \in Nat \ {0} /\ MaxGeneration \in Nat

VARIABLES
  active,     \* window.activeTextEditor
  version,    \* document.version
  cursor,     \* editor.selection.active
  selection,  \* selection events the editor has not delivered yet
  generation, \* of the last triggers; completion and signatures count alike
  pending,    \* automaticCompletion
  timer,      \* the generation automaticSuggestTimer was set for
  run,        \* fulfillAutomaticSuggestTrigger() past its first check
  signature,  \* automaticSignatureHelp
  fallback,   \* the generation automaticFallbackTimer was set for
  checks,     \* calls of fulfillAutomaticTrigger() past their first check
  origin      \* history: the editor each generation was typed in

completionVars == <<pending, timer, run>>
signatureVars == <<signature, fallback, checks>>
editorVars == <<active, version, cursor, selection>>
vars == <<editorVars, generation, completionVars, signatureVars, origin>>

Generation == 1..MaxGeneration
Place == [document : Document, version : 1..MaxVersion, offset : Offset]
Trigger == [generation : Generation, place : Place]
Work(stages) == [stage : stages, trigger : Trigger, editor : Editor]

AtMostOne(s) == \A x, y \in s : x = y

TypeOK ==
  /\ active \in Editor \cup {NoEditor}
  /\ version \in [Document -> 1..MaxVersion]
  /\ cursor \in [Editor -> Offset]
  /\ selection \in [Editor -> SUBSET Offset]
  /\ generation \in 0..MaxGeneration
  /\ pending \subseteq Trigger /\ signature \subseteq Trigger
  /\ timer \subseteq Generation /\ fallback \subseteq Generation
  /\ run \subseteq Work({"resolving", "hiding", "opening"})
  /\ checks \subseteq Work({"resolving", "opening"})
  /\ \A s \in {pending, run, signature} : AtMostOne(s)
  /\ AtMostOne(fallback)
  /\ \A g \in timer : \E t \in pending : t.generation = g
  /\ origin \in [Generation -> Editor \cup {NoEditor}]

Init ==
  /\ active \in Editor \cup {NoEditor}
  /\ version = [d \in Document |-> 1]
  /\ cursor \in [Editor -> Offset]
  /\ selection = [e \in Editor |-> {}]
  /\ generation = 0
  /\ pending = {} /\ timer = {} /\ run = {}
  /\ signature = {} /\ fallback = {} /\ checks = {}
  /\ origin = [g \in Generation |-> NoEditor]

-----------------------------------------------------------------------------
(* Where an editor is when its cursor is at o.                             *)
PlaceAt(e, o) ==
  [document |-> DocumentOf[e], version |-> version[DocumentOf[e]], offset |-> o]
PlaceOf(e) == PlaceAt(e, cursor[e])

(* The checks made again after each await.                                 *)
StillThere(w) ==
  /\ active = w.editor
  /\ version[DocumentOf[active]] = w.trigger.place.version
  /\ cursor[active] = w.trigger.place.offset

(* Mutant: the timer is left running. *)
ClearsTriggerOnly ==
  /\ pending' = {} /\ signature' = {}
  /\ UNCHANGED <<timer, run, fallback, checks>>

(* clearAutomaticTrigger() and clearAutomaticSuggestTrigger().             *)
Clears ==
  /\ pending' = {} /\ timer' = {}
  /\ signature' = {} /\ fallback' = {}
  /\ UNCHANGED <<run, checks>>

(* Mutant: a second trigger is resolved beside the first. *)
FulfilsBeside(t, o) ==
  IF t.place = PlaceAt(active, o)
  THEN /\ pending' = {} /\ timer' = {}
       /\ run' = {[stage |-> "resolving", trigger |-> t, editor |-> active]}
  ELSE UNCHANGED <<pending, run>>

(* fulfillAutomaticSuggestTrigger() up to its first await, for the active  *)
(* editor with its cursor at o: it does nothing while another one runs,    *)
(* and leaves a trigger that is not for this place.                        *)
Fulfils(t, o) ==
  IF run = {} /\ t.place = PlaceAt(active, o)
  THEN /\ pending' = {} /\ timer' = {}
       /\ run' = {[stage |-> "resolving", trigger |-> t, editor |-> active]}
  ELSE UNCHANGED <<pending, run>>

(* fulfillAutomaticTrigger() up to its await: a trigger for another place  *)
(* is dropped; otherwise native help has succeeded already or is disabled, *)
(* or the cached metadata is asked.                                        *)
Hints(t, o) ==
  /\ signature' = {}
  /\ IF t.place = PlaceAt(active, o)
     THEN /\ fallback' = {}
          /\ checks' \in {checks, checks \cup
               {[stage |-> "resolving", trigger |-> t, editor |-> active]}}
     ELSE UNCHANGED checks

-----------------------------------------------------------------------------
(* The editor's events.                                                    *)

(* An edit that may be a trigger: one change, of the active SQL document.  *)
(* The timers go with the triggers.                                        *)
LeavesTriggers(d) ==
  /\ active # NoEditor /\ DocumentOf[active] = d
  /\ generation < MaxGeneration
  /\ generation' = generation + 1
  /\ origin' = [origin EXCEPT ![generation'] = active]
  /\ \E o \in Offset :
       LET t == [generation |-> generation',
                 place |-> [PlaceAt(active, o) EXCEPT !.version = @ + 1]]
       IN pending' \in {{}, {t}} /\ signature' \in {{}, {t}}
  /\ timer' = {t.generation : t \in pending'}
  /\ fallback' = {t.generation : t \in signature'}
  /\ UNCHANGED <<run, checks>>

(* Any other edit, of any document.                                        *)
LeavesNone == Clears /\ UNCHANGED <<generation, origin>>

(* onDidChangeTextDocument(): the cursor will follow.                      *)
Edit(d) ==
  /\ version[d] < MaxVersion
  /\ version' = [version EXCEPT ![d] = @ + 1]
  /\ LeavesTriggers(d) \/ LeavesNone
  /\ IF active # NoEditor /\ DocumentOf[active] = d
     THEN \E o \in Offset : selection' = [selection EXCEPT ![active] = {o}]
     ELSE UNCHANGED selection
  /\ UNCHANGED <<active, cursor>>

(* onDidChangeTextEditorSelection(), of any editor; the handler looks at   *)
(* the active one.                                                         *)
Selects(e, o) ==
  LET here == IF e = active THEN o ELSE cursor[active] IN
  /\ cursor' = [cursor EXCEPT ![e] = o]
  /\ selection' = [selection EXCEPT ![e] = {}]
  /\ IF active # NoEditor /\ \E t \in pending : t.place = PlaceAt(active, here)
     THEN \E t \in pending : Fulfils(t, here) /\ (run # {} => UNCHANGED timer)
     ELSE /\ pending' = {} /\ UNCHANGED run
          /\ IF pending = {} THEN UNCHANGED timer ELSE timer' = {}
  /\ IF active # NoEditor /\ signature # {}
     THEN \E t \in signature :
            Hints(t, here) /\ (t.place # PlaceAt(active, here) => UNCHANGED fallback)
     ELSE UNCHANGED signatureVars
  /\ UNCHANGED <<active, version, generation, origin>>

Delivers(e) == \E o \in selection[e] : Selects(e, o)
MovesCursor(e) == selection[e] = {} /\ \E o \in Offset : Selects(e, o)

(* onDidChangeActiveTextEditor().                                          *)
SwitchesEditor ==
  /\ active' \in (Editor \cup {NoEditor}) \ {active}
  /\ Clears
  /\ UNCHANGED <<version, cursor, selection, generation, origin>>

(* onDidCloseTextDocument(), which also tells of a change of language.     *)
Closes(d) ==
  LET stays(s) == {t \in s : t.place.document # d} IN
  /\ pending' = stays(pending) /\ signature' = stays(signature)
  /\ IF pending' = pending THEN UNCHANGED timer ELSE timer' = {}
  /\ IF signature' = signature THEN UNCHANGED fallback ELSE fallback' = {}
  /\ UNCHANGED <<editorVars, generation, run, checks, origin>>

-----------------------------------------------------------------------------
(* Timers.                                                                 *)
TimerFires ==
  /\ timer # {}
  /\ timer' = {}
  /\ IF active # NoEditor /\ \E t \in pending : t.generation \in timer
     THEN \E t \in pending : Fulfils(t, cursor[active])
     ELSE UNCHANGED <<pending, run>>
  /\ UNCHANGED <<editorVars, generation, signatureVars, origin>>

FallbackFires ==
  /\ fallback # {}
  /\ fallback' = {}
  /\ IF active # NoEditor /\ \E t \in signature : t.generation \in fallback
     THEN \E t \in signature : Hints(t, cursor[active])
     ELSE UNCHANGED <<signature, checks>>
  /\ UNCHANGED <<editorVars, generation, completionVars, origin>>

(* The awaits of a run: the provider, the widget that is closed, the       *)
(* suggestions that are opened.                                            *)
Reaches(w, stage) == run' = {[w EXCEPT !.stage = stage]}
RunUnchanged == UNCHANGED <<editorVars, generation, pending, timer,
                            signatureVars, origin>>

(* Mutant: without candidates the run is not marked as ended. *)
ProviderReturnsOnlyWell ==
  /\ \E w \in run : w.stage = "resolving" /\ StillThere(w) /\ Reaches(w, "hiding")
  /\ RunUnchanged

ProviderReturns ==
  /\ \E w \in run :
       /\ w.stage = "resolving"
       /\ run' = {} \/ (StillThere(w) /\ Reaches(w, "hiding"))
  /\ RunUnchanged

(* Mutant: no check after the suggestions of the last phase were closed. *)
OpensUnchecked ==
  /\ \E w \in run : w.stage = "hiding" /\ Reaches(w, "opening")
  /\ RunUnchanged

Opens ==
  /\ \E w \in run :
       /\ w.stage = "hiding"
       /\ IF StillThere(w) THEN Reaches(w, "opening") \/ run' = {} ELSE run' = {}
  /\ RunUnchanged

Opened ==
  /\ \E w \in run : w.stage = "opening"
  /\ run' = {}
  /\ RunUnchanged

(* canResolveCached() returns, and the hints are opened.                   *)
CheckReturns ==
  /\ \E w \in checks :
       \/ w.stage = "resolving" /\ StillThere(w)
            /\ checks' = (checks \ {w}) \cup {[w EXCEPT !.stage = "opening"]}
       \/ checks' = checks \ {w}
  /\ UNCHANGED <<editorVars, generation, completionVars, signature, fallback, origin>>

RunSteps == ProviderReturns \/ Opens \/ Opened

Next ==
  \/ \E d \in Document : Edit(d) \/ Closes(d)
  \/ \E e \in Editor : Delivers(e) \/ MovesCursor(e)
  \/ SwitchesEditor
  \/ TimerFires \/ FallbackFires \/ RunSteps \/ CheckReturns

Spec == Init /\ [][Next]_vars

(* Timers fire, the provider and the editor's commands return, and the     *)
(* editor reports the cursor of an edit.  The user owes nothing.           *)
Fairness ==
  /\ WF_vars(TimerFires) /\ WF_vars(FallbackFires)
  /\ WF_vars(RunSteps) /\ WF_vars(CheckReturns)
  /\ \A e \in Editor : WF_vars(Delivers(e))

FairSpec == Spec /\ Fairness

-----------------------------------------------------------------------------
(* Properties                                                              *)

(* Suggestions and hints open only in the editor, the version and at the   *)
(* cursor their trigger was typed for, however the user went on meanwhile: *)
(* another pane of the same document, at the same cursor, does not get     *)
(* them.                                                                   *)
IsHome(w) ==
  /\ active = origin[w.trigger.generation]
  /\ PlaceOf(active) = w.trigger.place
Opening(works) == {w \in works : w.stage = "opening"}
OpensWhereTyped ==
  [][/\ \A w \in Opening(run') \ Opening(run) : IsHome(w)
     /\ \A w \in Opening(checks') \ Opening(checks) : IsHome(w)]_vars

(* Every trigger has one lifecycle: see TriggerLifecycle.  It opens the    *)
(* suggestions at most once, never after it was cancelled or replaced, and *)
(* never while another one resolves.                                       *)
StageOf(g) ==
  IF g > generation THEN "untyped"
  ELSE IF \E t \in pending : t.generation = g THEN "waiting"
  ELSE IF \E w \in run : w.trigger.generation = g /\ w.stage = "opening"
    THEN "opening"
  ELSE IF \E w \in run : w.trigger.generation = g THEN "resolving"
  ELSE "over"

Lifecycle == INSTANCE TriggerLifecycle WITH
  Trigger <- Generation, stage <- [g \in Generation |-> StageOf(g)]

LifecycleSpec == Lifecycle!Spec

(* A run ends, so the next trigger can be fulfilled.                       *)
RunsEnd == run # {} ~> run = {}

(* A signature trigger is fulfilled or dropped by the next event or timer. *)
SignaturesSettle ==
  \A g \in Generation :
    (\E t \in signature : t.generation = g)
      ~> ~(\E t \in signature : t.generation = g)

(* Nothing an editor does leaves a run or a signature trigger behind.      *)
TriggerWorkSettles == RunsEnd /\ SignaturesSettle

(* docs/COMPLETION_PIPELINE.md:510-515: a trigger waits for the selection, *)
(* is resolved and "invokes native Suggest once", or a later version,      *)
(* editor or cursor cancels it.                                            *)
TriggersEnd ==
  \A g \in Generation :
    (\E t \in pending : t.generation = g)
      ~> ~(\E t \in pending : t.generation = g)
=============================================================================
