------------------------- MODULE DocumentSemantics -------------------------
(***************************************************************************)
(* The semantic models of one SQL document and the requests that use them  *)
(* (DocumentSemanticCache.ts with SqlCompletionProvider.ts,                *)
(* SqlRelationshipCodeActionProvider.ts and the navigation providers).     *)
(*                                                                         *)
(* A model is the analysis of a text at a cursor against a catalog.  A     *)
(* cache remembers one per document, under the document's version, the     *)
(* cursor and the catalog.  Navigation reads text and version and asks in  *)
(* one step.  Completion and code actions take the text, wait for the      *)
(* catalog, and read the version afterwards; the editor goes on meanwhile. *)
(***************************************************************************)
EXTENDS Naturals, FiniteSets

CONSTANTS
  Request,     \* requests that wait for a catalog
  Cursor,      \* offsets in the document
  Catalog,     \* identities of the catalogs a request may find
  Disconnected,
  MaxDocument, \* bound: how often the document is opened
  MaxVersion,  \* bound: versions of one opened document
  MaxText      \* bound: texts of all openings together

ASSUME CatalogAssumption == Disconnected \notin Catalog
ASSUME BoundAssumption ==
  MaxDocument \in Nat \ {0} /\ MaxVersion \in Nat \ {0} /\ MaxText \in Nat

VARIABLES
  version,    \* version of each TextDocument object, 0 before it is opened
  current,    \* the object of the open document, 0 when it is closed
  cached,     \* what each DocumentSemanticCache remembers
  request,    \* the requests in progress
  offer,      \* the code action the editor shows
  reopening,  \* code actions taken that wait for their document to open
  overlapped  \* history: what requests in progress were disturbed by

vars == <<version, current, cached, request, offer, reopening, overlapped>>

Document == 1..MaxDocument
Cache == {"navigation", "completion", "codeAction"}
AnyCatalog == Catalog \cup {Disconnected}

(* Every version of every opened document has a text of its own.           *)
Text == [document : Document, version : 1..MaxVersion]
Past == {t \in Text : t.version <= version[t.document]}
RoomForText == Cardinality(Past) < MaxText
TextOf(d) == [document |-> d, version |-> version[d]]

Model == [text : Text, cursor : Cursor, catalog : AnyCatalog]
Key == [version : 1..MaxVersion, cursor : Cursor, catalog : AnyCatalog]
Entry == [key : Key, model : Model]

Waiting == [state : {"resolving", "applying"},
            kind : {"completion", "codeAction", "save"},
            text : Text, cursor : Cursor]
Idle == [state |-> "idle"]
Offer == [version : 1..MaxVersion, cursor : Cursor, text : Text]

AtMostOne(entries) == \A e, f \in entries : e = f

TypeOK ==
  /\ version \in [Document -> 0..MaxVersion]
  /\ current \in 0..MaxDocument
  /\ current # 0 => version[current] # 0
  /\ cached \in [Cache -> SUBSET Entry]
  /\ \A c \in Cache : AtMostOne(cached[c])
  /\ request \in [Request -> Waiting \cup {Idle}]
  /\ offer \subseteq Offer /\ reopening \subseteq Offer
  /\ overlapped \subseteq {"edit", "close"}

Init ==
  /\ version = [d \in Document |-> IF d = 1 THEN 1 ELSE 0]
  /\ current = 1
  /\ cached = [c \in Cache |-> {}]
  /\ request = [r \in Request |-> Idle]
  /\ offer = {} /\ reopening = {}
  /\ overlapped = {}

-----------------------------------------------------------------------------
(* What DocumentSemanticCache.get() leaves in a cache, and returns, when    *)
(* it is asked for a model under a version of the document.                *)
KeyOf(v, m) == [version |-> v, cursor |-> m.cursor, catalog |-> m.catalog]

(* Mutant: the catalog's identity is not compared. *)
AfterIgnoringCatalog(entries, v, m) ==
  IF \E e \in entries : e.key.version = v /\ e.key.cursor = m.cursor
  THEN entries
  ELSE {[key |-> KeyOf(v, m), model |-> m]}

(* Mutant: the models of other cursors stay beside the new one. *)
AfterKeepingAll(entries, v, m) ==
  IF \E e \in entries : e.key = KeyOf(v, m)
  THEN entries
  ELSE entries \cup {[key |-> KeyOf(v, m), model |-> m]}

After(entries, v, m) ==
  IF \E e \in entries : e.key = KeyOf(v, m)
  THEN entries
  ELSE {[key |-> KeyOf(v, m), model |-> m]}

Gets(c, v, m) == cached' = [cached EXCEPT ![c] = After(@, v, m)]

ModelOf(text, cursor, catalog) ==
  [text |-> text, cursor |-> cursor, catalog |-> catalog]

(* Definition, references, highlights and hover: the model at the cursor,  *)
(* and if it names nothing there, the one at the end of the statement.     *)
Navigate ==
  /\ current # 0
  /\ \E at, end \in Cursor :
       LET m(cursor) == ModelOf(TextOf(current), cursor, Disconnected)
           first == After(cached["navigation"], version[current], m(at))
           second == After(first, version[current], m(end))
       IN cached' = [cached EXCEPT !["navigation"] = second]
  /\ UNCHANGED <<version, current, request, offer, reopening, overlapped>>

-----------------------------------------------------------------------------
(* Completion, the scope diagnosis, code actions and the save of a JOIN.   *)
IsIdle(r) == request[r].state = "idle"
Settles(r) == request' = [request EXCEPT ![r] = Idle]
DocumentOf(r) == request[r].text.document
CacheOf(kind) == IF kind = "completion" THEN "completion" ELSE "codeAction"

(* The text is taken before anything is awaited.                           *)
Begins(r, kind, cursor) ==
  /\ IsIdle(r)
  /\ current # 0
  /\ request' = [request EXCEPT ![r] =
       [state |-> "resolving", kind |-> kind, text |-> TextOf(current),
        cursor |-> cursor]]

Asks(r) ==
  /\ \E kind \in {"completion", "codeAction"}, cursor \in Cursor :
       Begins(r, kind, cursor)
  /\ UNCHANGED <<version, current, cached, offer, reopening, overlapped>>

(* Mutant: the version the code action was offered for is not compared. *)
SavesUnchecked(r, o) == Begins(r, "save", o.cursor)

(* save() of a document that is open: a JOIN of another version is refused.*)
SavesIfSame(r, o) ==
  /\ IsIdle(r)
  /\ current # 0
  /\ IF o.version = version[current]
     THEN Begins(r, "save", o.cursor)
     ELSE UNCHANGED request

(* The user takes the code action while its document is open, ...          *)
Saves(r, o) ==
  /\ o \in offer
  /\ SavesIfSame(r, o)
  /\ offer' = {}
  /\ UNCHANGED <<version, current, cached, reopening, overlapped>>

(* ... or after it was closed: save() has it opened, waits, ...            *)
SaveReopens(o) ==
  /\ o \in offer
  /\ current = 0
  /\ reopening = {} \* bound
  /\ reopening' = reopening \cup {o}
  /\ offer' = {}
  /\ UNCHANGED <<version, current, cached, request, overlapped>>

(* ... and compares the versions when it is, or it cannot be opened.       *)
SavesReopened(r, o) ==
  /\ o \in reopening
  /\ SavesIfSame(r, o)
  /\ reopening' = reopening \ {o}
  /\ UNCHANGED <<version, current, cached, offer, overlapped>>

ReopenFails(o) ==
  /\ o \in reopening
  /\ current = 0
  /\ reopening' = reopening \ {o}
  /\ UNCHANGED <<version, current, cached, request, offer, overlapped>>

(* The last look at its token finds the request cancelled, or a code       *)
(* action finds no connection or no catalog.  Nothing cancels a save.      *)
Cancels(r) ==
  /\ request[r].state = "resolving"
  /\ Settles(r)
  /\ UNCHANGED <<version, current, cached, offer, reopening, overlapped>>

Analyses(r, catalog) ==
  Gets(CacheOf(request[r].kind), version[DocumentOf(r)],
       ModelOf(request[r].text, request[r].cursor, catalog))

(* Completion, or the scope diagnosis, goes on with the catalog it got, or *)
(* with none.                                                              *)
Completes(r, catalog) ==
  /\ request[r].state = "resolving"
  /\ request[r].kind = "completion"
  /\ Analyses(r, catalog)
  /\ Settles(r)
  /\ UNCHANGED <<version, current, offer, reopening, overlapped>>

(* A code action with a catalog goes on to wait for the project's          *)
(* relationships and does not look at its token again.                     *)
Resolves(r) ==
  /\ request[r].state = "resolving"
  /\ request[r].kind \in {"codeAction", "save"}
  /\ request' = [request EXCEPT ![r].state = "applying"]
  /\ UNCHANGED <<version, current, cached, offer, reopening, overlapped>>

(* The version the action is offered for is read when it has been found.   *)
Offered(r) ==
  IF request[r].kind = "save" THEN offer
  ELSE IF DocumentOf(r) = current
  THEN {[version |-> version[current], cursor |-> request[r].cursor,
         text |-> request[r].text]}
  ELSE {}

Applies(r, catalog) ==
  /\ request[r].state = "applying"
  /\ catalog \in Catalog
  /\ Analyses(r, catalog)
  /\ offer' \in {Offered(r), {}}
  /\ Settles(r)
  /\ UNCHANGED <<version, current, reopening, overlapped>>

ApplyFails(r) ==
  /\ request[r].state = "applying"
  /\ Settles(r)
  /\ UNCHANGED <<version, current, cached, offer, reopening, overlapped>>

-----------------------------------------------------------------------------
(* The editor.  overlapped remembers that the document was edited under a  *)
(* request, until it is edited with none waiting, and that it was closed   *)
(* under one, until it is closed with none waiting.                        *)
Overlaps == \E r \in Request : ~IsIdle(r)

Edit ==
  /\ current # 0
  /\ version[current] < MaxVersion /\ RoomForText
  /\ version' = [version EXCEPT ![current] = @ + 1]
  /\ overlapped' = (overlapped \ {"edit"}) \cup (IF Overlaps THEN {"edit"} ELSE {})
  /\ UNCHANGED <<current, cached, request, offer, reopening>>

(* Mutant: the caches are not told. *)
ForgetsNothing == UNCHANGED cached

Forgets == cached' = [c \in Cache |-> {}]

(* onDidCloseTextDocument(): the document only changes its language, ...   *)
ChangesLanguage ==
  /\ current # 0
  /\ Forgets
  /\ overlapped' = IF Overlaps THEN overlapped ELSE overlapped \ {"close"}
  /\ UNCHANGED <<version, current, request, offer, reopening>>

(* ... or it is closed.  A request keeps the object it has, with its last  *)
(* version, and so does a code action that is about to be taken.           *)
Close ==
  /\ current # 0
  /\ Forgets
  /\ current' = 0
  /\ RoomForText /\ \E d \in Document : version[d] = 0 \* bound
  /\ overlapped' = IF Overlaps THEN {"close"} ELSE {}
  /\ UNCHANGED <<version, request, offer, reopening>>

(* A document that is opened again begins with version 1.                  *)
Open ==
  /\ current = 0
  /\ \E d \in Document :
       /\ version[d] = 0
       /\ version' = [version EXCEPT ![d] = 1]
       /\ current' = d
  /\ UNCHANGED <<cached, request, offer, reopening, overlapped>>

Next ==
  \/ Navigate
  \/ \E r \in Request :
       \/ Asks(r) \/ Cancels(r) \/ Resolves(r) \/ ApplyFails(r)
       \/ \E o \in offer : Saves(r, o)
       \/ \E o \in reopening : SavesReopened(r, o)
       \/ \E catalog \in AnyCatalog : Completes(r, catalog) \/ Applies(r, catalog)
  \/ \E o \in offer : SaveReopens(o)
  \/ \E o \in reopening : ReopenFails(o)
  \/ Edit \/ ChangesLanguage \/ Close \/ Open

Spec == Init /\ [][Next]_vars

-----------------------------------------------------------------------------
(* Properties                                                              *)

IsOf(e, d) == e.model.text = [document |-> d, version |-> e.key.version]

(* The promise of the cache: a model that is remembered for the version    *)
(* the document has is the analysis of the text it has.                    *)
IsCurrent(c) ==
  \A e \in cached[c] :
    current # 0 /\ e.key.version = version[current] =>
      e.model.text = TextOf(current)

(* Navigation never sees a model of another text, although a document that *)
(* is opened again counts its versions from 1 and the other caches go      *)
(* wrong: the providers read text and version together, and closing a      *)
(* document removes its models.                                            *)
NavigationIsCurrent == IsCurrent("navigation")

(* The model a request gets is the one it asked for: of its text, its      *)
(* cursor and the catalog it found, whichever request left it in the       *)
(* cache.  Only an edit under a request can break this, and only until the *)
(* next edit with none waiting; so can closing under one, until the        *)
(* document is closed with none waiting.                                   *)
Uses(r, catalog) == Applies(r, catalog) \/ Completes(r, catalog)
AnswersMatch ==
  [][\A r \in Request, catalog \in AnyCatalog :
       overlapped = {} /\ Uses(r, catalog) =>
         \E e \in cached'[CacheOf(request[r].kind)] :
           e.model = ModelOf(request[r].text, request[r].cursor, catalog)
    ]_vars

(* The version check of save() lets through only JOINs of the text their    *)
(* code action was computed from, unless the document was closed since it  *)
(* was offered.  An action computed from the text before an edit and given *)
(* the version after it is refused from the next edit with no request      *)
(* waiting on.                                                             *)
Accepts(r, o) == (Saves(r, o) \/ SavesReopened(r, o)) /\ ~IsIdle(r)'
SavesWhatWasOffered ==
  [][\A r \in Request, o \in offer \cup reopening :
       overlapped = {} /\ Accepts(r, o)
         /\ request'[r].text.document = o.text.document =>
           request'[r].text = o.text /\ request'[r].cursor = o.cursor
    ]_vars

(* tests/document-semantic-cache.test.ts:18 says that edits and closes     *)
(* invalidate what the cache remembers.  For completion they do not.       *)
CompletionIsCurrent == IsCurrent("completion")
=============================================================================
