---------------------- MODULE DocumentSemanticsProofs ----------------------
(***************************************************************************)
(* Proofs about the semantic models, for any number of requests, cursors,  *)
(* catalogs, versions and times a document is opened.  Navigation needs    *)
(* only that its models belong to the document that is open, which is what *)
(* closing a document is for.  The rest needs that no request was          *)
(* disturbed since the last undisturbed edit and closing: a model or a     *)
(* code action that is wrong has an older version by then.                 *)
(***************************************************************************)
EXTENDS DocumentSemantics, TLAPS

Types ==
  /\ version \in [Document -> 0..MaxVersion]
  /\ current \in 0..MaxDocument
  /\ current # 0 => version[current] # 0
  /\ cached \in [Cache -> SUBSET Entry]
  /\ request \in [Request -> Waiting \cup {Idle}]
  /\ offer \subseteq Offer /\ reopening \subseteq Offer
  /\ overlapped \subseteq {"edit", "close"}

(* Each model is remembered under the version of its own text, of the      *)
(* document that is open, and under its own cursor and catalog.            *)
Sound(entries, d) ==
  \A e \in entries :
    /\ d # 0
    /\ IsOf(e, d)
    /\ e.key = KeyOf(e.key.version, e.model)

NavigationSound == Sound(cached["navigation"], current)

(* A request has the text of a document that was open.                     *)
Opened ==
  \A r \in Request : request[r] # Idle => version[DocumentOf(r)] # 0

Single == \A c \in Cache : AtMostOne(cached[c])

(* Every model is remembered under its own cursor and catalog, and no code *)
(* action has a version its document did not have yet.                     *)
Keyed ==
  \A c \in Cache : \A e \in cached[c] : e.key = KeyOf(e.key.version, e.model)
Offers == offer \cup reopening
Dated == \A o \in Offers : o.version <= version[o.text.document]

(* What holds after the document was edited with no request waiting: what  *)
(* has the document's version has its text.                                *)
Has(o) == o.text.document = current /\ o.version = version[current]
InText ==
  /\ \A r \in Request : request[r] # Idle /\ DocumentOf(r) = current =>
       request[r].text = TextOf(current)
  /\ \A o \in Offers : Has(o) => o.text = TextOf(current)

(* What holds after it was closed with none waiting: requests and models   *)
(* belong to the document that is open.                                    *)
InDocument ==
  /\ \A r \in Request : request[r] # Idle => current # 0 /\ DocumentOf(r) = current
  /\ \A c \in Cache : \A e \in cached[c] :
       current # 0 /\ e.key.version <= version[current]

(* What holds after both: models of the current version are of its text.   *)
Current(entries) ==
  \A e \in entries : e.key.version = version[current] => IsOf(e, current)
InStep == \A c \in Cache : Current(cached[c])

IInv ==
  /\ Types /\ Opened /\ Single /\ NavigationSound
  /\ Keyed /\ Dated
  /\ "edit" \notin overlapped => InText
  /\ "close" \notin overlapped => InDocument
  /\ overlapped = {} => InStep

LEMMA InitTypes == Init => Types
<1> SUFFICES ASSUME Init PROVE Types
  OBVIOUS
<1>1. version \in [Document -> 0..MaxVersion]
  BY BoundAssumption DEF Init
<1>2. current \in 0..MaxDocument /\ version[current] # 0
  BY BoundAssumption DEF Init, Document
<1>3. cached \in [Cache -> SUBSET Entry]
  BY DEF Init
<1> QED BY <1>1, <1>2, <1>3 DEF Init, Types

LEMMA AfterIsTyped ==
  ASSUME NEW entries \in SUBSET Entry, NEW v \in 1..MaxVersion, NEW m \in Model
  PROVE  After(entries, v, m) \in SUBSET Entry
<1>1. [key |-> KeyOf(v, m), model |-> m] \in Entry
  BY DEF Entry, Key, KeyOf, Model
<1> QED BY <1>1 DEF After

LEMMA TextIsTyped ==
  ASSUME Types, current # 0
  PROVE  /\ TextOf(current) \in Text
         /\ version[current] \in 1..MaxVersion
         /\ current \in Document
  BY BoundAssumption DEF Types, TextOf, Text, Document

LEMMA ModelIsTyped ==
  ASSUME NEW text \in Text, NEW cursor \in Cursor, NEW catalog \in AnyCatalog
  PROVE  ModelOf(text, cursor, catalog) \in Model
  BY DEF ModelOf, Model

(* Whoever begins has the text of the document that is open.               *)
LEMMA BeginsTyped ==
  ASSUME Types, Opened, NEW r \in Request, NEW cursor \in Cursor,
         NEW kind \in {"completion", "codeAction", "save"},
         Begins(r, kind, cursor), UNCHANGED version
  PROVE  request' \in [Request -> Waiting \cup {Idle}] /\ Opened'
<1>1. TextOf(current) \in Text
  BY TextIsTyped DEF Begins
<1> DEFINE w == [state |-> "resolving", kind |-> kind, text |-> TextOf(current),
                 cursor |-> cursor]
<1>2. w \in Waiting
  BY <1>1 DEF Waiting
<1>3. request' = [request EXCEPT ![r] = w]
  BY DEF Begins
<1>4. Opened'
  BY <1>3, TextIsTyped DEF Begins, Opened, DocumentOf, TextOf, Types
<1> QED BY <1>2, <1>3, <1>4 DEF Types

LEMMA SavesTyped ==
  ASSUME Types, Opened, NEW r \in Request, NEW o \in Offer, SavesIfSame(r, o),
         UNCHANGED version
  PROVE  request' \in [Request -> Waiting \cup {Idle}] /\ Opened'
<1>1. o.cursor \in Cursor
  BY DEF Offer
<1>2. CASE Begins(r, "save", o.cursor)
  BY <1>1, <1>2, BeginsTyped
<1>3. CASE UNCHANGED request
  BY <1>3 DEF Types, Opened, DocumentOf
<1> QED BY <1>2, <1>3 DEF SavesIfSame

LEMMA AnalysesTyped ==
  ASSUME Types, Opened, NEW r \in Request, request[r] # Idle,
         NEW catalog \in AnyCatalog, Analyses(r, catalog)
  PROVE  cached' \in [Cache -> SUBSET Entry]
<1>1. request[r] \in Waiting
  BY DEF Types
<1>2. ModelOf(request[r].text, request[r].cursor, catalog) \in Model
  BY <1>1, ModelIsTyped DEF Waiting
<1>3. version[DocumentOf(r)] \in 1..MaxVersion
  BY <1>1, BoundAssumption DEF Types, Opened, DocumentOf, Waiting, Text
<1>4. CacheOf(request[r].kind) \in Cache
  BY DEF CacheOf, Cache
<1> QED BY <1>2, <1>3, <1>4, AfterIsTyped DEF Analyses, Gets, Types

LEMMA TypesNext == Types /\ Opened /\ [Next]_vars => Types' /\ Opened'
<1> SUFFICES ASSUME Types, Opened, [Next]_vars PROVE Types' /\ Opened'
  OBVIOUS
<1>1. CASE UNCHANGED vars
  BY <1>1 DEF vars, Types, Opened, DocumentOf
<1>2. CASE Navigate
  <2>1. PICK at \in Cursor, end \in Cursor :
          cached' = [cached EXCEPT !["navigation"] =
            After(After(cached["navigation"], version[current],
                        ModelOf(TextOf(current), at, Disconnected)),
                  version[current],
                  ModelOf(TextOf(current), end, Disconnected))]
    BY <1>2 DEF Navigate
  <2>2. /\ TextOf(current) \in Text /\ version[current] \in 1..MaxVersion
        /\ UNCHANGED <<version, current, request, offer, reopening, overlapped>>
    BY <1>2, TextIsTyped DEF Navigate
  <2>3. Disconnected \in AnyCatalog
    BY DEF AnyCatalog
  <2>4. "navigation" \in Cache /\ cached["navigation"] \in SUBSET Entry
    BY DEF Types, Cache
  <2>5. cached' \in [Cache -> SUBSET Entry]
    BY <2>1, <2>2, <2>3, <2>4, AfterIsTyped, ModelIsTyped DEF Types
  <2> QED BY <2>2, <2>5 DEF Types, Opened, DocumentOf
<1>3. ASSUME NEW r \in Request, Asks(r) PROVE Types' /\ Opened'
  BY <1>3, BeginsTyped DEF Asks, Types
<1>4. ASSUME NEW r \in Request, NEW o \in Offers,
             Saves(r, o) \/ SavesReopened(r, o)
      PROVE  Types' /\ Opened'
  <2>1. o \in Offer
    BY DEF Offers, Types
  <2>2. SavesIfSame(r, o) /\ UNCHANGED <<version, current, cached, overlapped>>
        /\ offer' \subseteq offer /\ reopening' \subseteq reopening
    BY <1>4 DEF Saves, SavesReopened
  <2> QED BY <2>1, <2>2, SavesTyped DEF Types
<1>5. ASSUME NEW o, SaveReopens(o) \/ ReopenFails(o) PROVE Types' /\ Opened'
  BY <1>5 DEF SaveReopens, ReopenFails, Types, Opened, DocumentOf
<1>6. ASSUME NEW r \in Request, Settles(r),
             UNCHANGED <<version, current, reopening, overlapped>>,
             cached' \in [Cache -> SUBSET Entry], offer' \subseteq Offer
      PROVE  Types' /\ Opened'
  BY <1>6 DEF Settles, Types, Opened, DocumentOf
<1>7. ASSUME NEW r \in Request, Cancels(r) \/ ApplyFails(r) PROVE Types' /\ Opened'
  BY <1>6, <1>7 DEF Cancels, ApplyFails, Types
<1>8. ASSUME NEW r \in Request, NEW catalog \in AnyCatalog, Completes(r, catalog)
      PROVE  Types' /\ Opened'
  <2>1. cached' \in [Cache -> SUBSET Entry]
    BY <1>8, AnalysesTyped DEF Completes, Idle
  <2> QED BY <1>6, <1>8, <2>1 DEF Completes, Types
<1>9. ASSUME NEW r \in Request, Resolves(r) PROVE Types' /\ Opened'
  <2>1. request[r] \in Waiting
    BY <1>9 DEF Resolves, Types, Idle
  <2>2. [request[r] EXCEPT !.state = "applying"] \in Waiting
    BY <2>1 DEF Waiting
  <2>3. Opened'
    BY <1>9, <2>1 DEF Resolves, Opened, DocumentOf, Types, Waiting, Idle
  <2> QED BY <1>9, <2>2, <2>3 DEF Resolves, Types
<1>10. ASSUME NEW r \in Request, NEW catalog \in AnyCatalog, Applies(r, catalog)
       PROVE  Types' /\ Opened'
  <2>1. request[r] # Idle /\ request[r] \in Waiting
    BY <1>10 DEF Applies, Idle, Types
  <2>2. cached' \in [Cache -> SUBSET Entry]
    BY <1>10, <2>1, AnalysesTyped DEF Applies
  <2>3. Offered(r) \subseteq Offer
    <3>1. CASE DocumentOf(r) = current
      <4>1. version[current] \in 1..MaxVersion
        BY <2>1, <3>1, BoundAssumption DEF Opened, Types, DocumentOf, Waiting, Text
      <4> QED BY <2>1, <4>1 DEF Offered, Offer, Waiting, Types
    <3> QED BY <3>1 DEF Offered, Types
  <2> QED BY <1>6, <1>10, <2>2, <2>3 DEF Applies
<1>11. CASE Edit
  <2>1. version' \in [Document -> 0..MaxVersion] /\ current \in Document
    BY <1>11, BoundAssumption DEF Edit, Types, Document
  <2>2. \A d \in Document : version[d] # 0 => version'[d] # 0
    BY <1>11, <2>1, BoundAssumption DEF Edit, Types, Document
  <2>3. Opened'
    <3> SUFFICES ASSUME NEW r \in Request, request[r] # Idle
                 PROVE  version'[DocumentOf(r)] # 0
      BY <1>11 DEF Edit, Opened, DocumentOf
    <3>1. DocumentOf(r) \in Document
      BY DEF Types, Waiting, Text, DocumentOf
    <3> QED BY <2>2, <3>1 DEF Opened
  <2>4. overlapped' \subseteq {"edit", "close"}
    BY <1>11 DEF Edit, Types
  <2>5. version'[current] # 0
    BY <1>11, <2>1, <2>2 DEF Edit, Types
  <2> QED BY <1>11, <2>1, <2>3, <2>4, <2>5 DEF Edit, Types
<1>12. CASE ChangesLanguage \/ Close
  <2>1. cached' \in [Cache -> SUBSET Entry]
    BY <1>12 DEF ChangesLanguage, Close, Forgets
  <2>2. overlapped' \subseteq {"edit", "close"} /\ current' \in {current, 0}
    BY <1>12 DEF ChangesLanguage, Close, Types
  <2> QED BY <1>12, <2>1, <2>2, BoundAssumption
          DEF ChangesLanguage, Close, Types, Opened, DocumentOf
<1>13. CASE Open
  <2>1. PICK d \in Document : /\ version' = [version EXCEPT ![d] = 1]
                               /\ current' = d
    BY <1>13 DEF Open
  <2>2. version' \in [Document -> 0..MaxVersion] /\ version'[d] = 1
        /\ current' \in 0..MaxDocument
    BY <2>1, BoundAssumption DEF Types, Document
  <2>3. Opened'
    <3> SUFFICES ASSUME NEW r \in Request, request[r] # Idle
                 PROVE  version'[DocumentOf(r)] # 0
      BY <1>13 DEF Open, Opened, DocumentOf
    <3>1. DocumentOf(r) \in Document
      BY DEF Types, Waiting, Text, DocumentOf
    <3> QED BY <2>1, <3>1 DEF Opened, Types
  <2> QED BY <1>13, <2>1, <2>2, <2>3 DEF Open, Types
<1> QED
  BY <1>1, <1>2, <1>3, <1>4, <1>5, <1>7, <1>8, <1>9, <1>10, <1>11, <1>12,
     <1>13 DEF Next, Offers

-----------------------------------------------------------------------------
(* What asking a cache does to what it remembers.                          *)
LEMMA AfterIsSound ==
  ASSUME NEW entries, NEW d, NEW text, NEW v, NEW cursor, NEW catalog,
         Sound(entries, d), d # 0,
         text = [document |-> d, version |-> v]
  PROVE  Sound(After(entries, v, ModelOf(text, cursor, catalog)), d)
<1> DEFINE m == ModelOf(text, cursor, catalog)
           new == [key |-> KeyOf(v, m), model |-> m]
<1>1. IsOf(new, d) /\ new.key = KeyOf(new.key.version, new.model)
  BY DEF IsOf, KeyOf, ModelOf
<1>2. Sound({new}, d)
  BY <1>1 DEF Sound
<1>3. After(entries, v, m) \in {entries, {new}}
  BY DEF After
<1> QED BY <1>2, <1>3

LEMMA AfterIsSingle ==
  ASSUME NEW entries, NEW v, NEW m, AtMostOne(entries)
  PROVE  AtMostOne(After(entries, v, m))
  BY DEF AtMostOne, After

LEMMA NavigateSound ==
  ASSUME Types, Navigate
  PROVE  /\ \A c \in Cache \ {"navigation"} : cached'[c] = cached[c]
         /\ Single => Single'
         /\ NavigationSound => NavigationSound'
         /\ \A e \in cached'["navigation"] :
              e \in cached["navigation"] \/ e.key.version = version[current]
<1> DEFINE m(cursor) == ModelOf(TextOf(current), cursor, Disconnected)
           first(at) == After(cached["navigation"], version[current], m(at))
           second(at, end) == After(first(at), version[current], m(end))
<1>1. PICK at \in Cursor, end \in Cursor :
        cached' = [cached EXCEPT !["navigation"] = second(at, end)]
  BY DEF Navigate
<1>2. cached'["navigation"] = second(at, end)
  BY <1>1 DEF Types, Cache
<1>3. \A c \in Cache \ {"navigation"} : cached'[c] = cached[c]
  BY <1>1 DEF Types
<1>4. Single => Single'
  <2> SUFFICES ASSUME Single, NEW c \in Cache PROVE AtMostOne(cached'[c])
    BY DEF Single
  <2>1. AtMostOne(cached[c]) /\ AtMostOne(cached["navigation"])
    BY DEF Single, Cache
  <2>2. AtMostOne(first(at)) /\ AtMostOne(second(at, end))
    BY <2>1, AfterIsSingle
  <2> QED BY <1>2, <1>3, <2>1, <2>2
<1>5. NavigationSound => NavigationSound'
  <2> SUFFICES ASSUME NavigationSound PROVE NavigationSound'
    OBVIOUS
  <2>1. current # 0 /\ current' = current
    BY DEF Navigate
  <2>2. Sound(first(at), current)
    BY <2>1, AfterIsSound DEF NavigationSound, TextOf
  <2>3. Sound(second(at, end), current)
    <3> HIDE DEF first
    <3> QED BY <2>1, <2>2, AfterIsSound DEF TextOf
  <2> QED BY <1>2, <2>1, <2>3 DEF NavigationSound
<1>6. \A e \in cached'["navigation"] :
        e \in cached["navigation"] \/ e.key.version = version[current]
  BY <1>2 DEF After, KeyOf
<1> QED BY <1>3, <1>4, <1>5, <1>6

(* A request leaves the cache of its own kind as it was, or with the model *)
(* it asked for, and never touches the one of navigation.                  *)
LEMMA AnalysesOne ==
  ASSUME Types, NEW r \in Request, NEW catalog \in AnyCatalog, Analyses(r, catalog),
         NEW v, v = version[DocumentOf(r)],
         NEW m, m = ModelOf(request[r].text, request[r].cursor, catalog)
  PROVE  /\ CacheOf(request[r].kind) \in Cache \ {"navigation"}
         /\ cached'[CacheOf(request[r].kind)]
              = After(cached[CacheOf(request[r].kind)], v, m)
         /\ cached'["navigation"] = cached["navigation"]
         /\ \A c \in Cache : \A e \in cached'[c] :
              e \in cached[c] \/ e = [key |-> KeyOf(v, m), model |-> m]
         /\ Single => Single'
<1> DEFINE c == CacheOf(request[r].kind)
<1>1. c \in Cache \ {"navigation"} /\ "navigation" \in Cache
  BY DEF CacheOf, Cache
<1>2. cached' = [cached EXCEPT ![c] = After(cached[c], v, m)]
  BY DEF Analyses, Gets
<1>3. /\ cached'[c] = After(cached[c], v, m)
      /\ \A b \in Cache \ {c} : cached'[b] = cached[b]
  BY <1>1, <1>2 DEF Types
<1>4. Single => Single'
  BY <1>1, <1>3, AfterIsSingle DEF Single
<1> QED BY <1>1, <1>3, <1>4 DEF After

-----------------------------------------------------------------------------
LEMMA InitHolds == Init => IInv
<1> SUFFICES ASSUME Init PROVE IInv
  OBVIOUS
<1>1. Types
  BY InitTypes
<1>2. \A c \in Cache : cached[c] = {}
  BY DEF Init
<1>3. "navigation" \in Cache
  BY DEF Cache
<1>4. Opened /\ Single /\ NavigationSound /\ Keyed /\ Dated
  BY <1>2, <1>3
     DEF Init, Opened, Single, AtMostOne, NavigationSound, Sound, Keyed, Dated,
         Offers
<1>5. InText /\ InDocument /\ InStep
  BY <1>2 DEF Init, InText, InDocument, InStep, Current, Offers
<1> QED BY <1>1, <1>4, <1>5 DEF IInv

(* The invariant without its types and its history, as the steps below     *)
(* preserve it.                                                            *)
Rest ==
  /\ Single /\ NavigationSound /\ Keyed /\ Dated
  /\ "edit" \notin overlapped => InText
  /\ "close" \notin overlapped => InDocument
  /\ overlapped = {} => InStep

(* Steps that change no document and no cache keep it, if each request has *)
(* the text it had or that of the open document, and no offer is new.      *)
LEMMA RequestsMove ==
  ASSUME IInv, UNCHANGED <<version, current, cached, overlapped>>,
         Offers' \subseteq Offers,
         \A r \in Request : request'[r] # Idle =>
           \/ request[r] # Idle /\ request'[r].text = request[r].text
           \/ current # 0 /\ request'[r].text = TextOf(current)
  PROVE  Rest'
<1>1. Single' /\ NavigationSound' /\ Keyed' /\ Dated'
  BY DEF IInv, Single, NavigationSound, Keyed, Dated
<1>2. InText => InText'
  BY DEF InText, DocumentOf, TextOf, Has
<1>3. InDocument => InDocument'
  BY DEF InDocument, DocumentOf, TextOf
<1>4. InStep => InStep'
  BY DEF InStep, Current
<1> QED BY <1>1, <1>2, <1>3, <1>4 DEF IInv, Rest

LEMMA SettlesMove ==
  ASSUME IInv, NEW r \in Request, Settles(r)
  PROVE  \A q \in Request : request'[q] # Idle =>
           request[q] # Idle /\ request'[q].text = request[q].text
  BY DEF IInv, Settles, Types

LEMMA BeginsMove ==
  ASSUME IInv, NEW r \in Request, NEW kind, NEW cursor, Begins(r, kind, cursor)
  PROVE  \A q \in Request : request'[q] # Idle =>
           \/ request[q] # Idle /\ request'[q].text = request[q].text
           \/ current # 0 /\ request'[q].text = TextOf(current)
  BY DEF IInv, Begins, Types

(* A request that analyses its text and settles, and may be offered.       *)
LEMMA AnalysesKeep ==
  ASSUME IInv, Types', NEW r \in Request, request[r] # Idle, Settles(r),
         NEW catalog \in AnyCatalog, Analyses(r, catalog),
         UNCHANGED <<version, current, reopening, overlapped>>,
         offer' \in {offer, Offered(r), {}}
  PROVE  Rest'
<1> DEFINE v == version[DocumentOf(r)]
           m == ModelOf(request[r].text, request[r].cursor, catalog)
           new == [key |-> KeyOf(v, m), model |-> m]
<1>1. Types /\ Opened /\ Single /\ NavigationSound /\ Keyed /\ Dated
  BY DEF IInv
<1>2. /\ cached'["navigation"] = cached["navigation"]
      /\ Single'
      /\ \A c \in Cache : \A e \in cached'[c] : e \in cached[c] \/ e = new
  BY <1>1, AnalysesOne
<1>3. /\ new.key = KeyOf(new.key.version, new.model) /\ new.key.version = v
      /\ new.model.text = request[r].text
  BY DEF KeyOf, ModelOf
<1> HIDE DEF new
<1>4. NavigationSound'
  BY <1>1, <1>2 DEF NavigationSound
<1>5. Keyed'
  BY <1>1, <1>2, <1>3 DEF Keyed
<1>6. \A o \in Offers' :
        \/ o \in Offers
        \/ Has(o) /\ o.text = request[r].text /\ DocumentOf(r) = current
  BY DEF Offers, Offered, Has, DocumentOf
<1>7. Dated'
  <2> SUFFICES ASSUME NEW o \in Offers' PROVE o.version <= version[o.text.document]
    BY DEF Dated
  <2>1. CASE o \in Offers
    BY <1>1, <2>1 DEF Dated
  <2>2. CASE Has(o) /\ DocumentOf(r) = current
    <3>1. version[current] \in Nat
      BY <1>1, <2>2 DEF Types, Waiting, Text, DocumentOf
    <3> QED BY <2>2, <3>1 DEF Has
  <2> QED BY <1>6, <2>1, <2>2
<1>8. ASSUME InText PROVE InText'
  <2>1. \A o \in Offers' : Has(o) => o.text = TextOf(current)
    BY <1>6, <1>8 DEF InText
  <2> QED BY <1>8, <2>1, SettlesMove DEF InText, DocumentOf, TextOf, Has
<1>9. ASSUME InDocument PROVE InDocument'
  <2>1. current # 0 /\ DocumentOf(r) = current
    BY <1>9 DEF InDocument
  <2>2. version[current] \in Nat
    BY <1>1, <2>1 DEF Types, Waiting, Text, DocumentOf
  <2>3. \A c \in Cache : \A e \in cached'[c] : e.key.version <= version[current]
    BY <1>2, <1>3, <1>9, <2>1, <2>2 DEF InDocument
  <2> QED BY <1>9, <2>1, <2>3, SettlesMove DEF InDocument, DocumentOf
<1>10. ASSUME InText, InDocument, InStep PROVE InStep'
  <2>1. request[r].text = TextOf(current) /\ v = version[current]
    BY <1>10 DEF InText, InDocument
  <2>2. IsOf(new, current)
    BY <1>3, <2>1 DEF IsOf, TextOf
  <2>3. \A c \in Cache : \A e \in cached'[c] :
          e.key.version = version[current] => IsOf(e, current)
    BY <1>2, <1>10, <2>2 DEF InStep, Current
  <2> QED BY <2>3 DEF InStep, Current
<1> QED BY <1>2, <1>4, <1>5, <1>7, <1>8, <1>9, <1>10 DEF IInv, Rest

LEMMA NobodyWaits ==
  ASSUME Types, ~Overlaps
  PROVE  \A r \in Request : request[r] = Idle
  BY DEF Types, Overlaps, IsIdle, Waiting

(* After an edit nothing has the new version yet; requests that wait have  *)
(* the text from before it.                                                *)
LEMMA EditKeeps ==
  ASSUME IInv, Edit
  PROVE  Rest'
<1>1. Types /\ Opened /\ Single /\ NavigationSound /\ Keyed /\ Dated
      /\ UNCHANGED <<current, cached, request, offer, reopening>>
  BY DEF IInv, Edit
<1>2. /\ current \in Document /\ version[current] \in Nat
      /\ version' = [version EXCEPT ![current] = version[current] + 1]
      /\ version'[current] = version[current] + 1
  BY <1>1, TextIsTyped DEF Edit, Types
<1>3. Single' /\ NavigationSound' /\ Keyed'
  BY <1>1 DEF Single, NavigationSound, Keyed
<1>4. \A o \in Offers : /\ o.text.document \in Document /\ o.version \in Nat
                        /\ version[o.text.document] \in Nat
  BY <1>1 DEF Offers, Types, Offer, Text
<1>5. Dated'
  BY <1>1, <1>2, <1>4 DEF Dated, Offers, Types
<1>6. ASSUME "edit" \notin overlapped' PROVE InText'
  <2>1. \A r \in Request : request[r] = Idle
    BY <1>1, <1>6, NobodyWaits DEF Edit
  <2>2. \A o \in Offers : ~Has(o)'
    BY <1>1, <1>2, <1>4 DEF Has, Dated
  <2> QED BY <1>1, <2>1, <2>2 DEF InText, Offers
<1>7. ASSUME InDocument PROVE InDocument' /\ InStep'
  <2>1. \A c \in Cache : \A e \in cached[c] : e.key.version \in Nat
    BY <1>1 DEF Types, Entry, Key
  <2>2. \A c \in Cache : \A e \in cached[c] :
          e.key.version <= version'[current] /\ e.key.version # version'[current]
    BY <1>2, <1>7, <2>1 DEF InDocument
  <2>3. InStep'
    BY <1>1, <2>2 DEF InStep, Current
  <2> QED BY <1>1, <1>7, <2>2, <2>3 DEF InDocument, DocumentOf
<1>8. "close" \notin overlapped' => "close" \notin overlapped
  BY DEF Edit
<1> QED BY <1>3, <1>5, <1>6, <1>7, <1>8 DEF IInv, Rest

(* Forgetting leaves nothing to be wrong but requests and offers.          *)
LEMMA ForgetsKeeps ==
  ASSUME IInv, Forgets, UNCHANGED <<version, request, offer, reopening>>,
         current' \in {current, 0},
         "edit" \notin overlapped' => "edit" \notin overlapped \/ current' = 0,
         "close" \notin overlapped' =>
           ~Overlaps \/ (current' = current /\ "close" \notin overlapped)
  PROVE  Rest'
<1>1. Types /\ Opened /\ Dated
  BY DEF IInv
<1>2. \A c \in Cache : cached'[c] = {}
  BY DEF Forgets
<1>3. "navigation" \in Cache
  BY DEF Cache
<1>4. Single' /\ NavigationSound' /\ Keyed' /\ InStep'
  BY <1>2, <1>3
     DEF Single, AtMostOne, NavigationSound, Sound, Keyed, InStep, Current
<1>5. Dated'
  BY <1>1 DEF Dated, Offers
<1>6. ASSUME current' = 0 PROVE InText'
  <2>1. \A r \in Request : request[r] # Idle => DocumentOf(r) # 0
    BY <1>1, BoundAssumption DEF Types, Waiting, Text, Document, DocumentOf
  <2>2. \A o \in Offers : o.text.document # 0
    BY <1>1, BoundAssumption DEF Types, Offers, Offer, Text, Document
  <2> QED BY <1>6, <2>1, <2>2 DEF InText, Has, Offers, DocumentOf
<1>7. ASSUME InText, current' = current PROVE InText'
  BY <1>7 DEF InText, Has, Offers, DocumentOf, TextOf
<1>8. ASSUME ~Overlaps PROVE InDocument'
  BY <1>1, <1>2, <1>8, NobodyWaits DEF InDocument
<1>9. ASSUME InDocument, current' = current PROVE InDocument'
  BY <1>2, <1>9 DEF InDocument, DocumentOf
<1> QED BY <1>4, <1>5, <1>6, <1>7, <1>8, <1>9 DEF IInv, Rest

(* Requests and offers that are left belong to documents that were open.   *)
LEMMA OpenKeeps ==
  ASSUME IInv, Open
  PROVE  Rest'
<1>1. Types /\ Opened /\ Single /\ NavigationSound /\ Keyed /\ Dated
      /\ UNCHANGED <<cached, request, offer, reopening, overlapped>> /\ current = 0
  BY DEF IInv, Open
<1>2. PICK d \in Document : /\ version[d] = 0 /\ current' = d
                            /\ version' = [version EXCEPT ![d] = 1]
  BY DEF Open
<1>3. /\ version'[d] = 1 /\ d # 0
      /\ \A b \in Document \ {d} : version'[b] = version[b]
  BY <1>1, <1>2, BoundAssumption DEF Types, Document
<1>4. cached["navigation"] = {}
  BY <1>1 DEF NavigationSound, Sound
<1>5. Single' /\ NavigationSound' /\ Keyed'
  BY <1>1, <1>4 DEF Single, NavigationSound, Sound, Keyed
<1>6. \A o \in Offers : /\ o.text.document \in Document /\ o.version \in 1..MaxVersion
                        /\ o.text.document # d
  BY <1>1, <1>2, BoundAssumption DEF Offers, Types, Offer, Text, Dated
<1>7. Dated'
  BY <1>1, <1>3, <1>6 DEF Dated, Offers
<1>8. InText'
  <2>1. \A r \in Request : request[r] # Idle => DocumentOf(r) # d
    BY <1>1, <1>2 DEF Opened
  <2> QED BY <1>1, <1>2, <1>6, <2>1 DEF InText, Has, Offers, DocumentOf
<1>9. ASSUME InDocument PROVE InDocument' /\ InStep'
  BY <1>1, <1>9 DEF InDocument, InStep, Current
<1> QED BY <1>1, <1>5, <1>7, <1>8, <1>9 DEF IInv, Rest

LEMMA IInvNext == IInv /\ [Next]_vars => IInv'
<1> SUFFICES ASSUME IInv, [Next]_vars PROVE IInv'
  OBVIOUS
<1>1. Types /\ Opened /\ Types' /\ Opened'
  BY TypesNext DEF IInv
<1>2. SUFFICES Rest'
  BY <1>1 DEF IInv, Rest
<1>3. CASE UNCHANGED vars
  BY <1>3, RequestsMove DEF vars, Offers
<1>4. CASE Navigate
  <2>1. UNCHANGED <<version, current, request, offer, reopening, overlapped>>
        /\ current # 0
    BY <1>4 DEF Navigate
  <2>2. /\ \A c \in Cache \ {"navigation"} : cached'[c] = cached[c]
        /\ Single' /\ NavigationSound'
        /\ \A e \in cached'["navigation"] :
             e \in cached["navigation"] \/ e.key.version = version[current]
    BY <1>1, <1>4, NavigateSound DEF IInv
  <2>3. Keyed'
    BY <2>2 DEF IInv, Keyed, NavigationSound, Sound
  <2>4. Dated' /\ (InText => InText')
    BY <2>1 DEF IInv, Dated, Offers, InText, Has, DocumentOf, TextOf
  <2>5. ASSUME InDocument PROVE InDocument'
    <3>1. version[current] \in Nat
      BY <1>1, <2>1, TextIsTyped
    <3> QED BY <2>1, <2>2, <2>5, <3>1 DEF InDocument, DocumentOf
  <2>6. InStep => InStep'
    BY <2>1, <2>2 DEF InStep, Current, NavigationSound, Sound
  <2> QED BY <2>1, <2>2, <2>3, <2>4, <2>5, <2>6 DEF IInv, Rest
<1>5. ASSUME NEW r \in Request, Asks(r) PROVE Rest'
  BY <1>5, BeginsMove, RequestsMove DEF Asks, Offers
<1>6. ASSUME NEW r \in Request, NEW o, Saves(r, o) \/ SavesReopened(r, o)
      PROVE  Rest'
  <2>1. /\ UNCHANGED <<version, current, cached, overlapped>>
        /\ Offers' \subseteq Offers
    BY <1>6 DEF Saves, SavesReopened, Offers
  <2>2. Begins(r, "save", o.cursor) \/ UNCHANGED request
    BY <1>6 DEF Saves, SavesReopened, SavesIfSame
  <2> QED BY <2>1, <2>2, BeginsMove, RequestsMove
<1>7. ASSUME NEW o, SaveReopens(o) \/ ReopenFails(o) PROVE Rest'
  BY <1>7, RequestsMove DEF SaveReopens, ReopenFails, Offers
<1>8. ASSUME NEW r \in Request, Cancels(r) \/ ApplyFails(r) PROVE Rest'
  BY <1>8, SettlesMove, RequestsMove DEF Cancels, ApplyFails, Offers
<1>9. ASSUME NEW r \in Request, Resolves(r) PROVE Rest'
  <2>1. request[r] \in Waiting /\ request[r] # Idle
    BY <1>1, <1>9 DEF Resolves, Types, Idle
  <2>2. \A q \in Request : request'[q] # Idle =>
          request[q] # Idle /\ request'[q].text = request[q].text
    BY <1>1, <1>9, <2>1 DEF Resolves, Types, Waiting
  <2> QED BY <1>9, <2>2, RequestsMove DEF Resolves, Offers
<1>10. ASSUME NEW r \in Request, NEW catalog \in AnyCatalog,
              Completes(r, catalog) \/ Applies(r, catalog)
       PROVE  Rest'
  BY <1>1, <1>10, AnalysesKeep DEF Completes, Applies, Idle
<1>11. CASE Edit
  BY <1>11, EditKeeps
<1>12. CASE ChangesLanguage
  BY <1>12, ForgetsKeeps DEF ChangesLanguage
<1>13. CASE Close
  BY <1>13, ForgetsKeeps DEF Close
<1>14. CASE Open
  BY <1>14, OpenKeeps
<1> QED
  BY <1>3, <1>4, <1>5, <1>6, <1>7, <1>8, <1>9, <1>10, <1>11, <1>12, <1>13,
     <1>14 DEF Next

(* The invariant holds throughout, with requests, edits, closings and       *)
(* openings of the document in any order.                                  *)
THEOREM Inductive == Spec => []IInv
  BY InitHolds, IInvNext, PTL DEF Spec

-----------------------------------------------------------------------------
(* Every variable keeps its type; a cache never holds two models.          *)
THEOREM TypeCorrect == Spec => []TypeOK
<1>1. IInv => TypeOK
  BY DEF IInv, Types, Single, TypeOK
<1> QED BY <1>1, Inductive, PTL

(* Navigation never answers from a model of another text, whatever the     *)
(* waiting requests, closing and opening again do.                         *)
THEOREM NavigationSeesItsText == Spec => []NavigationIsCurrent
<1>1. IInv => NavigationIsCurrent
  BY DEF IInv, NavigationSound, Sound, IsOf, NavigationIsCurrent, IsCurrent, TextOf
<1> QED BY <1>1, Inductive, PTL

(* The caches of completion and of code actions are wrong only when the     *)
(* document was edited or closed under a request: once it is edited, and   *)
(* closed, with none waiting, they hold no model of another text under the *)
(* version the document has.                                               *)
THEOREM StaleModelsNeedAnOverlap ==
  Spec => [](overlapped = {} => CompletionIsCurrent /\ IsCurrent("codeAction"))
<1>1. IInv => (overlapped = {} => CompletionIsCurrent /\ IsCurrent("codeAction"))
  <2>1. "completion" \in Cache /\ "codeAction" \in Cache
    BY DEF Cache
  <2> QED BY <2>1
          DEF IInv, InStep, Current, IsOf, CompletionIsCurrent, IsCurrent, TextOf
<1> QED BY <1>1, Inductive, PTL

LEMMA UsesMatch ==
  ASSUME IInv, NEW r \in Request, NEW catalog \in AnyCatalog, overlapped = {},
         IInv', Uses(r, catalog)
  PROVE  \E e \in cached'[CacheOf(request[r].kind)] :
           e.model = ModelOf(request[r].text, request[r].cursor, catalog)
<1> DEFINE c == CacheOf(request[r].kind)
           v == version[DocumentOf(r)]
           m == ModelOf(request[r].text, request[r].cursor, catalog)
           new == [key |-> KeyOf(v, m), model |-> m]
<1>1. /\ Analyses(r, catalog) /\ request[r] # Idle
      /\ UNCHANGED <<version, current, overlapped>>
  BY DEF Uses, Applies, Completes, Idle
<1>2. c \in Cache /\ cached'[c] = After(cached[c], v, m)
  BY <1>1, AnalysesOne DEF IInv
<1>3. PICK e \in cached'[c] : e.key = KeyOf(v, m)
  <2>1. CASE \E e \in cached[c] : e.key = KeyOf(v, m)
    BY <1>2, <2>1 DEF After
  <2>2. CASE ~\E e \in cached[c] : e.key = KeyOf(v, m)
    <3>1. cached'[c] = {new}
      BY <1>2, <2>2 DEF After
    <3>2. new.key = KeyOf(v, m)
      OBVIOUS
    <3> QED BY <3>1, <3>2
  <2> QED BY <2>1, <2>2
<1>4. request[r].text = TextOf(current) /\ v = version[current]
  BY <1>1 DEF IInv, InText, InDocument
<1>5. e.key.version = version'[current']
  BY <1>1, <1>3, <1>4 DEF KeyOf
<1>6. IsOf(e, current) /\ e.key = KeyOf(e.key.version, e.model)
  BY <1>1, <1>2, <1>3, <1>5 DEF IInv, InStep, Current, Keyed
<1>7. e.model.text = m.text /\ e.model.cursor = m.cursor
      /\ e.model.catalog = m.catalog
  BY <1>1, <1>3, <1>4, <1>5, <1>6 DEF IsOf, KeyOf, ModelOf, TextOf
<1>8. e.model \in Model
  BY <1>2, <1>3 DEF IInv, Types, Entry
<1>9. e.model = m
  BY <1>7, <1>8 DEF Model, ModelOf
<1> QED BY <1>3, <1>9

(* Every request gets the model of its own text, cursor and catalog, also   *)
(* one another request left in the cache, and again as soon as the         *)
(* document was edited, and closed, with no request waiting.               *)
THEOREM RequestsGetTheirModel == Spec => AnswersMatch
<1>1. IInv /\ IInv' =>
        \A r \in Request, catalog \in AnyCatalog :
          overlapped = {} /\ Uses(r, catalog) =>
            \E e \in cached'[CacheOf(request[r].kind)] :
              e.model = ModelOf(request[r].text, request[r].cursor, catalog)
  BY UsesMatch
<1> QED BY <1>1, Inductive, PTL DEF AnswersMatch

LEMMA AcceptsMatch ==
  ASSUME IInv, NEW r \in Request, NEW o \in Offers, overlapped = {},
         Accepts(r, o), request'[r].text.document = o.text.document
  PROVE  request'[r].text = o.text /\ request'[r].cursor = o.cursor
<1>1. IsIdle(r) /\ SavesIfSame(r, o)
  BY DEF Accepts, Saves, SavesReopened, SavesIfSame
<1>2. ~IsIdle(r)'
  BY DEF Accepts
<1>3. Begins(r, "save", o.cursor) /\ o.version = version[current]
  BY <1>1, <1>2 DEF SavesIfSame, IsIdle
<1>4. request'[r].text = TextOf(current) /\ request'[r].cursor = o.cursor
  BY <1>3 DEF Begins, IInv, Types
<1>5. Has(o)
  BY <1>3, <1>4 DEF Has, TextOf
<1> QED BY <1>4, <1>5 DEF IInv, InText

(* The version check of save() admits only JOINs of the text their code    *)
(* action was computed from, also when the document had to be opened for   *)
(* it, unless the document was closed in between.                          *)
THEOREM SavesTakeTheOfferedText == Spec => SavesWhatWasOffered
<1>1. IInv =>
        \A r \in Request, o \in offer \cup reopening :
          overlapped = {} /\ Accepts(r, o)
            /\ request'[r].text.document = o.text.document =>
              request'[r].text = o.text /\ request'[r].cursor = o.cursor
  BY AcceptsMatch DEF Offers
<1> QED BY <1>1, Inductive, PTL DEF SavesWhatWasOffered
=============================================================================
