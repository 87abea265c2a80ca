# Query Puppy for T-SQL: a TLA+ model

TLA+ modules, TLC configurations and TLAPS proofs about the VS Code extension in
`src/` (its implementation is `src/src/`). A definition is translated from the
source lines that `PROJECT.json` names in `map`; `hazards` lists what in this
code is hard to test and which property covers it; `findings` lists where the
code does something else than a comment or document says.

## 1. The system

The extension offers completion, signature help, navigation and relationship
knowledge for T-SQL editors. It runs in the extension host of an editor window:
one JavaScript thread, so code between two awaits is atomic, and what interleaves
is the order in which queries, file operations, timers and editor events come
back. Windows are separate processes that share one storage directory.

| component | state it keeps | operations | hard behaviour |
| --- | --- | --- | --- |
| schema cache (`metadata/MetadataCache.ts`) | per connection and database an entry: snapshot, state, the promises of its initialization and its refresh, flags and times | `ensureLoaded`, `refresh`, `clearDatabase`, `invalidate…`, `clear`, background refresh | joined promises, a clear beside running loads, orphaned entries, failures of query and save, restarts |
| lifecycle status (`metadata/MetadataLifecycleStatus.ts`) | the operation shown for each database | `handle` of cache events | events of orphaned loads, a load that fails |
| snapshot store (`metadata/PersistentMetadataStore.ts`) | one file per database, temporary files | `load`, `save`, `delete` | several windows, every file operation failing, windows ending, power loss |
| learned evidence (`relationships/LearnedRelationshipEvidence.ts`, `…Store.ts`) | per workspace folder: counts, seen occurrences, a queue, a file | `read`, `update`, `clear` | counting each JOIN once over edits, removals, failures, reloads; two bounds with eviction |
| observation of saved documents (`relationships/WorkspaceLearnedRelationshipEvidence.ts`) | overlays per folder | `observeSavedDocument`, `applyCandidates`, clear command | editor, connection and text read around awaits |
| project relationships (`relationships/WorkspaceProjectRelationships.ts`, `ProjectRelationshipConfig.ts`, code actions) | the cached configuration, overlays, the file | `apply`, `save`, invalidation by a file watcher | stale overlays, a read-modify-write of a file the user edits |
| connection sharing (`mssql/*`), completion scope | the shared request, the API, lists of databases | `active`, `executeMetadataQueries`, `listDatabases`, scope resolution | reads torn by an editor switch, joined requests |
| automatic triggers (`parser/AutomaticCompletionTrigger.ts`, `completion/AutomaticSignatureHelp.ts`, `extension.ts`) | pending triggers with generations, timers, a running flag | edits, selection changes, timers | editor state checked, awaited over, used |
| semantic models of documents (`parser/DocumentSemanticCache.ts`, used by completion, navigation and code actions) | one model per cache and document, keyed by version, cursor and catalog | `get`, `closeDocument` | requests that take the text before they wait and read the version after |
| expansion of `SELECT *`, other commands | the current expansion and its generation | `update`, `expand` | an expansion applied to another document |
| formatting (`formatting/*`) | none | cut a document into units, guard what the external formatter returns | every character in one region, nothing lost, what is not understood is declined |
| document analysis (`parser/*`) | none (the outline keeps the declarations of one version) | batches, statements, query scopes, row sources, variables, stars | several readings of one text that share no code |
| relationships and types (`relationships/*`, `metadata/SqlTypeDescriptor.ts`, `completion/CandidateFactory.ts`) | none | policies over declared, configured, learned and guessed relationships; the JOIN that is read back; type precedence | trust and duplicates, direction, results that depend on an order |

How they interact: a completion resolves its scope (connection sharing), asks the
schema cache for one index per database, overlays project relationships and
learned candidates on the indexes, and analyses the document. The cache calls the
loader (catalog queries over the shared connection) and the snapshot store, and
emits events to the status. Saving a document observes its JOINs with the indexes
the cache already has and updates the evidence store. Commands refresh and clear
the cache, clear the evidence and open the relationship file.

What makes the parts correct:

* *cache*: one load at a time per entry; a usable snapshot is never lost, hidden
  by a failure or replaced by an older one; the disk is read once; what comes from
  disk is refreshed; calls are answered; the state shown is true; a clear means
  a cold load.
* *store*: the path holds a whole snapshot or nothing, after every failure.
* *evidence*: each added JOIN counts once; memory is what is on disk; a file the
  program cannot read is left alone; requests drain.
* *project relationships*: an overlay in use comes from the configuration in use; a
  save keeps what the file held.
* *connection sharing*: an answer is about the editor and the database that were
  active, unless the user switched meanwhile.
* *formatting*: units share the document out, and formatting one leaves the others.
* *document analysis*: what is listed, resolved and reported about a name agrees.
* *relationships*: one offer per relationship, from the most trusted source, and an
  accepted predicate says what it was offered from.
* *semantic models*: a request gets the model of its own text, cursor and catalog, and
  a save the text its code action was offered for.
* *triggers and expansion*: nothing is opened or edited at a place other than the
  one it was computed for.

## 2. Modules and the code

### Schema cache

`MetadataCache` models `MetadataCache.ts`. An action is the code between two
awaits.

| TLA+ | code |
| --- | --- |
| `entries`, `cell` | the `Map` and the `CacheEntry` objects. They are two variables because an entry that left the map lives on in the promises that captured it |
| `task` | the promises of initializations and refreshes; `pc` is the await they are at, `resolved`/`rejected` is a settled promise whose reactions are still queued |
| `caller` | async calls of `ensureLoaded`, `refresh` and `clearDatabase` that are waiting |
| `file`, `catalog` | the persisted snapshot, and the server's catalog; a schema is the version of the catalog it was read at |
| `UseSnapshot`, `JoinInitialization`, `StartInitialization`, `RefreshNow`, `ClearDatabase`, `Invalidate…`, `Clear` | the calls up to their first await |
| `RefreshAfterInitialization`, `ClearMemory`, `ClearFile…` | the calls when they resume |
| `ReadSnapshot`, `Hydrate`, `ColdLoad`, `QueryReturns`, `QueryFails`, `SnapshotPersisted`, `SaveFails`, `Completed`, `React` | the awaits of `initialize`, `coldLoad`, `startRefresh`, `persist` and the `finally` blocks |
| `Elapse`, `SchemaChanges`, `Restart` | the clock passing `nextRefreshEligibleAt`, the server, a window reload |

The end of `MetadataCache` is the mapping to `CoalescedCatalog`, the abstract
specification of the lifecycle in `docs/ARCHITECTURE.md` (226 to 262): at most one
load per identity, a refresh is stored before it is shown, a failure leaves both
alone. `MetadataLifecycleStatus` adds the status bar item, driven by the events the
steps of the cache emit. `MetadataCacheHistory` adds two history variables for
properties about the past.

### Snapshot files

`SnapshotStore` models the file operations of `FileMetadataSnapshotStore`, which
`MetadataCache` takes for single steps. `operation` holds the calls of all windows
with the await they are at; `published` is the path, `temporary` and `flushed` the
temporary files, and `recoverable` what the path may hold after the machine stops:
a rename of a file that was not flushed may leave part of its text. Every
operation may fail, a window may end and the machine may stop at any step.
`SnapshotRegister` is what the cache relies on: an atomically replaced register in
which an unusable file counts as missing.

### Learned evidence

`LearnedEvidence` has the operators of `LearnedRelationshipEvidence.ts`: what the
save of one document removes, counts and remembers, and both bounds. A
relationship is a number (its place in the canonical order), a document text is the
sequence of the relationships its JOINs stand for. `LearnedEvidenceStore` has the
queue of one folder, the remembered state and the file; the write of a temporary
file and its rename are one step that happens or fails, because `SnapshotStore`
covers that protocol. `LearnedLedger` states the counting rule of
`docs/IMPLEMENTATION_PLAN.md` without queue, memory, orders or failures.

### Semantic models

`DocumentSemantics` models `DocumentSemanticCache` and the code that asks it, for
one document that is edited, changes its language, is closed and is opened again, by
the user or by a save whose document is closed. Text and cursor stand for
themselves: a model is the record of the text, cursor and catalog it was made from,
so a stale one can be told from a right one.

| TLA+ | code |
| --- | --- |
| `cached` | the caches of navigation, completion and code actions; `After` is what `get` leaves in one |
| `version`, `current` | the `TextDocument` objects: a request keeps the one it got, also after the document was closed and opened as a new object |
| `request` | completions, scope diagnoses, code actions and saves of a JOIN at their awaits |
| `offer` | the code action the editor shows, with the version `save` will compare |
| `Navigate`; `Asks`, `Completes`; `Resolves`, `Applies` | the navigation providers; completion and diagnosis; the two awaits of a relationship |
| `Saves`; `SaveReopens`, `reopening`, `SavesReopened`, `ReopenFails` | the command when its document is open; `openTextDocument` when it is not, and the code after that await |
| `overlapped` | a history variable: what requests in progress were disturbed by. An edit under a request counts until the next edit with none waiting, a close until the next close with none waiting |

A model that was left under the wrong version is only found while the document has
that version, and an offer is only accepted at its version: that is why an edit
with no request waiting ends what an earlier overlap could do, and the properties
hold again from there. The edit under a request is thus within the properties: what
it leaves must be gone after the next one.

### Automatic triggers

`EditorTriggers` models the handlers of `extension.ts` that open suggestions and
signature hints on their own, with the two pending-trigger classes. The editor's
selection event is a step of its own that may come after the timer; several panes
may show one document.

| TLA+ | code |
| --- | --- |
| `pending`, `signature` | the state of `PendingCompletionTriggerState` and `PendingSignatureTriggerState` |
| `timer`, `fallback` | the two timers, with the generation their callback captured |
| `run`, `checks` | the calls of `fulfillAutomaticSuggestTrigger` (with `automaticSuggestRunning`) and of `fulfillAutomaticTrigger` at their awaits |
| `Edit`, `Selects`, `SwitchesEditor`, `Closes`, `TimerFires`, `FallbackFires` | the event handlers and timer callbacks |
| `ProviderReturns`, `Opens`, `Opened`, `CheckReturns` | the code after each await |

`TriggerLifecycle` is the abstract specification: the lifecycle
`docs/COMPLETION_PIPELINE.md` (510 to 517) describes. What a command like
`triggerSuggest` does in the editor's own process after it was sent is outside.

### Requests in a workspace

`WorkspaceRequests` composes two components and the requests that go through both.
The switches of editors, the edits of the file and the watcher's reports come
between any two awaits of any request.

| TLA+ | code |
| --- | --- |
| `EditorConnection`: `focus`, `database` | the active editor and what the mssql extension would answer (external) |
| `sharing`, `Acquired`, `NotAcquired` | the acquisition of the connection sharing API, kept for the session once it succeeded |
| `lookup`, `activeRequest`; `Joins`, `Starts` | the promises of `resolveActive` and the one `active()` lets callers join |
| `GetActiveEditorConnectionId`, `GetActiveDatabase`, `GetDatabaseForConnectionId`, `LookupFails` | its awaits. `calm` is a history flag: no switch since the lookup, or the request, began |
| `ProjectRelationships`: `file`, `pending` | `.query-puppy/relationships.json`, and a change the watcher has not reported yet |
| `state`, `overlays` | the state object of the folder with its overlays; a request keeps the object it began with |
| `entry`, `load`; `Apply`, `ReadConfiguration`, `Applied` | the cached promise of the configuration; `apply` before its await, the read, `apply` after it |
| `Notify`, `Invalidated`, `RemoveFolder`, `AddFolder` | the watcher and the workspace-folder listener |
| `saving`; `StartSave`, `ReadForSave`, `Truncate`, `WriteFile`, `SaveRejects`, `SaveInvalidates`, `OpenMissing` | `save` and the open command. `writeFile` of the editor truncates and then fills (external), and a write that is rejected may leave the file torn. `exclusive` is a history flag: nobody wrote since this save read |
| `work`; `Begin`, `GiveUp`, `Connected`, `Finish`, `Choose`, `Leave`, `Saved`, `Open` | completion, `observeSavedDocument`, the action that saves a JOIN, the open command: what they wait for |

A definition of the file is a name with a database; a text is the definitions it
holds and whether something else in it is faulty. State objects and promises that
nobody holds are collected, so a few identities are enough. `WorkspaceNames` has
the two constants both components speak of.

### Texts, names, types and relationships

These modules are operators: the functions of the code over short texts, lists and
small catalogs. A loop of a scanner is a number of rounds (`Rounds`) that is enough for
the text, for a loop that is done stands still; only `QueryScopes` and `LocalVariables`
use recursive operators. A text is a sequence of symbols: the characters the lexical
rules tell apart, and pieces of words.

| module | code | what it has |
| --- | --- | --- |
| `SqlText` | character classes and spans of both scanners | what a text is |
| `LosslessScanner` | `LosslessSqlScanner.ts`, `OutputPreservationGuard.ts` | tokens with trivia, failures, and the guard over the formatter's answer |
| `FormattingPreparation` | `FormattingPreparation.ts` | batches, separators, regions, reasons to decline, the unit a selection asks for |
| `StatementBoundary` | `SqlTokenizer.ts`, `BatchBoundary.ts`, `StatementBoundary.ts` | the tokenizer that never fails, batches, the statements of a document and the one at a cursor |
| `FormattedStatements` | | what the two readings promise about one text |
| `QueryScopes` | `queryScopeModel`, `QueryScopeResolver.ts`, alias errors | queries and subqueries with the row sources each sees |
| `LocalVariables` | `LocalVariableSymbols.ts`, QP1001 | variables of a batch, and those only an earlier batch declares |
| `ScopedNames` | `resolveSelectWildcard` | what the lookups of a name promise each other, and what a star is expanded with |
| `SqlTypes` | `SqlTypeDescriptor.ts`, `reconcileExpressionRanges` | closeness and reconciling of types, and the type of `CASE` and `COALESCE`, which is unknown as soon as that of one branch is |
| `Relationships` | `RelationshipModels.ts`, `DatabaseIndex.ts` | identity, trust, merging, the lookups of the index |
| `ConfiguredRelationships` | `ProjectRelationshipConfig.ts`, the candidate policies | definitions, learned counts and names against a catalog |
| `JoinRelationships` | `ResolvedJoinRelationship.ts`, `CandidateFactory.ts` | the relationship a JOIN says, the definition it is saved as, the predicates offered |
| `RelationshipOffers` | | what offers and saves promise each other |

`MCLanguage` grows every input one piece at a time (a character, word, type,
declaration, clause, definition or part of a predicate); its step `Run` is the
program working on the finished input, and every property is about that step.

## 3. Runs

| run | what it checks | bounds |
| --- | --- | --- |
| `cache_entries` | `TypeOK`, `OneLoadAtATime`, `StatusIsTrue`, `AttemptsAreMarked`, `ValueGoesForward` with every operation, beside the status item | 1 key, 2 entry objects, 3 promises, 2 callers, 1 schema change (to an empty database) |
| `cache_live` | `WorkSettles`, `StatusComesDown` under fairness with every operation: joined and shared initializations, clears beside them, orphaned loads | 1 key, 2 entry objects, 2 callers, a promise for each entry and kind, no schema change |
| `history_kept` | the status item (`StatusMatchesWork`), `OneLoadPerIdentity`, `FileGoesForward`, `RefreshIsPaced`, `CoalescedSpec`, when nobody clears or forgets | 1 entry, 3 promises, 2 callers, 2 schema changes |
| `history_clear` | finding: `ClearMeansColdLoad` is violated | as `cache_entries`, without forgetting |
| `store` | `TypeOK`, `PublishedIsWhole`, `OperationsEnd`, `RegisterSpec` | 2 windows, 2 calls, 2 temporary names, 2 snapshots |
| `evidence` | `TypeOK`, `MemoryIsFile`, `SeenIsCounted`, `InvalidIsKept`, `QueueDrains`, `LedgerSpec` | 2 documents, 2 relationships, 4 texts of up to two JOINs (`MaxJoins`), at most 3 remembered occurrences, 3 requests, 2 of them waiting |
| `semantics` | `TypeOK`, `NavigationIsCurrent`, `AnswersMatch`, `SavesWhatWasOffered` | 2 requests, 2 cursors, 1 catalog or none, the document opened twice, 3 texts in all (up to 3 versions of one opening) |
| `semantics_stale` | finding: `CompletionIsCurrent` is violated | the same |
| `triggers` | `TypeOK`, `OpensWhereTyped`, `LifecycleSpec`, `TriggerWorkSettles` | 2 panes of one document and a document nobody shows, 2 offsets, 3 versions, 2 generations of triggers |
| `triggers_lost` | finding: `TriggersEnd` is violated | the same |
| `workspace` | `TypeOK`, `ServedIsFile`, `SavesKeep`, `SwitchesAreObserved` | an observation and a save in one folder, 2 editors of which one has no connection, 1 connection, 2 databases, 2 lookups, 2 definitions, 4 state objects, 3 promises, 1 switch, 1 change from outside |
| `language` | `FormattingIsLocal`, `StatementsAgree`, `NamesAgree`, `TypesAgree`, `OffersAgree`, `JoinsAreUnderstood` | 3 characters of 20, 4 words of 20 (one of them a whole query), 3 types of 15 or `NULL`, 4 declarations of 12, 6 clauses of 9 (5 for stars), 2 definitions, 3 parts of a predicate |

Why the bounds are enough. Keys of the cache do not share state: one is enough for
everything but `invalidateConnection` and `clear`, which then coincide with
`invalidate`. Two entry objects let a live entry and an orphan coexist, two callers
join each other's work or clear beside it, and three promises let an
initialization, the session refresh it schedules and a load of a new entry overlap.
Without clearing or forgetting no second entry object can come to exist. Liveness
needs neither a schema change nor the names symmetry would merge: `MCFairSpec` of
`MCMetadataCache` names a promise after its entry and kind (an entry has one of each
at most, which `OneLoadAtATime` says), and takes the first entry nobody holds and the
first idle caller. Every behaviour is one of these with other names, and a step that
fairness owes is owed under its canonical name too. Two
calls and two windows suffice for two saves in each other's way; what more calls
could do is covered by the proofs. Three remembered occurrences are fewer than the
four two documents can have, so eviction happens; both relationships have room,
because with evidence evicted a marker may outlive its record (a design choice the
hazard list names) and neither `SeenIsCounted` nor `LedgerSpec` would be expected.

Two requests share or overwrite each other's model, two cursors and an absent
catalog tell keys apart that differ in one part, and two openings let version 1 come
back with another text; three versions of one opening are the text a request took,
the edit under it, and the edit that ends what it left. Two generations let an edit come
while an earlier trigger waits or runs; two panes of one document are what
comparing uri, version and offset cannot tell apart; the third version is the edit
that cancels the newer trigger.

In `workspace` the two requests join one lookup, hold one promise of the
configuration, and one keeps the state object the other's save replaces; an editor
without a connection and a second database are what a switch can change. Two
definitions are one to lose and one to add. One change from outside comes at every
point of a save, of a read and of a request that holds overlays; more of them, and
more requests and switches, are covered by the proofs.

In `language` three symbols after a `SELECT` contain every pair of lexical rules that
meet (a quote in a comment, `GO` beside what precedes and follows it, a string beside
a bracket), four words every boundary with a context before and after it, and two
units divided by `;` or `GO` with something behind them (`query ; query`,
`query go query`, a common table expression and a query); three types
every triple that nesting can regroup, and six clauses a subquery with a source
before, in and behind it. The catalogs of `MCRelationships` have two tables with keys
of one and two columns, and no, one, several or equal declared keys.

Symmetry reduces `cache_entries`, `history_kept`, `history_clear` and the two runs
about semantic models, which check no liveness (`CoalescedSpec` maps to the value, file
and load of a key, which no permutation of entries, promises or callers changes); the
runs with liveness use none.
Only `language` switches the deadlock check off: after `Run` nothing more is written.

Every property has a mutant in the module it is about, an operator whose comment
says what bug it is, and TLC finds the property violated with it.

### Fairness

`MetadataCache!Fairness` and the fairness of the stores say that catalog queries
and file operations come back, with a result or a failure, and that promise
reactions run; `MCFairSpec` states the same for the run about liveness. The event loop gives the last; the first is the contract of the
drivers, since the code sets no timeouts (a hazard says so). Nothing is assumed of
users, of the server's schema or of the clock: no call, clear or interval is owed.
`EditorTriggers!Fairness` says that timers fire, that the provider and the editor's
commands return, and that the editor reports the cursor an edit moved; users owe no
edit, cursor move or switch. The provider's return is the same assumption about
catalog queries, one level up.

### Findings

* `history_clear`: *Clear Schema Cache* promises that "the next schema-backed
  completion will perform a cold load" (`RefreshMetadataCommand.ts:52`).
  `clearDatabase` waits for the promises the entry has when it is called. If it waits
  for an initialization that ends as a persistent hit, the session refresh started
  by that hit is not waited for; it saves the file after the clear deleted it, and
  the next use is a persistent hit. `ClearMeansColdLoad` is about clears that nobody
  used the database beside (`cleared`), so that a use which reads the file before it is
  deleted does not count: the trace is that refresh. It can also query and save beside
  the load of the entry that replaces the cleared one, although loads are to be coalesced
  "independently for each cache identity" (`docs/ARCHITECTURE.md:917`), which is why
  `OneLoadPerIdentity` is checked where nobody clears.
* `semantics_stale`: a test says that edits invalidate the semantic cache
  (`tests/document-semantic-cache.test.ts:18`). Completion takes the text, waits for
  its catalog, and passes the version the document has afterwards
  (`SqlCompletionProvider.ts:182`): a model of the old text is remembered under the
  new version. `StaleModelsNeedAnOverlap` proves that it takes an edit or a closing
  under a waiting request.
* `triggers_lost`: a trigger "waits for the active editor selection" and then
  "invokes native Suggest once" (`docs/COMPLETION_PIPELINE.md:511`). If its timer and
  selection event come while an earlier run waits for its provider, nothing fulfils
  it when that run ends, although the cursor is still where it was expected.

### Differences the properties name

Places where the two readings of one thing differ, or a text is refused that need not
be. Each is modelled as it is, and a property it would violate
names it as its exception, so that the rest is checked.

* A blank line directly before `GO`, or a number on the line after it, is an
  "unsupported GO separator form", and the whole document is left unformatted
  (`FormattingPreparation.ts:264`; `docs/ARCHITECTURE.md:527`).
* `StatementBoundary.ts:148` says what keeps a `WITH` statement together; an `UPDATE`,
  `INSERT` or `DELETE` behind the common table expressions still starts another one.
* The guard accepts white space that puts `go`, `:` or `!!` at the start of a line, or
  joins `$` and `(`: what a client then reads is another script
  (`docs/ARCHITECTURE.md:548`).
* The two scanners read `GO` with a count or comment and nested comments differently, a
  line comment ends at a carriage return only in the formatting scanner, and the
  comparisons of `StatementBoundary.ts` and the analyzer look at text only, so a
  delimited `[;]`, `[(]` or `[select]` is taken for the sign or keyword.
* `isStandaloneGo` asks for the line of a word and not for the word
  (`SqlTokenizer.ts:37`): behind a block comment whose last line reads `go --`, any word
  is a batch separator. If it is `union`, `StatementBoundary.ts:30` takes the `select`
  after it for a part of a set expression, so that no statement starts there for a
  cursor, although the document has one.
* `queryScopeModel` and `QueryScopeResolver` differ on sources of one name, on names
  behind `APPLY` (`DocumentSemanticAnalyzer.ts:1051`, `QueryScopeResolver.ts:82`), on
  the alias of a derived table that equals a name in a `FROM`, on derived tables in
  derived tables, and on a reserved word as the alias of a derived table.
* `resolveSelectWildcard` looks at sources up to the end of the statement
  (`DocumentSemanticAnalyzer.ts:1452`): the star of `SELECT * FROM a UNION SELECT x FROM b`
  is expanded with the columns of b too (`docs/COMPLETION_PIPELINE.md:607`).
* A declared key that is disabled suppresses an equal configured or learned
  relationship. The words that end a JOIN are compared without their delimiters, and
  `quoteIdentifier` (`SqlTypeFormatter.ts:63`) leaves reserved words bare, so a column
  of that name is offered in a predicate that is not read back.
* A lookup disturbed by a switch may pair the connection of one editor with the
  database of another (`docs/ARCHITECTURE.md:174`), and an observation reads the text
  after its awaits (`docs/ARCHITECTURE.md:679`): `SwitchesAreObserved` is about the
  others.
* A read of the relationship file that failed is remembered until the next change, so
  `ServedIsFile` allows it.

## 4. Proofs

Everything here holds for every value of the constants.

`MetadataCacheProofs` (for any keys, entries, promises, callers and schema changes):
`TypeCorrect`, `LoadsAreCoalesced`, `SessionsAreAttempted`, `StatesAreTrue`,
`SnapshotsGoForward`. Types need the facts that a
promise belongs to an entry of a key and that a save has a schema (`WellFormed`).
`TypeOK` also says that no slot holds, and no call awaits, a promise that is gone
(`PromisesLive`): a reaction empties the slot and settles the waiting calls in the step
that ends its promise, and every slot and call begins with promises in flight.
Single flight is inductive only together with the shape of slots: a promise in a
slot is in flight or waits for its reactions, and belongs to the entry whose slot
it is in. The other properties follow from that with one fact each about what a
promise at a given await implies of its entry; `StatesAreTrue` is inductive given
these, because one promise of an entry is in flight at a time (`WorksAlone`).

Its second part is about the cache observed over time: `LoadsArePerIdentity`,
`FilesGoForward`, `ImplementsCatalog` and `ItemShowsTheWork` for a cache nobody clears or forgets
(`NobodyClears`, an assumption on the constant `Ops`; without it two entry objects of
one key may load at once), and `RefreshesArePaced` for any users. The invariant of the
first four says that the promises of a key belong to the entry in its map (`Home`),
which makes one load per entry one load per key, and what a promise has in hand at
each await (`InHand`): nothing before the answer, nothing older than the file when it
is to be written. Every step does little to one promise (`Mild`); from that each step
is a step of `CoalescedCatalog` or a stutter (`StepRefines`). For the status item a
step that ends a load begins none (`GoesOn`), so that the events of one step cannot
be handled in two orders. Refreshes are paced because an entry that was attempted
since its last interval is marked and not due (`Paced`).

`SnapshotStoreProofs`: `TypeCorrect`, `NobodyReadsHalfASnapshot`,
`SavesRenameTheirOwn`, `ImplementsRegister`. The invariant says that a temporary
name has one save (`Exclusive`), that a save past its flush finds its own snapshot
in a flushed file (`Sound`), and that the path only gets what was flushed. The last
theorem is the refinement: every file operation is a step of the register or
stutters.

`LearnedEvidenceProofs`: `TypeCorrect`, `MemoryMatchesFile`, `InvalidFilesAreKept`,
`SeenJoinsAreCounted`, `StoreImplementsLedger`. The second rests on the lemmas that
bounding evidence or occurrences twice is bounding them once, because the reader bounds
again what the writer has bounded; its invariant adds that only an update that loaded a
readable file is writing. Types contain that no two occurrences share an order (`TInv`)
and that none is there twice (`Keyed`): a save gives its new JOINs the numbers after the
largest one it knows, and the ordinals of JOINs of one relationship differ. The last two
assume room for every relationship and use that a save adds at least as much to a count
as it adds occurrences. The ledger sees occurrences without orders; its step is the
completion of a write, and what an update in between has computed is what the ledger
would make of the file (`LInv`).

`DocumentSemanticsProofs`: `TypeCorrect`, `NavigationSeesItsText`,
`StaleModelsNeedAnOverlap`, `RequestsGetTheirModel`, `SavesTakeTheOfferedText`. A cache
is `Sound` for a document if each model in it is filed under its own cursor and catalog
and belongs to that document and version; navigation's always is. For the others the
invariant says what holds since the last edit under no request (`InText`: what has the
document's version has its text), since the last close under none (`InDocument`:
requests and models belong to the open document) and after both (`InStep`: a model of
the current version is of its text). The version of an offer is one its document had
(`Dated`).

`EditorTriggersProofs`: `TypeCorrect`, `WidgetsOpenWhereTyped`,
`ImplementsLifecycle`. Triggers that wait belong to the newest generation
(`PendingIsNewest`), a run was taken in the pane its trigger was typed in
(`WorkIsHome`: another pane clears what waits), and what runs does not wait
(`TakenOnce`). The refinement then has one lemma for each kind of step: a new
generation, a trigger cleared, taken, or a run that goes on.

`WorkspaceRequestsProofs`: `TypeCorrect`, `ServesTheFile`, `SavesKeepDefinitions`,
`LookupsAreCurrent`, for any requests, editors, switches and changes. `ServedIsFile` is
inductive only with `HeldTogether`: a request that holds the current state object holds
the current promise too, because both are replaced in one step; with it a request
that was overtaken cannot put its overlay where it would be served. The file of an
unreported change is `pending`, whoever wrote it. For the lookups the invariant is
`WaitersAreServed`: who waits for a lookup no switch has disturbed waits for one that
has found nothing yet, what the active editor has, or answers with it
(`CalmIsCurrent`, `JoinedIsRunning`). A save that nobody overtook writes what it read
with one definition more (`SavesAreSound`).

`RelationshipProofs` is about functions and not behaviours: what a run of `language`
evaluates on small inputs is proved for all of them.
`RelationshipsAreOfferedOnce` and `SuggestionsComeLast` are `OfferedOnce` and
`SuggestedLast`, of which `OffersAgree` consists, for any catalog, file and evidence:
lists of anything (`IsWorkspace`). The second theorem also takes what a loaded catalog
satisfies (`IsCatalog`): finitely many keys, foreign keys between its own tables, and
no two objects whose names the program takes for one. That last fact is what SQL Server
gives under a collation without case; with one that tells case apart the identity of a
relationship, which ignores case, may belong to two. The argument: deduplication keeps a
list in which whatever says the same as an element has its rank or a lower one
(`Gathered`), one more relationship keeps it so (`AddIsGathered`), and the file, the
candidates and the index are made by steps of that kind. Each loop is a recursive
function; that one exists (`Iterated`), and what holds after every number of steps
(`Counting`), follow from the least number at which it would fail, since the library's
induction cannot be cited. `TypesAreMutuallyClose` and `ExpressionsHaveOneType` are
`TypesAgree` for any list of types: families convert in groups, so closeness carries
over; and the type of a list is a function of the set of its branches
(`ReconciledBranches`) in which some may be replaced by what they have together
(`NestedIsSame`), unless that is unknown, which the program never covers up with the
other branches (`NestedBranches`).

`TextProofs` is about texts of any length over any symbols. `ScanIsLossless`: the
tokens of a text that the formatting scanner accepts follow each other, and every symbol
is in one of them where the text has it. `RegionsShareTheText` is `RegionsTile`, one of
the two parts of `FormattingIsLocal`: units, declined parts and separators share out the
tokens that are not trivia, a unit scanned on its own has the tokens it has in the
document, and its range selects it alone. The argument for the first: a round of a
loop moves on or is the last (`MovesOn`), so that as many rounds as the text has symbols
end it (`LoopRan`); each lexical rule ends a token after its start (`LexemeFacts`), so
the scanner keeps its tokens `Tiled` and stops at the end of the text or at what it
refuses (`ScanFacts`). For the second, no rule looks at more than the symbols up to the
end of its token and, to see that it ends, the next one, and each takes the end of the
text for an end (`LexemeCut`); so a text cut at two ends of tokens is read as before
(`PartIsRead`). The two ends of a separator's line are in no token that means something:
a string or quoted name that goes over a line break there would be the token the line
starts with, or one the line must not have (`SeparatorIsClean`). So separators and batches
share out the text (`SeparatorOrBatch`, `OneSeparatorOrBatch`), and the regions of a batch
share out the batch, because a segment starts after the semicolon of the one before and
the first statement that takes the rest of its batch is the last (`BatchIsShared`).
`CursorsAreInTheirStatements` is `CursorAgrees`, one of the two parts of
`StatementsAgree`: the statement at a cursor is the one the document has there, and both
are in the batch of the cursor. Tokens are in the order of the text, so a cursor in a
statement comes after what is before the statement and before what follows it
(`CursorInAStatement`): the batch and the segment that are looked for around the cursor
are those the document was divided into (`BatchOfASegment`, `SegmentOfACursor`). The
starts of a segment are in order (`ImplicitStartsFacts`), so that the last one before the
cursor is the statement's. A segment whose first word is a starter starts there, unless
the word before continues a set expression, which a boundary does not
(`SegmentsDoNotContinue`). Here the proof found the exception that the bounds of
`language` do not reach: a separator that is another word than `GO` (section 3).

Assumptions are the ASSUMEs of the modules: distinct sentinels, identities that are
numbers, finitely many relationships, limits that are numbers, every database and
connection of an editor being one of the constants.

Only model-checked: liveness (`WorkSettles`, `OperationsEnd`, `QueueDrains`,
`StatusComesDown`, `TriggerWorkSettles`), which this prover does not reach; and of
`language` the properties about names and JOINs, of `FormattingIsLocal` the part
`FormatsInPlace`, which puts another text for a unit, and of `StatementsAgree` the part
`UnitsAreStatements`, which compares two scanners. `OffersAgree`, `TypesAgree`,
`FormattingIsLocal` and `StatementsAgree` are checked in a module that reaches recursive
operators, so that the theorems state their parts.

## 5. Not modelled

`PROJECT.json` has a note on what each component leaves out. The larger parts:

* *inference over expressions* (`SqlTypeInference.ts`) and the catalog of built-in
  functions: a table and a walk over expressions that splits at the first arithmetic
  operator at any depth; the types it combines, and how `CASE` and `COALESCE` do, are in
  `SqlTypes`;
* *the rest of the analyzer*: types and names of projected columns, the context of the
  cursor, proposals of aliases, calls, the outline of symbols;
* *completion scope*: which databases a request loads. Its loads are calls of
  `MetadataCache`, its lookup is `EditorConnection`'s; the list of databases is fetched
  once, and a failed request can only remove itself;
* *the expansion controller* and *signature help*: `EditorTriggers` lets native help
  have answered or not at every check, and `ScopedNames` has what a star becomes;
* *the metadata loader*: eight catalog queries and the conversion of their rows, which
  the cache takes for one query that returns or fails; the connect, query and
  disconnect bracket is the mssql extension's;
* *first-run notices, Microsoft's suggestion settings, registration of providers*:
  messages with buttons, no state of their own;
* texts of diagnostics and of the output channel, documentation and sorting of
  completion items, the shape validation of persisted files (a file is usable or
  not), and the cap of a count at 2^53 - 1, which no workspace reaches.

## 6. Plan

What section 2 lists is modelled. What is left, most important first; modules a
theorem is about use no recursive operator.

1. Proofs about statements: that a formatted unit is one statement of the analyses
   (`UnitsAreStatements`), and that it leaves the others (`FormatsInPlace`).
2. `SelectStarExpansion`: the expansion controller's generations with the editor it is
   applied to, beside the requests of `DocumentSemantics`.
3. Signature help as what `EditorTriggers` takes for a free choice.
4. `resolveJoinRelationshipCandidates` over a whole document, composed with
   `LearnedEvidence`, so that an observation is one behaviour from text to count.
5. Inference over expressions, with the splitting at operators as the property.
