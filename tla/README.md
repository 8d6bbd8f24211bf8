# Phaeton: a TLA+ verification

Phaeton is a no-code business platform. A Go server (`src/backend`) lets its users define
collections (apps) with fields and a process, keeps each collection as a table of the
PostgreSQL schema `data`, and serves records, history, automations and live events to a
React frontend (`src/frontend`), which is the larger half of the program: it builds the
apps, edits the records, shows them as tables, boards and calendars, and keeps a cache of
what the server said. This directory models both halves as state machines in TLA+,
model-checks them with TLC and proves the main results about both with TLAPS.

 * The **server**: the migration engine, which changes metadata, tables and an in-memory
   cache together while handlers run; the record handlers, which let several people edit the
   same rows; the event pipeline, which turns a change into live messages, notifications and
   automation tasks.
 * The **browser**: twenty screens, each with the state its components keep, the answers,
   timers and events that reach it in any order, and the other people who write meanwhile.

Contents: [Inventory](#inventory), [Modules](#modules), [Model and code](#model-and-code),
[Runs](#runs), [Bounds](#bounds), [Fairness](#fairness), [Proofs](#proofs),
[Where the code and its documentation disagree](#where-the-code-and-its-documentation-disagree),
[Seen while modelling](#seen-while-modelling),
[What is not modelled](#what-is-not-modelled), [Plan](#plan).

## Inventory

### The server

All state that survives is in PostgreSQL; everything else dies with the process.

| Component | State | Operations | Talks to | What makes it hard | What must hold |
|---|---|---|---|---|---|
| migration engine (`migration/engine.go`, `process.go`) | `_meta.collections`, `fields`, `processes`; tables of `data`; `_history.schema_migrations` | create / update / drop collection, add / alter / drop field, save process, rollback | store, cache, PostgreSQL | preflight reads outside the transaction; refresh after the commit; DDL derived from cached or earlier rows; rollback of anything in any order | metadata and tables change together, also when a rollback is raced; history has every change |
| DDL generation (`migration/ddl.go`, `compat.go`) | none | `GenerateCreateTable`, `...AddColumn`, `...AlterColumn`, `...DropColumn`, `...StatusColumn`, `CheckCompat` | engine | up and down lists must be inverse; computed fields have no column | columns have the type of their field, NOT NULL where it is required or numbers its rows |
| schema cache (`schema/cache.go`) | maps `byID`, `bySlug`, `processes` under one RWMutex | `Load`, `ReloadCollection`, `RemoveCollection`, `ReloadProcess`, lookups | store, every handler | reads happen before the lock; failures are logged only | the two indexes agree; when nothing is under way the cache is the metadata |
| record handlers (`handler/dynamic.go`) | rows of one `data` table, junction tables | create, update, delete, bulk create, bulk delete, batch update | PostgreSQL, history, event bus | update is several statements; row locks of a batch; client-held versions | no lost update; only allowed transitions; batches end |
| change history (`handler/history.go`) | `_history.record_changes` | `recordChange`, `computeDiff` | record handlers | written after the commit, one row per statement | every announced change is there; the diff is the change |
| event bus (`events/bus.go`) | list of subscribers under an RWMutex | `Publish`, `Subscribe` | record handlers to SSE broker, notifications, automation engine | synchronous: a slow subscriber is a slow request | every published event reaches every subscriber |
| SSE broker (`events/broker.go`) | set of client channels, each with 64 messages | `Subscribe`, `Broadcast`, `Close` | bus, SSE handler | send and close of one channel by different goroutines | no send to a closed channel; no stream left open |
| automation engine (`automation/*.go`) | automations in `_meta`; runs; base context | load, submit, execute, `update_field`, webhook, notification | bus, worker pool, PostgreSQL | runs beside the requests it was triggered by; writes records itself | one run per trigger; users' edits survive it |
| worker pool (`infra/workerpool`) | one semaphore | `Submit`, `Wait` | automation engine, shutdown | both use the same semaphore; Submit blocks its caller | never more than N tasks; Wait ends |
| scheduler, webhook sender | a ticker; attempts | tick, send with retries | automation engine | a late tick; a lost answer | a cron minute fires once |
| rate limiters (`middleware/ratelimit.go`, `apilimit.go`) | entries per address or user | check, fail, reset, collect | login, API | window, lockout and collector on different clocks; a full table | a lockout lasts as long as configured |
| server life cycle (`cmd/server/main.go`) | root context, listener | start, signal, drain, exit | all | order of closing | what was accepted is finished |
| authentication, roles, row-level filters | tokens, roles | middleware | every route | none: one request, no shared state | outside the models |
| filters, calendar queries, CSV | queries | read, import | screens | what the screen shows and what is asked for are computed apart | see the screens that use them |
| formulas, charts, reports, AI, files, seed, sync | single rows, queries | read, format, upsert | PostgreSQL | pure translation or independent rows | outside the models |

### The browser

A page keeps its state in React components and dies with the route; what the server said is
in one React Query cache per tab, under keys that several pages share; column visibility and
the designer's layout are in the browser's local storage.

| Screen (`src/frontend/src`) | State | What makes it hard | What must hold |
|---|---|---|---|
| records page (`pages/AppViewPage.tsx`, `FilterBuilder`, `SortPanel`) | tree of conditions, search box and debounce timer, two sort orders, page, saved views | a timer that outlives what it was set for; a tree that is sent in two formats; views that restore only part | the rows asked for are those the tree describes; the text searched is the one in the box; a view brings its question back |
| table (`common/DataTable.tsx`, `useGridNavigation`, `lib/clipboard.ts`) | columns hidden, pinned, moved; active cell, range; page | places on the screen as identities while rows and columns move | what is highlighted is copied; every page can be reached |
| selection and bulk operations | selected ids, "all" mode, versions of the page | answers that come after the selection has changed | "all" is the answer to that; others' writes survive |
| undo (`useUndoToast`) | undo and redo stacks, toasts | undo from the middle, timers, writes under way | taken newest first, the stacks stay chains of moves |
| cache of records (`useEntries`, `useSSE`) | lists, views, detail of one collection | optimistic patches, rollbacks, late answers, lost events | quiet cache = server; guesses end |
| cache of everything else (`lib/queryKeys.ts`, `hooks/*`) | one answer per key | a mutation has to name every key it outdates | nothing of a mutation's own family stays outdated |
| record page and form (`EntryPage`, `EntryForm`) | copy of the record, errors, autosave timer, requests | saves while others write, double submits, uploads, prefill | one record per form; edits reach the server; errors are real |
| form view (`views/FormView.tsx`) | index into a list that moves | the record at the index changes under the form | edits go to their record |
| board (`views/KanbanView.tsx`) | drag, ring, hidden and folded columns | cards refetched under a drag; only cards are targets | the drop does what the board showed |
| Gantt (`views/GanttView.tsx`) | drag, preview, version from another query | two queries of different age | saved = previewed, start before end |
| calendars (`views/CalendarView.tsx`, `CalendarWeekView`, `GlobalCalendarPage`, `dynamic_views.go`) | month, slide, layout of spans | week and month boundaries, overflow counts, slides | no event the server answers covered or lost where there is place; slides end |
| sheet field (`SpreadsheetInput.tsx`) | rows, sort, filter, cell, areas | screen rows are not stored rows | what is marked is what is copied and merged; rows can be added |
| CSV import (`CSVImportPreview`, `csv.go`) | file, map | the dialog stays mounted between files | a file's columns go where its map says |
| app builder (`AppBuilder.tsx`) | drafts, original fields, calls of a save | a save is many calls, each may fail | success means stored |
| form layout (`FormPreview.tsx`) | rows of a six-column grid, gestures | a slug that arrives puts the form of its question back | one field's gesture leaves the others alone |
| field settings (`FieldProperties.tsx`) | one field's options | settings that stay when the type changes; text areas that store what they clean | nothing blank is stored |
| automations page | form, schedule picker, assistant | two editors of one cron expression; a list with less than the form needs | the picker shows the expression; schedules can run |
| process page (`ProcessPage.tsx`, `ProcessFlowDiagram.tsx`) | drafts by position | removing a status renumbers the others | drafts well formed; transitions keep their ends |
| organization (`OrgTree`, `DepartmentPanel`, `UserFormDialog`, `department.go`) | departments, subsidiaries, people, lists, forms | parents changed by two people; lists of different age | no cycle unless two updates overlap or a check is cut short; nobody outside the chart |
| interface designer (`InterfaceDesignerPage.tsx`) | layout on the screen and in storage, drag | storage that refuses; drag that ends elsewhere | layout = stored once no widget is in the air |
| dashboards, settings, AI chat, sign-in, audit log, notifications bell | lists, drafts | none of their own | outside the models |

The behaviours that are hard to test, with the line where each one bites and the property
that covers it, are the `hazards` of `PROJECT.json`; components left out are there with the
reason.

### Interactions

```
 handler goroutines --- schema calls ---> migration engine --- tx: metadata + DDL + history ---> PostgreSQL
        |                                     |  after commit
        |                                     v
        |---- lookups ------------------> schema cache <-- reads -- store
        |
        |---- record calls --> rows / links (pool or tx) --> history --> event bus --+--> SSE broker
                                                                                     +--> notifications
                                                                                     +--> automation --> worker pool

 browser: router --> one screen --> hooks --> query cache <--- answers --- handlers
                        |                          ^
                        +---- mutations ---+       +--- invalidation --- event stream (SSE)
                                           +--> handlers
```

## Modules

| Module | Role |
|---|---|
| `DataTables` | PostgreSQL's `data` schema as a value `[tables, columns]`; DDL statements, when PostgreSQL accepts one (`CanExec`), what it does (`Exec`), and the generators of `ddl.go` with their inverse |
| `SchemaEngine` | EXTENDS `DataTables`: migration engine, store rows, migration history and cache, called by any number of handler goroutines |
| `SchemaCatalog` | the abstract specification: apps and tables that change together in one step, no cache, no concurrency |
| `Records` | the writing record handlers on one collection's table: optimistic locking, row locks, process, links, history, events |
| `EventPipeline` | what a published event sets in motion: bus, SSE broker and streams, comment notifications, automation engine, worker pool, webhook retries, run log, and the shutdown sequence |
| `Screen` | what the screens share: a bound on what a user does (`Act`) |
| `AppView`, `TableGrid`, `RowSelection`, `UndoToast` | the records page: its question, its table, its selection with bulk operations, undo |
| `EntriesCache`, `QueryCache` | the query cache: of one collection's records, and of everything else |
| `EntryEditor`, `FormPager`, `SheetInput`, `CsvImport` | the form of a record, the form view, the sheet field, the import dialog |
| `KanbanBoard`, `GanttBoard`, `CalendarBoard` | the boards |
| `Builder`, `FormLayout`, `FieldOptions`, `AutomationForm`, `ProcessEditor`, `InterfaceDesigner`, `OrgChart` | the pages that configure an app and the organization |
| `Browser` | EXTENDS the screens and puts them behind the router: one is open, and its properties are joined with those of the others that answer the same question |
| `MCSchemaEngine`, `MCRecords`, `MCEventPipeline`, `MCBrowser` | constants and symmetry for TLC |
| `SchemaEngineProofs` (with the lemmas about `DataTables`), `RecordsProofs`, `EventPipelineProofs` | theorems about the server and their proofs |
| `SequenceLemmas` | what the helpers of the screens do to sequences, filters and sorted sets |
| `RecordScreensProofs`, `EditorScreensProofs`, `ListScreensProofs` (the first EXTENDS `SequenceLemmas`, the second the first, the third `SequenceLemmas`) | the inductive invariants of seventeen screens: each holds at the start, every step of its screen keeps it, and it implies the screen's part of a property. The first has undo, form view, record page and both caches; the second process, field settings, automations, designer, builder; the third the records page, the table, selection, kanban, gantt, spreadsheet and CSV import |
| `BrowserProofs` (EXTENDS `Browser`, `EditorScreensProofs`, `ListScreensProofs`) | the theorems about `Browser` |

`EventPipeline` is one module because its parts wait for each other: a request inside
`Publish` waits in the pool's semaphore, `Wait` takes the same semaphore at shutdown, and
requests and tasks share the database connections. `Records` hands its events to the bus
(`published`) and does not look further; `EventPipeline` starts where an event is handed
over.

`SchemaEngine` implements `SchemaCatalog` (`ImplementsCatalog`, an INSTANCE with a
refinement mapping): an app is a collection with its column-backed field slugs, a table is
a table of `data` with its user columns (all but `_status`). The mapping is checked as a
temporal property, so that a metadata change without its DDL, or the reverse, is a step the
catalog does not have.

A screen's module has its own variables, Init, actions and properties and can be read
alone. `Browser` composes them as the router does: `route` is chosen at the start, the open
screen takes the steps of its module (`Shows`), and a closed one keeps one fixed state
(`Opens`). Screens share nothing in the browser but the query cache, which is a screen of
its own here; the one who writes on another screen is, for a screen, one of the other people
who write.

## Model and code

### SchemaEngine

`collections`, `fields` and `processes` are the `_meta` rows; `db` is the `data` schema;
`Autonumber` are the types whose columns number their rows and are NOT NULL whatever the field says;
`migrations` is `_history.schema_migrations` with the stored down DDL and the payload that
`restoreMeta` needs; `byID`, `bySlug` and `procCache` are the maps of `Cache`; `issued` are
the UUIDs `gen_random_uuid()` has produced, which never repeat. `req[c]` is the program
counter and the local variables of the call client `c` is in:

| Phase | Code |
|---|---|
| `Begin...` | everything before `pool.Begin`: lookups in the cache, `GetField`, `GetMigration`, compatibility, `wasEnabled`. What was read is kept in `req[c].args` and may be stale when it is used |
| `...Tx` | from `pool.Begin` to `tx.Commit`. One atomic step: DDL takes an ACCESS EXCLUSIVE lock on the table and the metadata statements lock rows and unique keys, so two such transactions on the same collection are serialised by PostgreSQL. The guards are its constraints (unique slug, primary and foreign keys, `CanExec`) and the engine's `RowsAffected` checks |
| `TxAborts` | a statement or the commit fails, in particular whenever a guard of the `...Tx` action is false; the deferred `tx.Rollback` undoes everything |
| `reload`, `reload_fields`, `install`, `remove`, `reload_process`, ... | after the commit: each query of the store is a step of its own, the installation under the cache lock is another |
| `load`, `load_fields`, `load_processes` | `Cache.Load` after a rollback, query by query |
| `RefreshFails` | a refresh query fails; the engine logs and returns success |
| `Restart` | the process dies at any moment; `main.go` loads the cache before it serves |

Calls that only return a preview (unconfirmed risky changes) change nothing and are not
steps. Field slugs are unique within a request (`ValidateCreateCollection`).

### Records

`rows` is one data table (`val` one data column, `ver` the column `_version`, `status` the
column `_status`, `deleted` for `deleted_at`), `links` one junction table, `history` the
rows of `_history.record_changes` per record, `published` the types of the events handed
to the bus. `form[c]` is what the user's page shows: the row it last loaded, whose
`_version` goes out with the next request or does not (`Versioned`: undo and redo of a status
change send none). `req[c]` is the request's program counter:

| Step | Code |
|---|---|
| `Load` | the page's GET |
| `BeginUpdate`, `FetchOld`, `CheckStatus`, `WriteRow`, `DeleteLinks`, `InsertLinks` | `DynHandler.Update`, one action per statement on the pool: `fetchRow`, `SELECT _status`, `UPDATE ... AND _version = $n`, the two statements of `syncM2MLinks` |
| `BeginBatch`, `BatchStep`, `BatchCommit` | `DynHandler.BatchUpdate`: one transaction, `pending` holds what it wrote and locked; `Conflict` is the 409 with its deferred rollback |
| `DeadlockAborts` | PostgreSQL aborts one transaction of a cycle of waits |
| `Create`, `BulkCreate`, `Delete`, `BulkDelete` | one statement or one transaction each |
| `RecordChange`, `Publish` | what follows the commit |
| `RequestFails`, `RecordChangeFails`, `Restart` | a failing statement, a failing history insert (logged only), the death of the process |

Row locks are those of PostgreSQL under READ COMMITTED: an UPDATE waits until the holder of
its row ends, then looks at the row again (`Unlocked`, `Matches`).

### EventPipeline

`req[r]` is where a handler goroutine is inside `Bus.Publish`; `stream[s]` an SSE handler
with its channel (open or closed, messages in the buffer), `registered` the map
`Broker.clients`; `work[t]` a task of the pool, one for an event and an automation;
`delivered` the tasks whose webhook call reached its receiver; `runs` and `notified` the rows
of `_history.automation_runs` and `_meta.notifications`; `phase` and `held` the shutdown
goroutine and the slots `Pool.Wait` has taken.

| Step | Code |
|---|---|
| `Publish`, `Send`, `FinishBroadcast` | the bus calls its first subscriber, `Broker.Broadcast`: one non-blocking send per client under the read lock. Who needs the write lock waits (`NoReader`) |
| `QueryRecipients`, `InsertNotification`, `FinishNotify` | `notifyCommentRecipients`. The rows stay open, so the request keeps a connection while each insert takes another |
| `LoadAutomations`, `SubmitTask`, `FinishSubmit` | `Engine.Subscribe`: which automations the trigger has is a choice, `Pool.Submit` blocks for a slot |
| `RequestCancelled` | the subscribers use the request's context; its end, or a failing query, skips the rest |
| `Connect`, `Receive`, `Disconnect`, `Unsubscribe` | `SSEHandler.Stream` and its deferred `unsub` |
| `Skip`, `RunStatement`, `CallWebhook`, `LogRun`, `EndTask` | `execute` in the pool: trigger or conditions do not match; a notification or `update_field`; an attempt of `WebhookSender.Send`, which the receiver may act on although its answer is lost; `logRun` with the task's context; the slot given back |
| `Expire` | the two minutes of a task are over |
| `Signal`, `CloseBroker`, `TakeSlot`, `EndWait`, `GiveSlot`, `Drain`, `ClosePool`, `Exit` | the shutdown goroutine of `main.go`, with `Wait` slot by slot, and `run()` returning as soon as `srv.Shutdown` has made `Serve` return |

### The screens

Every user gesture is an action guarded by `Act`, which counts it; answers, timers, events
and other people's writes are actions of their own and are not counted but bounded by what
is under way. Variables marked "observation only" exist for the properties and guard
nothing in the code's part of a step.

| Module | State | Abstraction |
|---|---|---|
| `AppView` | `group` = `filterGroup`, `sorts` and `arrow` = panel and header order, `box`, `timer`, `text` = the debounced search, `saved`, `active` = the views | a condition is its place in the tree; `Selects` and `buildGroupClause` say which rows a request and a tree mean (`filter.go`) |
| `TableGrid` | `shown`, `left`, `right`, `order` = column state, `cell`, `anchor`, `range` = `useGridNavigation`, `current` = local storage | a page is its number of rows |
| `RowSelection` | `selected`, `allMode`, `bulk` = the request with its versions | a record is its version; the server is the batch and delete handlers of `Records`, and `ParsePagination`: a limit above `MaxLimit` counts as none |
| `UndoToast` | `stack`, `redos`, `requests`, `board` | one card; a move is a pair of statuses |
| `EntriesCache` | `cache`, `stale`, `fetch` = React Query's data, invalidation and request of each key; `call` = mutations with their snapshots; `stream`, `events` | a row is its version and the unconfirmed patches on it |
| `QueryCache` | `watched` = one query among all mutations; `answer` = what it lacks | an answer is the set of this tab's writes it ought to contain and does not; the tables `HookQueries`, `UserHooks`, ... are the hooks' keys and what their mutations mark |
| `EntryEditor` | `data`, `initialData`, `errors`, `stamped`, `calls`, `upload`, `entry` | a version is current or not |
| `FormPager` | `entries`, `currentIndex`, `openForm`, `writes` | a record is one text |
| `KanbanBoard` | `columns`, `allowedMoves`, `dragged`, `focusedCol`, `collapsedColumns` | a card is where it is, and the only place to drop one; the moves are those `buildAllowedMoves` lists, of every status or of none |
| `GanttBoard` | `drag`, `shownBar`, `listedVersion`, `updates` | one bar, whole days; a request holds the dates of mouse down and the version listed at mouse up |
| `CalendarBoard` | `viewDate`, `viewMode`, `direction`, `animating`, `calendarData`, `allApps` | days are numbers, the query answers the first `MaxListed`, weeks and months have constant borders; `AssignTracks` and `Placed` are the layout of server and page |
| `SheetInput` | `sheet`, `sort`, `filter`, `selAnchor`, `selCursor`, `mergedCells`, `clipboard` | a cell is a number, 0 is empty; formulas are left out |
| `CsvImport` | `csvData`, `columnMap`, `readers`, `imports` | a header resembles at most one field |
| `Builder` | `fields`, `originalFields`, `existing`, `saving` = the calls that are left; `existingName`, `dbName` = the label cached and stored; `clicked`, `found` = form and database when save was clicked | a field is id, slug and label |
| `FormLayout` | `drafts`, `resizing`, `dropping`, `slugRequests` = questions for a slug with the form as it was | a field is its width |
| `FieldOptions` | `field` | texts are blank or one of a few lines |
| `AutomationForm` | `rules`, `listedRules`, `ruleForm`, `picker`, `ruleSave` | a cron expression is how often, hour, day and months |
| `ProcessEditor` | `statuses`, `transitions`, `process`, `places`, `connectFrom` | transitions name positions, as in the code |
| `InterfaceDesigner` | `config`, `storedLayout`, `dragIdx` | a widget is id, type and one setting |
| `OrgChart` | `depts`, `subs`, `people` = tables; `chart` = the lists as last read; `patches` = updates the server is walking for | a walk is the department to be read next and those seen; a query of it may fail |

## Runs

`tlc -config X.cfg M` in this directory; `Browser` takes three to four minutes with two
workers, every other run less than two.

| Run | Question | Result |
|---|---|---|
| `SchemaSequential` | One caller at a time, every operation and every rollback, transactions that fail, restarts: is the cache the metadata between two calls (`CacheFresh`), is every DDL change in the history (`SchemaChangesRecorded`), and until something is rolled back, do columns match fields (`ColumnTypesMatch`), does `_status` follow the process switch (`StatusColumnMatches`)? `TypeOK` | holds |
| `SchemaConcurrent` | Two overlapping callers, every operation but rollback, refreshes that fail: do metadata and tables ever part (`MetaMatchesTables`), the two cache indexes (`SlugIndexSound`), is every DDL change in the history (`SchemaChangesRecorded`), is the engine the atomic catalog (`ImplementsCatalog`)? | holds |
| `SchemaRollback` | Two callers that also roll back creations and drops of collections and column-backed fields, racing for one migration included: `ImplementsCatalog` | holds |
| `RecordsUpdate` | Two users, each request with the `_version` they loaded or without: do those with it replace what was loaded (`NoLostUpdate`), along allowed transitions (`TransitionsRespected`), with the old value in the history (`DiffExact`), and is the history complete whatever was sent (`HistoryComplete`, `TypeOK`)? | holds |
| `RecordsBatch` | Two users with batches over two rows in any order, bulk operations, faults: does every batch end (`BatchEnds`)? | holds |
| `EventPipeline` | Two publishing requests, two streams, two automations, shutdown at any moment: `NoPanic`, `RunsHonest`, `RunsLogged`, `WaitQuiesces`, `TypeOK` | holds |
| `EventShutdown` | The same without streams: does every request inside `Publish` return (`PublishReturns`), does the process exit once the signal has come (`ShutdownEnds`)? | holds |
| `Browser` | All twenty screens, every initial state, every short sequence of gestures with answers, events, timers and other people's writes in any order: `BrowserTypeOK` and the properties below but `ScreensSettle` | holds |
| `BrowserSettles` | The five screens with something under way that must end: `ScreensSettle`, under `FairSpec` | holds |
| `RecordsStateChange`, `DepartmentCycle`, `EditShowsConditions` | what a comment or a document promises, one promise each: see [below](#where-the-code-and-its-documentation-disagree) | violated |

`ColumnTypesMatch`, `StatusColumnMatches` (until something is rolled back, which they say
themselves) and `CacheFresh` are checked of one caller at a
time because overlapping callers do break them, see [below](#seen-while-modelling). What the
concurrent runs show is what survives any overlap, and that is the part a broken system
could not recover from by a restart.

The properties of `Browser`, each a conjunction of properties of single screens, which are
defined and explained at the end of the screens' modules:

| Property | Question | Screens |
|---|---|---|
| `TabInStep` | Once nothing is under way, does the tab show what the server and the storage hold, and do guesses go? | `ShownFresh`, `GhostsTransient` of the cache; `LayoutStored` of the designer |
| `SendsWhatIsShown` | Does a request ask for what the screen describes? | `RequestMeansTree`, `SearchApplied`, `OneSortSource`; `MapOfShownColumns`, `FreeColumnsAsMapped` |
| `SelectionMeansWhatItShows` | Is what is marked what is copied and merged, and what is called "all" the answer to that? | `CopyMatchesHighlight`, `RangeSpansSelection`; `AllModeIsAnAnswer`; `CopiesWhatIsShown`, `MergesDisjoint` |
| `SavesHitTheirRecord` | Does a form make one record, and change only the one it was opened with? | `CreatedOnce`; `EditsOwnRecord`, `IndexInList` |
| `FamilyIsFresh` | Does every settled mutation reach the answers of its own family (two known gaps apart)? | the query cache |
| `HistoryIsChain` | Taken newest first, does undo take back the last move, redo the last undo, whatever the timers remove? | undo |
| `EverythingHasAPlace` | Is every event the server answers, every page and person reachable? | `BarsDisjoint`, `LeftOutWhereFull`, `GridAccountsForEvents`, `WeekShowsOnce`; `PagesOffered`; `CircularOnlyUnchecked`, `ChartIsComplete` |
| `DraftsSound` | Has a draft its positions, one initial status, no blank choice, a schedule that can run, and a form only real errors? | `NothingBlank`; `DraftsWellFormed`; `PickerInStep`, `SchedulesCanRun`; `ErrorsAreReal` |
| `SavedMeansStored` | When the builder says saved, are the label it sent and every added field stored and every removed one of those it started from gone, and exactly the form stored if the database had what the page started from? | the builder |
| `BulkKeepsOthersWrites` | Does a bulk operation leave alone what others wrote since the page was read? | selection |
| `BoardsDoWhatTheyShow` | Do drops, keys and drags do what the board showed? | `DropMatchesShown`, `EnterOpensRing`; `BarsKeepOrder`, `PreviewMatchesSaved`, `ReplacesShownDates` |
| `EditsKeepTheRest` | Does one gesture leave the rest of a draft alone? | `DropFillsRow`, `ResizeKeepsField`; `RemovalKeepsTransitions`; `DragMovesOne`; `ProposedSlugsDistinct` |
| `ViewsComeBack` | Does a saved view bring back what was saved, and a changed question its first page? | `FirstPageOfNewRows`, `ViewRestored`; `StoredColumnsShown` |
| `ScreensSettle` | Does what a screen began end? | `SearchCatchesUp`, `EditsReachServer`, `SlideEnds`, `CatchesUp`, `GuessesEnd` |

Where a screen does not keep such a promise in every state, the property's guard says which
states are left out and its comment says why; the list is under
[Seen while modelling](#seen-while-modelling).

`SchemaRollback` leaves computed fields out (`NoColumnTypes = {}`): with them the rollback
of a dropped field whose slug a formula has taken meanwhile adds a column without a field
row (see below). `RecordsBatch` has `Versioned = {TRUE}`, since a batch that waits for no
version waits for the same locks.

## Bounds

| Bound | Value | Why it is enough |
|---|---|---|
| `Clients` | 2 (1 in `SchemaSequential`) | every hazard listed is between two calls; a stale read needs one to read and one to write |
| `CollectionIds`, `Slugs` | 2 ids, 1 slug | two collections one after the other (or at the same time, in one cache) compete for one slug: creation, drop and re-creation |
| `FieldIds`, `FieldSlugs` | 2 ids, 1 slug and `_status` | a field dropped, its slug reused, the drop rolled back |
| `DataTypes`, `Autonumber` | 2 and an autonumber in `SchemaSequential`, 1 in the others | two mutually convertible types, so that altered columns and field rows can differ |
| `MaxMigrations` | 4 (3 with one caller) | create, change, change, roll back; a create, drop, create, drop chain |
| `MaxInitialFields` | 1 where a create request with a field is of interest, else 0 | fields are also added by `AddField` |
| `RecordIds` | 1 for updates, 2 for batches | updates of different rows share nothing; a deadlock needs two |
| `Statuses`, `Transitions` | draft to review, draft to done | with two statuses a stale check could not pick a forbidden transition: after draft to review another caller's draft to done is one |
| `Edits` | a to b | a select transition that is allowed only once |
| `MaxVersion` | 3 (2) | rows that reached it are not loaded any more, so a page can be two changes behind |
| `MaxBatch` | 1, 2 | two updates in opposite order |
| `MaxFaults` | 0 with `HistoryComplete`, 1 with batches | one failing statement or restart at any point |
| `Requests`, `Events` | 2, one comment and one record event | a request that waits and one that holds what it waits for |
| `Streams`, `BufferSize` | 2, 1 (none in `EventShutdown`: streams never block a publisher) | a full buffer, an empty one, a stream that leaves while the other is sent to |
| `Automations`, `Webhooks`, `MaxWorkers` | 2, 1 of them, 1 | the second task must wait for the first, and `Wait` competes with both |
| `MaxConns` | 2 | one more than there are comments: with as many comments as connections requests do wait for each other, see below |
| `MaxFaults` of the pipeline | 1 | one expired task or failing run log |
| `Budget` | 1 to 6 gestures, per screen | the initial states are many (any saved status, sheet, layout, process, calendar position), so that few gestures reach what is interesting; every variant of the code listed under `mutants` in `PROJECT.json` breaks its property within the budget |
| `MaxRequests`, `MaxCalls`, `MaxPending`, `MaxPatches`, `MaxImports` | 2 | two calls under way can be answered in either order |
| `Columns` | 3, one of them an action column | a range over hidden, pinned and moved columns |
| `Rows`, `PageSize`, `MaxLimit`, `DefaultLimit` | 3, 1, 2, 1 | a selection over more than one page, a table with more rows than the server's largest limit and one with fewer |
| `Ids`, `Calls`, `MaxVer` of the record cache | 1, 2, 1 (1 call, a board and 1 fault in `BrowserSettles`) | two optimistic patches of one row, refused or confirmed in either order |
| `Events`, `Lengths`, `WeekLength`, `MonthStarts` | 2; 0, 1, 4 days; 3 days; months of 4 and 5 days | events within a day, across a week, across several weeks and out of the month; `MaxVisibleSpans` 1; the query of one collection has room for both events, that of all for one (`MaxListed`) |
| `Depts`, `OldDepts`, `People`, `Subs` | 3, 2, 1, 1 | a cycle of two by two updates, or of three by one walk; a new department while lists are old |
| `SheetColumns`, `MaxSheetRows`, `CellValues` | 2, 3, 2 | three rows that sort in more than one order |
| `Layouts` | two forms, with a layout field | a row that is full, a drop that crowds it |

The bounds are guards of the models (`MaxMigrations` in `Record`, `MaxVersion` in `Load`,
and so on), not state constraints. The pipeline's runs do not check deadlock: the process
exits; nor do those of the browser: a user may stop. Symmetry is used in the safety runs only. The theorems
have none of the finite sets: they hold for all values of the constants.

## Fairness

The schema runs check safety only. `Records` states fairness for `BatchEnds`: strong fairness of `BatchStep` (an UPDATE
that waits for a row lock is queued by PostgreSQL and gets it when it is free again and
again), weak fairness of `BatchCommit` (the handler goroutine runs on) and of
`DeadlockAborts` (the deadlock detector runs after `deadlock_timeout`). No user is assumed
to do anything.

`EventPipeline` states strong fairness of each request inside `Publish` (`Deliver`), of each
task (`TaskSteps`) and of the shutdown goroutine (`Stop`). Goroutines that can run are
scheduled; those that wait are served in turn, by the channel of the semaphore (senders are
queued), by `sync.RWMutex` and by the connection pool, so one that finds its slot, lock or
connection free again and again gets it. Nothing is assumed of users, browsers, signals,
expiry or failures. `PublishReturns` does not rely on a client going away.

`Browser` states weak fairness (`Fairness`) of what the browser and the server do by
themselves and of nothing a user does: the debounce and autosave timers fire, the transition
of the calendar ends (`animationend`), a request is answered (accepted, refused or failed),
the callbacks of an answer run, an event that has arrived is read, and an EventSource
reconnects after an error. A call may get lost (`CallLost`, `LoseCall`), events sent while
the stream is down are lost, and requests may fail, up to the bounds.

## Proofs

TLAPS proves, for every value of the constants that satisfies the ASSUMEs of the modules:

| Theorem | Statement | Argument |
|---|---|---|
| `SchemaEngineProofs!TypeCorrect` | `Spec => []TypeOK` | `TypeInv`: `TypeOK` and every rollback in progress names an existing record. The second part is needed because a rollback indexes the history with a number it read before its transaction |
| `SchemaEngineProofs!SlugIndexCorrect` | `Spec => []SlugIndexSound` | `IndexInv`: collection ids are unique (primary key), the snapshots a full load has gathered so far have different ids and one slug each, and the indexes agree. One lemma per kind of refresh step; a slug never changes in these operations, so an installed snapshot replaces the entry under the same key |
| `SchemaEngineProofs!CatalogCorrect` | `Spec => []MetaMatchesTables`, assuming `Reversible`: `"rollback" \notin Ops` or `NoColumnTypes = {}` | `CatalogInv`, below |
| `SchemaEngineProofs!CatalogImplemented` | `Spec => ImplementsCatalog`, under the same assumption | every transaction, a rollback's too, is a `CatalogStep`, below |
| `SchemaEngineProofs!ChangesRecordedCorrect` | `Spec => SchemaChangesRecorded`, assuming one caller or no rollbacks | every transaction that changes `db` calls `Record` or turns the record of its rollback, which `RollbackFresh` says was applied: the record a rollback judged in its preflight is still so in its transaction |
| `SchemaEngineProofs!CacheFreshCorrect` | `Spec => []CacheFresh`, assuming `OneAtATime` (one caller, refreshes that do not fail) and `Reversible` | `CacheInv`, below |
| `SchemaEngineProofs!ColumnTypesCorrect`, `StatusColumnCorrect` | `Spec => []ColumnTypesMatch`, `Spec => []StatusColumnMatches`, assuming `OneAtATime` and `Reversible` | `TablesHold`, below |
| `RecordsProofs!TypeCorrect` | `Spec => []TypeOK` | one lemma per handler |
| `RecordsProofs!NoLostUpdateCorrect` | `Spec => NoLostUpdate` | `VersionInv`, below |
| `RecordsProofs!TransitionsCorrect`, `DiffCorrect` | `Spec => TransitionsRespected`, `Spec => DiffExact`, of the requests that carry `_version` among those that do not | the same invariant: what was read is what the row of that version holds |
| `RecordsProofs!HistoryCorrect` | `Spec => []HistoryComplete` | `HistoryInv`, below |
| `EventPipelineProofs!TypeCorrect` | `Spec => []TypeOK` | one lemma per kind of actor |
| `EventPipelineProofs!NoPanicCorrect` | `Spec => []NoPanic` | `BrokerInv`: channels in `Broker.clients` are open, and what a broadcast has still to send to is in `Broker.clients`, since nobody leaves it under the read lock |
| `EventPipelineProofs!WaitQuiescesCorrect` | `Spec => WaitQuiesces` | `PoolInv`: running tasks are finitely many and, with the slots of `Wait`, at most `MaxWorkers` |
| `EventPipelineProofs!RunsHonestCorrect` | `Spec => []RunsHonest` | `RunInv`: an event is published once, a request submits an automation once (`Ahead`), a run belongs to a task that has ended, and a task about to log a webhook's success has been delivered |
| `EventPipelineProofs!RunsLoggedCorrect` | `Spec => []RunsLogged` | `LogInv`: as long as the server serves and nothing failed, no context of a task has ended, and a task that has left `logRun` has its run |
| `BrowserProofs!TabCorrect` | `Spec => []TabInStep` | `CacheInv`, `DesignerInv`, below |
| `BrowserProofs!FamilyCorrect` | `Spec => []FamilyIsFresh` | `QueryInv`, below |
| `BrowserProofs!SavesCorrect` | `Spec => []SavesHitTheirRecord` | `EditorInv`, `PagerInv`, below |
| `BrowserProofs!ScreensTyped` | `Spec => []BrowserTypeOK` | each screen's invariant contains its type |
| `BrowserProofs!UndoCorrect` | `Spec => []HistoryIsChain` | `UndoTypeOK` and `ChainInv`, below |
| `BrowserProofs!DraftsCorrect` | `Spec => []DraftsSound` | `ProcessInv`, `OptionsInv`, `AutomationInv`, `EditorInv`, below |
| `BrowserProofs!SavedCorrect` | `Spec => []SavedMeansStored` | `BuilderInv`, below |
| `BrowserProofs!SentCorrect` | `Spec => []SendsWhatIsShown` | `ViewInv`, `CsvInv`, below |
| `BrowserProofs!SelectionCorrect` | `Spec => []SelectionMeansWhatItShows` | `GridInv`, `SelectionInv`, `SheetInv`, below |
| `BrowserProofs!BulkCorrect` | `Spec => BulkKeepsOthersWrites` | `SelectionInv`, below |
| `BrowserProofs!BoardsCorrect` | `Spec => BoardsDoWhatTheyShow` | `KanbanInv`, `GanttInv`, below |
| `BrowserProofs!ViewsCorrect` | `Spec => ViewsComeBack` | `ViewInv`, `GridInv`, below |
| `BrowserProofs!PlacesCorrect` | `Spec => []EverythingHasAPlace` | `CalInv`, `GridInv`, `OrgInv`, below |
| `BrowserProofs!EditsCorrect` | `Spec => EditsKeepTheRest` | `LayoutInv`, `ProcessInv`, `DesignerInv`, `BuilderInv` and `DraftsApart`, below |

`CatalogInv` says what a stale preflight can be wrong about. A call carries what it read of
the cache or the store before its transaction, and by then the collection or the field may be
gone or changed; but identities are never issued twice, so a slug belongs to an identity for
good (`SlugsFixed`: store, cache, refreshes and calls agree), and so do a field's
collection, its slug and whether it has a column, which `CheckCompat` never lets change
(`FieldsFixed`). A transaction that goes through therefore works on the table of the row it
found, and is a `CatalogStep`: one collection with its table more or less, one column more
or less on both sides, or neither side touched (`FieldsHaveCollection` is the foreign key;
`ColumnsHaveTable` keeps a created table free of old columns). The step simulation uses the
same lemmas.

A rollback may come after any number of other calls, so the invariant also speaks of the
history. What a record names stays so: its down DDL the slug of its collection, its payload
the field it added or dropped or the collection it dropped (`Remembers`, `RecordedField` and
`Archived` join the sources of `Known` and `Seen`). Its down DDL undoes its up DDL on the
field or the collection of its payload (`Reverts`, `HistoryReverts`). And a collection as it
was read, by the cache, a refresh, a dropping call or the record of one, holds fields of its
own under different slugs (`HeldWhole`). Then each kind
of rollback is again a `CatalogStep` (`UndoCreateCollection`, `UndoDropCollection`,
`UndoAddField`, `UndoDropField`, `UndoAlterField`, `UndoOther`): it drops what is there, or
puts back what the unique keys and the existing columns leave room for, or fails whole.
This needs every field to have a column. Rolling back the drop of a field whose slug a
computed field has taken meanwhile adds a column that no stored field describes, because
`ON CONFLICT DO NOTHING` skips the row and the DDL finds the column's name free; hence the
alternative in `Reversible`.

`CacheInv` follows one caller through its call. Between two calls, and until the transaction,
both indexes and the process entries answer what a read of the store would (`IndexesFresh`,
`ProcessesFresh`), and what the preflight read is still so (`ReadStill`). The transaction
leaves one collection behind (`FreshBut`, `ProcessesFreshBut`), the one the refresh is about;
what the refresh carries from read to read is what the store holds (`Reloading`,
`ReloadingProcess`), and its installation closes the gap. A rollback starts a full load, which
replaces the cache whatever it holds, by rows, fields and processes that no other call can have
changed between the queries (`LoadingAll`). `UnissuedUncached` is needed because
`RemoveCollection` leaves the process entry of a dropped collection: no new collection meets
it, since identities are not issued twice. `TablesMatch` says column by column what the field
rows and the process announce, and `TablesHold` says it of histories in which nothing is rolled
back (a record that is stays so: `TransactionKeepsReversed`). AlterField and SaveProcess write
the difference between the request and what the preflight read, so that their steps need
`ReadStill`: without it, that is with two callers or a refresh that fails, both properties are
false; and a rollback of a process switch or of alterations out of order breaks them as well. `OneAtATime` also says
that no snapshot is called `Absent`.

`VersionInv` says why `_version` is enough. A version is a name for a state of a row:
whatever row a page holds (`FormsAreSnapshots`), a call carries (`CallsAreSnapshots`) or a
batch carries (`BatchesAreSnapshots`) is either the row of now or an older version of it,
and what Update fetched later (`ReadsHold`, `CheckedIsHeld`) belongs to a version at least as
new. Rows locked by one batch are not locked by another (`LocksExclusive`) and a pending
row is newer than the committed one (`PendingIsNewer`), so that neither can change between
an UPDATE inside a batch and its commit. `Set` raises the version, `MarkDeleted` makes a
row unmatchable: no step gives two different live rows the same version.

`HistoryInv` adds where a change is between its commit and its row in
`_history.record_changes`: with the handler that made it (`Entries`), behind the link
synchronization if there is one. A value a record has is `Written` or on its way there. An
UPDATE that carries no change may have put back an older value than the one it replaces, if
its request has no `_version`; but what it fetched was the value of a row then, and so is in
the history or on its way there (`FetchedWritten`, which holds because what is written stays
written: `Grown`). A batch commits only values it will record (`PendingListed`).
`HistoryComplete` alone is not inductive, as it says nothing while a request is under way.

#### The browser

The theorems about `Browser` need one invariant per screen, and the composition needs nothing
else: the screen that is open keeps its invariant by its own steps, a closed one because its
variables stay as they are (`BrowserProofs`, the `...Holds` lemmas). Each invariant was an
INVARIANT of the run `Browser` before it was proved. They hold the screen's type and what the
property does not say while something is under way:

- `CacheInv`: unless the stream broke or a request failed (`excused`), what the cache holds of
  a query, and the answer that has come for it, is what the server would answer now, or the
  query is marked, the answer counts as late, or a mutation under way or an event in the
  stream will mark every query; and what the screen needs it has asked for (`FreshInv`).
  Patches of settled calls are left in marked queries only (`GhostInv`), and a call under way
  has the snapshot it would bring back (`SnapInv`).
- `QueryInv`: what an answer lacks is looked after (`LookedAfter`): the mutation that wrote it
  is still under way and will mark the answer, or the answer is marked, or a request for it has
  been sent and not read yet, or a patching mutation under way will mark the answer when it settles.
- `EditorInv`: the records made and the requests under way that would make one are together at
  most one more than the repetitions the user asked for in a toast, and no more than those while
  the form waits for its first request to be sent (`CreateInv`); errors are those of the form.
- `PagerInv`: the form in edit mode is the record at the current index unless the list has
  moved (`FormsInv`); a submission keeps the record it was opened for.
- `ChainInv`: unless a request was refused, overtaken or not alone, or an older entry was taken
  (`jumped`), each history is a chain of moves,
  and both end at the column the card will be in when the request under way is answered.
- `ProcessInv`: positions in drafts, in the diagram and in a request that is under way are
  those of statuses, and one status is initial (`RemoveStatusKeeps`: removing a status
  renumbers the others and drops its transitions).
- `OptionsInv`, `AutomationInv`: the columns of a table field have no blank part, what the
  schedule picker shows is what it read of the expression, and the rule of a save under way can
  run.
- `DesignerInv`: ids of widgets are distinct, and the widget in the air is the one the drag index
  names.
- `BuilderInv`: what a save has not done yet is on its list, and the list has nothing that the
  form does not want (`ListInv`, `EditProgress`): what the form added is in the database or
  still to be added, what it removed is out or still to be deleted, labels agree or are still to
  be sent, the app's own in the first call (`NameProgress`). With an empty list that is
  `SavedMeansStored`. The ids of fields from the database are below
  ten, so that a new one is never taken for an old one.

- `ViewInv`: one of the two sort orders is empty, a pending debounce timer holds the text of
  the box unless the user has emptied it meanwhile, and a stored view still has what applying
  it needs (`ViewKept`): the stored tree is well formed and asks the server for what the page
  asked for, whether it was stored as a tree, as a flat list or as nothing. `FlatConfigSame`
  is the reason why flat storage is harmless when no field occurs twice.
- `GridInv`: an active cell has an anchor and a range starts at it (`AnchorInv`); pinned and
  ordered columns are columns.
- `SelectionInv`: "all" means the rows the last answer brought, and a bulk request carries the
  versions of the page it was sent from. `BulkCorrect` is an action property: the server
  compares the versions it gets with its own, so that the step that writes finds the rows as
  they were on that page.
- `CalInv`: the calendar's type and the order of an event's dates are enough, since what the
  month shows is computed from them. The work is in the lemmas: an event the query
  has no room for is not drawn; the segments of a week are placed one
  after the other, in the order of their first days (`SegmentOrder`), each on the first track
  whose last bar ends before it, and a track never holds two bars that share a day (`Apart`). A bar that
  is left out has one on every track at its first day (`Topped`, `Stacked`).
- `OrgInv`: a department, a form, a chart and an update under way name departments that were
  created (`Linked`), and unless two updates overlapped or a query of
  a walk failed the departments are well founded and the
  walk has seen nothing below the department it is about (`OneWalk`): what it has seen leads on to where it is
  (`WalkHolds`). When it arrives at the top, hanging the department there closes no cycle.
  Well founded means that every set of departments has one whose parent is not in it, which is
  what the property counts round by round (`BelowMeans`: its rounds end with the smallest set
  that has the roots and whatever hangs below them).
- `LayoutInv`: every field of the form has an id of its own (`OnceEach`). New ids are made from
  the count of gestures, and are free because the ids in use are below the next one (`IdsBelow`);
  both are said of the form each request for a slug remembers too (`RequestSound`), since its
  answer puts that form back.
  `DropFills` then needs that a row's widths add up: the first fields of a row together have the
  grid's columns divided by their number, rounded up for the first ones (`EvenFills`).
- `DraftsApart`: likewise for the drafts of the app builder, and for the copy of them a request for a slug
  remembers. `SlugIsFree`: an answer that is no slug of the remembered drafts but one is no
  slug of the others, because it replaces the form by the copy.
- `KanbanInv`, `CsvInv`: the last drop and the last file read are what was shown. A card is
  dropped on another card, of a column that has one.
- `GanttInv`: the record, what is shown, what is dragged and every request hold their dates
  in order, and a request that names a version no newer than the dates of mouse down was
  computed from the dates of that version (`GanttOrder`, `SentFor`).
- `SheetInv`: merges are stored by their upper left and lower right corners and do not
  overlap (`MergesInv`), so that a new one swallows whole every merge it meets; what was
  copied is what the screen showed.

Assumptions of the screens' modules say what the code's types say: bounds are numbers, inputs
that the code trims and refuses when empty are not empty, an input's kind and values belong
together, the table and the board list each column once, there are finitely many rows, a file
or a view has another name than none, a month has days and a week too, events, departments and
columns of the grid are finitely many, a form starts with fewer than ten fields (their ids are
below the new ones), the routes are the screens there are, the builder has slugs and labels to choose from and a process two names.

Only model-checked: `BatchEnds`, `ScreensSettle`, `PublishReturns` and `ShutdownEnds`, which
are liveness under fairness and out of the prover's reach.

## Where the code and its documentation disagree

| Run | What happens |
|---|---|
| `DepartmentCycle` | Two updates whose walks both read the old parents, or one whose walk meets a failing query, which `department.go:300` reads as "no cycle", make departments each other's ancestors (`NoCircularDepartments`), which `docs/FEATURE-LIST.md:37` rules out. |
| `RecordsStateChange` | `fetchRow` does not select `_status`, so Update never sees a status change and never publishes `EventStateChange`, which `dynamic.go:474` says it does. |
| `EditShowsConditions` | `handleEdit` fills the form of a stored automation from the list, which has neither conditions nor actions, although the comment at `AutomationsPage.tsx:157` asks for the full automation. Saving the form replaces the stored ones. |

## Seen while modelling

What the models show of the code beside the promises that have a run of their own; where one touches a property, the property's guard excludes it and names it.

### Server

- Two AlterField calls that read the same field row: the first changes NOT NULL, the second
  writes its metadata over that and derives no DDL, since compared with the row it read nothing
  changes (`engine.go:490`). Field row and column differ, although the engine's header promises
  that "either the full schema change succeeds, or nothing changes" (`ColumnTypesMatch` with two
  clients fails).
- Two rollbacks of one migration can both find `rolled_back_at` empty (`engine.go:737`), which
  Rollback's comment says it verifies, before either commits. Where the down DDL does not fail by
  itself the second reverses the migration again, in `SchemaRollback` too: what it does then is
  still a step of the catalog, but the history does not show it.
- An update without `_version`, as undo and redo of a status change send it
  (`AppViewPage.tsx:734-735`), checks the transition from the status it has read
  (`dynamic.go:579`) and replaces whatever is there by then; the old value it records may not be
  the one replaced. `TransitionsRespected` and `DiffExact` are about requests with `_version`;
  the comment of Update (`dynamic.go:469`) makes no such difference.
- A drop commits; before its `RemoveCollection` another call creates a collection with the
  freed slug and installs it. The removal deletes the slug entry (`cache.go:117`), and the new
  collection answers "not found" until the next refresh. A reload that read before a drop and
  installs after it brings the dropped collection back (`CacheFresh` with two clients fails).
- Rolling back `enable_process` drops `_status` while `_meta.processes.is_enabled` stays true:
  `restoreMeta` has no case for process operations. Two SaveProcess calls with the same cached
  `wasEnabled` leave column and switch apart (`StatusColumnMatches`).
- Rolling back a drop of a field whose slug a computed field has taken
  adds a column no field row describes (`MetaMatchesTables`); rolling back alterations out of
  order, or the drop of a required field, loses NOT NULL (`ColumnTypesMatch`). The sequence of
  an autonumber column is created beside the column and not owned by it: dropping the table
  leaves it, and creating the collection again fails. In the model every transaction may fail
  (`TxAborts`), so it has that behaviour among others.
- With as many concurrent comments as the pool has connections, every one keeps a connection
  for its rows and waits for another, until a client gives up (`PublishReturns` with
  `MaxConns = 1`). A task that outlives its two minutes, or the signal, has acted but cannot
  log its run, since `logRun` uses the same context. The process exits with requests inside
  `Publish`, because `Serve` returns when `Shutdown` is called and `run()` does not wait for it.
  A client that goes away after its change was committed leaves that change without
  automations.
- The login limiter's collector deletes an entry when its window is over although the longer
  lockout is not (`ratelimit.go:63`).
- `UpdateUser` ignores a null department or subsidiary, which is what the dialog sends for
  "none": nobody can be taken out of a department.

### Records page

- A condition "is empty" without the operand "true" finds the records that have a value
  (`constants.ts:133`, `filter.go:140`); of two AND conditions on one field the last is sent.
- "Select all" asks for as many rows as the list counts, but `ParsePagination` (`filter.go:394`)
  takes a limit above 100 for none and answers 20, and the request carries the search text
  without the conditions: the rows selected are fewer, and others, than the filtered ones that
  `AppViewPage.tsx:275` and the button of `DataTable.tsx:471` speak of.
- The cross of the search box leaves the debounce timer running, which brings the old text
  back. Bulk operations leave the "all" mode on. The success of deleting one view closes
  whichever view is active. A redo cannot be undone. An undo from an older toast, a redo over newer moves, a refused
  request and somebody else's move leave histories that are no chain (`jumped` in `UndoToast`;
  `HistoryIsChain` is about the others).
- The table copies columns in their defined order, not as moved and pinned; a second drag of a
  column forgets the first; a click on a cell stops the row's own click; deleting the rows of
  the last page leaves no page buttons.
- A CSV import that ends closes the preview of a file opened meanwhile, and refetched fields
  reset the map.

### Forms

- A record with computed fields cannot be saved (400), one with relations not until they are
  picked again; autosave repeats itself after the first edit and skips required fields; going
  back to the first value is not saved; the prefill answer drops what was typed meanwhile; a
  form whose status was moved by somebody else is refused for good.
- The form view saves to the record at the current index, which is another one when the list
  moved (`EditsOwnRecord` excludes moved lists), and closes even when the save fails.
- Copying, deleting and cutting in the sheet use row numbers of the screen as if they were
  those of the value (`SpreadsheetInput.tsx:509-519`): right only without sort and filter. The
  actions do what the code does; no document says which rows are meant, so there is no property.
  The button that adds a row leaves the sheet as it was: the new row is empty, and `emitChange`
  cuts empty rows off the end (`SpreadsheetInput.tsx:303-315`).

### Boards

- `findField(fields, "_status")` (`dynamic_views.go:706-710`) refuses the board that groups by
  status with 400, so that the process board shows no data today: `KanbanBoard` is the component
  with the answers `buildAllowedMoves` and the board query would give it.
- A drag computes from the dates of mouse down and sends the version listed at mouse up: dates
  that somebody has stored meanwhile are replaced if the list was read again (`ReplacesShownDates`
  excludes it, as the request is `ahead` of its dates).
- Every drag of a Gantt bar ends by opening the record. Escape leaves a board's columns
  marked, and Enter can open a card that hidden columns keep from view. A timed event that is
  dragged loses its time. The week view lists an event once per segment. The server leaves out
  events at a time of the month's last day (`dynamic_views.go:176`), the page of all apps those
  that began before the month. Both answer the first events only (1000 of a collection, 500 of
  each on the page of all) and do not say so. Hidden bars of a last partial week are not counted:
  `GridAccountsForEvents` does not ask for it, `LeftOutWhereFull` says where they can be.

### Configuration

- Every save of an edited app compares the form with the fields of the moment the page was
  opened (`originalFieldsRef`). After a save of which only a part was done, one that sends an
  added field again is refused by its slug, if the user takes that field out of the form instead,
  nothing deletes it and the page says the app was changed; and a label that was stored and set
  back is not sent (`SavedMeansStored` asks for the exact form only of a save that found the fields the page
  started from). Edits of defaults, slugs, relations and order are never sent;
  after a successful save the unsaved-changes warning keeps the user on the page.
- A slug that the assistant proposes for a field arrives with the form as it was when it was
  asked for (`FieldProperties.tsx:80`, `AppBuilder.tsx:238-240`): drops, resizes and new fields
  made meanwhile are undone (`SlugArrives`).
- An answer of the assistant overwrites what was typed while it was under way: slug, fields.
- The success of saving an automation closes a form opened meanwhile; an invalid expression
  leaves the last valid one in force; a month-restricted expression is shown as a daily one.
- Removing a status and adding one leaves the diagram with its old positions; cancelling on the
  process page only refetches; edited roles do not count as unsaved.
- A layout that storage refuses is announced as saved; two tabs overwrite each other's; stat
  cards other than "count" ask for an aggregate the server refuses (`dynamic.go`,
  `runAggregate`), so that they always show "-".
- In the chart a click selects a department and never unfolds it: those below the second level
  are in its tree (`ChartIsComplete`) but never on the screen. The dialogs that delete
  departments and subsidiaries announce that assignments are released; the foreign keys refuse
  instead.
- Some mutations leave other families' queries outdated until they grow old: `updateMe` the
  list of users, changes of automations their detail (`KnownGaps`), writes of records the
  history, counts and tasks.

## What is not modelled

- Access checks, row-level filters and request validation: they reject a request or let it
  pass and write nothing. The models enumerate requests that pass.
- Unique and index flags, defaults, sequences of autonumber columns, full-text search, relations' foreign keys
  and junction-table DDL, slug renames: their DDL follows the column or table it belongs to
  and no property tells it apart.
- Previews, exports, formatting, logging, and the evaluation of formulas in the sheet and on
  the server.
- The `update_field` action's write, whose record `Records` would need a caller without a
  version for; the scheduler's clock; the rate limiters' clocks.
- More than one server process: cache, event bus and worker pool live in one process, and the
  models have one. More than one tab of a browser: another tab is one of the other people.
- Two screens one after the other in one tab: a page's state dies with its route, and what
  survives, the query cache, is modelled as a screen of its own.
- Column widths, menus, animations other than the calendar's, dialogs without state,
  dashboards, settings, sign-in, the assistant's conversations.
- External services (mail, webhooks' receivers, the AI model, the ERP): their answers are
  choices.

## Plan

Done: the server's three machines with `SchemaCatalog`, twenty screens of the browser behind
`Browser`, their runs, and the theorems above. What could follow:

1. `AutomationWrites`: `Records` with the `update_field` action, which changes a row and
   leaves `_version` alone, and the order of history rows.
2. `RateLimiter` and the scheduler on a clock.
3. An abstract worker pool (a set of at most N tasks, a Wait that ends when it is empty)
   that `EventPipeline` implements.
4. What can be said of column types when one caller rolls back in the reverse order only:
   `ColumnTypesMatch` and `StatusColumnMatches` say nothing after a rollback.
