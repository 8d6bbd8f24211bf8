---------------------------- MODULE SchemaEngine ----------------------------
(***************************************************************************)
(* The migration engine (backend/internal/migration) together with the      *)
(* metadata store and the in-memory schema cache (backend/internal/schema). *)
(*                                                                         *)
(* HTTP handler goroutines call the engine concurrently.  One call is       *)
(*   preflight : reads of the cache or the store, outside any transaction   *)
(*   tx        : one PostgreSQL transaction over metadata, DDL and history  *)
(*   refresh   : after the commit, reads of the store and, under the cache  *)
(*               lock, the installation of what was read                    *)
(* and calls interleave between those steps.  A transaction is one atomic   *)
(* step: its statements take row and table locks that serialise it against  *)
(* the other transactions on the same collection.                           *)
(***************************************************************************)
EXTENDS DataTables, Integers, Sequences

CONSTANTS
    Clients,         \* handler goroutines
    CollectionIds,   \* UUIDs gen_random_uuid() may issue for collections
    FieldIds,        \* UUIDs it may issue for fields
    Labels,          \* collection labels
    Absent,          \* no entry in a cache map
    Ops,             \* engine operations the clients call
    RefreshMayFail,  \* whether a cache refresh may fail after the commit
    MaxMigrations,   \* bound on the migration history
    MaxInitialFields \* bound on the fields of a create request

Operations == {"create_collection", "update_collection", "drop_collection",
               "add_field", "alter_field", "drop_field", "save_process",
               "rollback"}

ASSUME EngineAssumption ==
    /\ Ops \subseteq Operations
    /\ RefreshMayFail \in BOOLEAN
    /\ MaxMigrations \in Nat
    /\ MaxInitialFields \in Nat
    /\ Absent \notin BOOLEAN

VARIABLES
    collections,   \* rows of _meta.collections
    fields,        \* rows of _meta.fields
    processes,     \* rows of _meta.processes
    db,            \* the "data" schema: tables and columns
    migrations,    \* rows of _history.schema_migrations, oldest first
    issued,        \* UUIDs issued so far
    byID,          \* Cache.byID
    bySlug,        \* Cache.bySlug
    procCache,     \* Cache.processes, reduced to is_enabled
    req            \* what each client's call is about to do

meta == <<collections, fields, processes>>
cache == <<byID, bySlug, procCache>>
vars == <<meta, db, migrations, issued, cache, req>>

CollectionRow == [id : CollectionIds, slug : Slugs, label : Labels]
Field == [id : FieldIds, coll : CollectionIds, slug : FieldSlugs,
          type : FieldTypes, required : BOOLEAN]
ProcessRow == [coll : CollectionIds, enabled : BOOLEAN]

\* schema.Collection as the cache holds it: the row and its fields.
Snapshot == [id : CollectionIds, slug : Slugs, label : Labels,
             fields : SUBSET Field]
Draft == [slug : FieldSlugs, type : FieldTypes, required : BOOLEAN]
Changes == [type : FieldTypes \cup {Keep}, required : BOOLEAN \cup {Keep}]

FieldsOf(id) == {f \in fields : f.coll = id}
SnapshotOf(c, fs) == [id |-> c.id, slug |-> c.slug, label |-> c.label, fields |-> fs]
Cached == {id \in CollectionIds : byID[id] # Absent}

\* Layout and computed fields carry no constraint (validateFieldIn).
Drafts == {d \in Draft : d.type \in NoColumnTypes => ~d.required}

(***************************************************************************)
(* Requests.                                                               *)
(***************************************************************************)
Idle == [phase |-> "idle"]
Tx(op, args) == [phase |-> "tx", op |-> op, args |-> args]
ReloadCollection(id) == [phase |-> "reload", id |-> id]
ReloadFields(row) == [phase |-> "reload_fields", row |-> row]
Install(col) == [phase |-> "install", col |-> col]
RemoveCollection(id) == [phase |-> "remove", id |-> id]
ReloadProcess(id) == [phase |-> "reload_process", id |-> id]
InstallProcess(id, p) == [phase |-> "install_process", id |-> id, proc |-> p]
Load == [phase |-> "load"]
LoadFields(todo, got) == [phase |-> "load_fields", todo |-> todo, got |-> got]
LoadProcesses(todo, cols, procs) ==
    [phase |-> "load_processes", todo |-> todo, cols |-> cols, procs |-> procs]

Begin(c, op, args) ==
    /\ op \in Ops
    /\ req[c] = Idle
    /\ req' = [req EXCEPT ![c] = Tx(op, args)]
    /\ UNCHANGED <<meta, db, migrations, issued, cache>>

InTx(c, op) == req[c].phase = "tx" /\ req[c].op = op
Args(c) == req[c].args
Goto(c, r) == req' = [req EXCEPT ![c] = r]

\* Mutant: process changes are not recorded.
RecordUnlessProcess(coll, op, payload, down) ==
    /\ Len(migrations) < MaxMigrations
    /\ migrations' = IF op \in {"enable_process", "disable_process"} THEN migrations
                     ELSE Append(migrations,
                            [coll |-> coll, op |-> op, payload |-> payload,
                             down |-> down, rolledBack |-> FALSE])

\* recordMigration; the bound on the history is checked here.
Record(coll, op, payload, down) ==
    /\ Len(migrations) < MaxMigrations
    /\ migrations' = Append(migrations,
            [coll |-> coll, op |-> op, payload |-> payload, down |-> down,
             rolledBack |-> FALSE])

\* A statement of the transaction fails, or its commit does: the deferred
\* tx.Rollback undoes everything and the call returns an error.
TxAborts(c) ==
    /\ req[c].phase = "tx"
    /\ Goto(c, Idle)
    /\ UNCHANGED <<meta, db, migrations, issued, cache>>

(***************************************************************************)
(* CreateCollection.  The preflight trusts the cache; the UNIQUE slug and   *)
(* CREATE TABLE without IF NOT EXISTS decide in the transaction.            *)
(***************************************************************************)
NewField(fid, coll, d) ==
    [id |-> fid, coll |-> coll, slug |-> d.slug, type |-> d.type,
     required |-> d.required]

BeginCreateCollection(c) ==
    \E s \in Slugs, l \in Labels, ds \in SUBSET Drafts :
        /\ bySlug[s] = Absent
        /\ Cardinality(ds) <= MaxInitialFields
        /\ \A d, e \in ds : d.slug = e.slug => d = e
        /\ Begin(c, "create_collection", [slug |-> s, label |-> l, drafts |-> ds])

CreateCollectionTx(c) ==
    /\ InTx(c, "create_collection")
    /\ LET a == Args(c) IN
       \E id \in CollectionIds \ issued :
       \E fid \in [a.drafts -> FieldIds \ issued] :
         LET row == [id |-> id, slug |-> a.slug, label |-> a.label]
             fs  == {NewField(fid[d], id, d) : d \in a.drafts}
             ddl == GenerateCreateTable(a.slug, fs)
         IN  /\ \A d, e \in a.drafts : fid[d] = fid[e] => d = e
             /\ \A r \in collections : r.id # id /\ r.slug # a.slug
             /\ CanExec(db, ddl.up)
             /\ collections' = collections \cup {row}
             /\ fields' = fields \cup fs
             /\ db' = Exec(db, ddl.up)
             /\ issued' = issued \cup {id} \cup {fid[d] : d \in a.drafts}
             /\ Record(id, "create_collection", SnapshotOf(row, fs), ddl.down)
             /\ Goto(c, ReloadCollection(id))
    /\ UNCHANGED <<processes, cache>>

(***************************************************************************)
(* UpdateCollection: metadata only, recorded with an empty DDL.  A request  *)
(* without any attribute skips the UPDATE and its row check.                *)
(***************************************************************************)
BeginUpdateCollection(c) ==
    \E r \in collections, l \in Labels \cup {Keep} :
        Begin(c, "update_collection", [id |-> r.id, label |-> l])

UpdateCollectionTx(c) ==
    /\ InTx(c, "update_collection")
    /\ LET a == Args(c) IN
         /\ a.label = Keep \/ \E r \in collections : r.id = a.id
         /\ collections' = {IF r.id = a.id /\ a.label # Keep
                             THEN [r EXCEPT !.label = a.label] ELSE r
                               : r \in collections}
         /\ Record(a.id, "update_collection_meta", Absent, NoDDL)
         /\ Goto(c, ReloadCollection(a.id))
    /\ UNCHANGED <<fields, processes, db, issued, cache>>

(***************************************************************************)
(* DropCollection.  The row's deletion cascades to its fields and process;  *)
(* the recorded inverse recreates the table as the cache described it.      *)
(***************************************************************************)
BeginDropCollection(c) ==
    \E id \in Cached : Begin(c, "drop_collection", [col |-> byID[id]])

DeleteCollectionRow(id) ==
    /\ collections' = {r \in collections : r.id # id}
    /\ fields' = {f \in fields : f.coll # id}
    /\ processes' = {p \in processes : p.coll # id}

DropCollectionTx(c) ==
    /\ InTx(c, "drop_collection")
    /\ LET col == Args(c).col IN
         /\ \E r \in collections : r.id = col.id
         /\ CanExec(db, DropTable(col.slug))
         /\ DeleteCollectionRow(col.id)
         /\ db' = Exec(db, DropTable(col.slug))
         /\ Record(col.id, "drop_collection", col,
                   GenerateCreateTable(col.slug, col.fields).up)
         /\ Goto(c, RemoveCollection(col.id))
    /\ UNCHANGED <<issued, cache>>

(***************************************************************************)
(* AddField.  An unconfirmed risky change only returns a preview, so the    *)
(* calls that go on are the confirmed or the safe ones.                     *)
(***************************************************************************)
BeginAddField(c) ==
    \E id \in Cached, d \in Drafts :
        Begin(c, "add_field", [id |-> id, slug |-> byID[id].slug, draft |-> d])

\* Mutant: without the foreign key any UUID ever issued passes.
ReferencesIssued(id) == id \in issued

\* collection_id REFERENCES _meta.collections(id).
References(id) == \E r \in collections : r.id = id

AddFieldTx(c) ==
    /\ InTx(c, "add_field")
    /\ LET a == Args(c) IN
       \E fid \in FieldIds \ issued :
         LET f   == NewField(fid, a.id, a.draft)
             ddl == GenerateAddColumn(a.slug, f)
         IN  /\ References(a.id)
             /\ \A g \in FieldsOf(a.id) : g.slug # f.slug
             /\ CanExec(db, ddl.up)
             /\ fields' = fields \cup {f}
             /\ db' = Exec(db, ddl.up)
             /\ issued' = issued \cup {fid}
             /\ Record(a.id, "add_field", f, ddl.down)
             /\ Goto(c, ReloadCollection(a.id))
    /\ UNCHANGED <<collections, processes, cache>>

(***************************************************************************)
(* AlterField.  The old row is read before the transaction and decides      *)
(* which statements it runs.  UpdateFieldTx does not look at the number of  *)
(* rows it changed.                                                         *)
(***************************************************************************)
BeginAlterField(c) ==
    \E old \in fields, chg \in Changes :
        /\ byID[old.coll] # Absent
        /\ AllowedChange(old.type, chg.type)
        /\ Begin(c, "alter_field",
                 [old |-> old, slug |-> byID[old.coll].slug, changes |-> chg])

\* Mutant: attributes the request leaves out are written as well.
UpdateFieldRowBlind(id, chg) ==
    fields' = {IF f.id # id THEN f
               ELSE [f EXCEPT !.type = chg.type, !.required = chg.required]
               : f \in fields}

UpdateFieldRow(id, chg) ==
    fields' = {IF f.id # id THEN f ELSE
                 [f EXCEPT !.type = IF chg.type = Keep THEN @ ELSE chg.type,
                           !.required = IF chg.required = Keep THEN @ ELSE chg.required]
               : f \in fields}

AlterFieldTx(c) ==
    /\ InTx(c, "alter_field")
    /\ LET a   == Args(c)
           ddl == GenerateAlterColumn(a.slug, a.old, a.changes)
       IN  /\ UpdateFieldRow(a.old.id, a.changes)
           /\ CanExec(db, ddl.up)
           /\ db' = Exec(db, ddl.up)
           /\ Record(a.old.coll, "alter_field", a.old, ddl.down)
           /\ Goto(c, ReloadCollection(a.old.coll))
    /\ UNCHANGED <<collections, processes, issued, cache>>

(***************************************************************************)
(* DropField.                                                              *)
(***************************************************************************)
BeginDropField(c) ==
    \E f \in fields :
        /\ byID[f.coll] # Absent
        /\ Begin(c, "drop_field", [field |-> f, slug |-> byID[f.coll].slug])

\* Mutant: RowsAffected is not checked.
DeleteFieldRowUnchecked(id) == fields' = {f \in fields : f.id # id}

DeleteFieldRow(id) ==
    /\ \E f \in fields : f.id = id
    /\ fields' = {f \in fields : f.id # id}

DropFieldTx(c) ==
    /\ InTx(c, "drop_field")
    /\ LET a   == Args(c)
           ddl == GenerateDropColumn(a.slug, a.field)
       IN  /\ CanExec(db, ddl.up)
           /\ db' = Exec(db, ddl.up)
           /\ DeleteFieldRow(a.field.id)
           /\ Record(a.field.coll, "drop_field", a.field, ddl.down)
           /\ Goto(c, ReloadCollection(a.field.coll))
    /\ UNCHANGED <<collections, processes, issued, cache>>

(***************************************************************************)
(* SaveProcess.  Whether the process was enabled comes from the cache; the  *)
(* flag that is upserted comes from the request.                            *)
(***************************************************************************)
BeginSaveProcess(c) ==
    \E id \in Cached, enabled \in BOOLEAN :
        Begin(c, "save_process",
              [id |-> id, slug |-> byID[id].slug, enabled |-> enabled,
               wasEnabled |-> procCache[id] = TRUE])

SaveProcessTx(c) ==
    /\ InTx(c, "save_process")
    /\ LET a == Args(c) IN
         /\ References(a.id)
         /\ processes' = {p \in processes : p.coll # a.id}
                            \cup {[coll |-> a.id, enabled |-> a.enabled]}
         /\ IF a.wasEnabled = a.enabled
            THEN UNCHANGED <<db, migrations>>
            ELSE LET ddl == IF a.enabled THEN GenerateAddStatusColumn(a.slug)
                                         ELSE GenerateDropStatusColumn(a.slug)
                     op  == IF a.enabled THEN "enable_process" ELSE "disable_process"
                 IN  /\ CanExec(db, ddl.up)
                     /\ db' = Exec(db, ddl.up)
                     /\ Record(a.id, op, Absent, ddl.down)
         /\ Goto(c, ReloadProcess(a.id))
    /\ UNCHANGED <<collections, fields, issued, cache>>

(***************************************************************************)
(* Rollback.  The record is read and judged before the transaction; the     *)
(* transaction runs the stored down DDL and restores the metadata.          *)
(***************************************************************************)
BeginRollback(c) ==
    \E m \in 1..Len(migrations) :
        /\ ~migrations[m].rolledBack
        /\ migrations[m].down # NoDDL
        /\ Begin(c, "rollback", [mig |-> m])

\* INSERT INTO _meta.fields ... ON CONFLICT DO NOTHING, for several rows: a row
\* whose id or (collection, slug) is taken is skipped.
InsertedFields(fs) ==
    {f \in fs : \A g \in fields :
        /\ g.id # f.id
        /\ g.coll # f.coll \/ g.slug # f.slug}

InsertedCollection(col) ==
    {r \in {[id |-> col.id, slug |-> col.slug, label |-> col.label]} :
        \A q \in collections : q.id # r.id /\ q.slug # r.slug}

\* restoreMeta.  The process operations have no case in it.
RestoreMeta(m) ==
    CASE m.op = "create_collection" ->
            /\ \E r \in collections : r.id = m.coll
            /\ DeleteCollectionRow(m.coll)
      [] m.op = "add_field" ->
            /\ DeleteFieldRow(m.payload.id)
            /\ UNCHANGED <<collections, processes>>
      [] m.op = "alter_field" ->
            /\ UpdateFieldRow(m.payload.id,
                              [type |-> m.payload.type, required |-> m.payload.required])
            /\ UNCHANGED <<collections, processes>>
      [] m.op = "drop_field" ->
            LET new == InsertedFields({m.payload}) IN
            /\ \A f \in new : \E r \in collections : r.id = f.coll
            /\ fields' = fields \cup new
            /\ UNCHANGED <<collections, processes>>
      [] m.op = "drop_collection" ->
            LET new == InsertedFields(m.payload.fields) IN
            /\ collections' = collections \cup InsertedCollection(m.payload)
            /\ \A f \in new : \E r \in collections' : r.id = f.coll
            /\ fields' = fields \cup new
            /\ UNCHANGED processes
      [] OTHER -> UNCHANGED meta

RollbackTx(c) ==
    /\ InTx(c, "rollback")
    /\ LET i == Args(c).mig
           m == migrations[i]
       IN  /\ CanExec(db, m.down)
           /\ db' = Exec(db, m.down)
           /\ RestoreMeta(m)
           /\ migrations' = [migrations EXCEPT ![i].rolledBack = TRUE]
           /\ Goto(c, Load)
    /\ UNCHANGED <<issued, cache>>

(***************************************************************************)
(* Cache refresh.  Every read happens before the lock is taken.             *)
(***************************************************************************)
MapByID(cols) ==
    [id \in CollectionIds |-> IF \E s \in cols : s.id = id
                              THEN CHOOSE s \in cols : s.id = id ELSE Absent]
MapBySlug(cols) ==
    [slug \in Slugs |-> IF \E s \in cols : s.slug = slug
                        THEN CHOOSE s \in cols : s.slug = slug ELSE Absent]
MapProcesses(procs) ==
    [id \in CollectionIds |-> IF \E p \in procs : p.coll = id
                              THEN (CHOOSE p \in procs : p.coll = id).enabled
                              ELSE Absent]

\* store.GetCollection: the row, then (in a query of its own) the fields.
ReloadRead(c) ==
    /\ req[c].phase = "reload"
    /\ IF \E r \in collections : r.id = req[c].id
       THEN \E r \in collections : r.id = req[c].id /\ Goto(c, ReloadFields(r))
       ELSE Goto(c, Idle)
    /\ UNCHANGED <<meta, db, migrations, issued, cache>>

ReloadReadFields(c) ==
    /\ req[c].phase = "reload_fields"
    /\ Goto(c, Install(SnapshotOf(req[c].row, FieldsOf(req[c].row.id))))
    /\ UNCHANGED <<meta, db, migrations, issued, cache>>

\* ReloadCollection drops the old slug of a collection whose slug has changed.
SlugDropped(old, slug) ==
    IF old # Absent /\ old.slug # slug THEN [bySlug EXCEPT ![old.slug] = Absent]
    ELSE bySlug

InstallCollection(c) ==
    /\ req[c].phase = "install"
    /\ LET col == req[c].col IN
         /\ byID' = [byID EXCEPT ![col.id] = col]
         /\ bySlug' = [SlugDropped(byID[col.id], col.slug) EXCEPT ![col.slug] = col]
    /\ Goto(c, Idle)
    /\ UNCHANGED <<meta, db, migrations, issued, procCache>>

\* Mutant: the slug index keeps the removed collection.
RemoveByIDOnly(c) ==
    /\ req[c].phase = "remove"
    /\ byID' = [byID EXCEPT ![req[c].id] = Absent]
    /\ Goto(c, Idle)
    /\ UNCHANGED <<meta, db, migrations, issued, bySlug, procCache>>

\* cache.RemoveCollection leaves the process entry where it is.
RemoveFromCache(c) ==
    /\ req[c].phase = "remove"
    /\ LET id == req[c].id IN
         IF byID[id] = Absent
         THEN UNCHANGED <<byID, bySlug>>
         ELSE /\ byID' = [byID EXCEPT ![id] = Absent]
              /\ bySlug' = [bySlug EXCEPT ![byID[id].slug] = Absent]
    /\ Goto(c, Idle)
    /\ UNCHANGED <<meta, db, migrations, issued, procCache>>

ReadProcess(id) == {p \in processes : p.coll = id}

ReloadProcessRead(c) ==
    /\ req[c].phase = "reload_process"
    /\ Goto(c, InstallProcess(req[c].id, ReadProcess(req[c].id)))
    /\ UNCHANGED <<meta, db, migrations, issued, cache>>

\* Mutant: an existing entry is not replaced.
InstallProcessOnce(c) ==
    /\ req[c].phase = "install_process"
    /\ procCache' = IF procCache[req[c].id] # Absent THEN procCache
                    ELSE [procCache EXCEPT
                            ![req[c].id] = MapProcesses(req[c].proc)[req[c].id]]
    /\ Goto(c, Idle)
    /\ UNCHANGED <<meta, db, migrations, issued, byID, bySlug>>

InstallProcessEntry(c) ==
    /\ req[c].phase = "install_process"
    /\ procCache' = [procCache EXCEPT
                        ![req[c].id] = MapProcesses(req[c].proc)[req[c].id]]
    /\ Goto(c, Idle)
    /\ UNCHANGED <<meta, db, migrations, issued, byID, bySlug>>

\* cache.Load, one query at a time.
LoadCollections(c) ==
    /\ req[c].phase = "load"
    /\ Goto(c, LoadFields(collections, {}))
    /\ UNCHANGED <<meta, db, migrations, issued, cache>>

LoadFieldsOf(c) ==
    /\ req[c].phase = "load_fields"
    /\ LET q == req[c] IN
         IF q.todo = {}
         THEN Goto(c, LoadProcesses({s.id : s \in q.got}, q.got, {}))
         ELSE \E r \in q.todo :
                Goto(c, LoadFields(q.todo \ {r},
                                   q.got \cup {SnapshotOf(r, FieldsOf(r.id))}))
    /\ UNCHANGED <<meta, db, migrations, issued, cache>>

LoadProcessOf(c) ==
    /\ req[c].phase = "load_processes"
    /\ req[c].todo # {}
    /\ LET q == req[c] IN
         \E id \in q.todo :
            Goto(c, LoadProcesses(q.todo \ {id}, q.cols, q.procs \cup ReadProcess(id)))
    /\ UNCHANGED <<meta, db, migrations, issued, cache>>

\* Mutant: the process entries are left as they are.
LoadInstallIndexes(c) ==
    /\ req[c].phase = "load_processes"
    /\ req[c].todo = {}
    /\ byID' = MapByID(req[c].cols)
    /\ bySlug' = MapBySlug(req[c].cols)
    /\ Goto(c, Idle)
    /\ UNCHANGED <<meta, db, migrations, issued, procCache>>

LoadInstall(c) ==
    /\ req[c].phase = "load_processes"
    /\ req[c].todo = {}
    /\ byID' = MapByID(req[c].cols)
    /\ bySlug' = MapBySlug(req[c].cols)
    /\ procCache' = MapProcesses(req[c].procs)
    /\ Goto(c, Idle)
    /\ UNCHANGED <<meta, db, migrations, issued>>

\* A read of the refresh fails (the database is away, or the client has gone
\* and the request context is cancelled): the engine logs and returns success.
RefreshFails(c) ==
    /\ RefreshMayFail
    /\ req[c].phase \in {"reload", "reload_fields", "reload_process", "load",
                         "load_fields", "load_processes"}
    /\ Goto(c, Idle)
    /\ UNCHANGED <<meta, db, migrations, issued, cache>>

(***************************************************************************)
(* Restart: the process dies with its calls and its cache; main.go loads    *)
(* the cache before it serves.                                              *)
(***************************************************************************)
Restart ==
    /\ req' = [c \in Clients |-> Idle]
    /\ LET now == {SnapshotOf(r, FieldsOf(r.id)) : r \in collections} IN
         /\ byID' = MapByID(now)
         /\ bySlug' = MapBySlug(now)
    /\ procCache' = MapProcesses(processes)
    /\ UNCHANGED <<meta, db, migrations, issued>>

Init ==
    /\ collections = {} /\ fields = {} /\ processes = {}
    /\ db = EmptyDatabase
    /\ migrations = <<>>
    /\ issued = {}
    /\ byID = [id \in CollectionIds |-> Absent]
    /\ bySlug = [s \in Slugs |-> Absent]
    /\ procCache = [id \in CollectionIds |-> Absent]
    /\ req = [c \in Clients |-> Idle]

Preflight(c) ==
    \/ BeginCreateCollection(c)
    \/ BeginUpdateCollection(c)
    \/ BeginDropCollection(c)
    \/ BeginAddField(c)
    \/ BeginAlterField(c)
    \/ BeginDropField(c)
    \/ BeginSaveProcess(c)
    \/ BeginRollback(c)

Transaction(c) ==
    \/ CreateCollectionTx(c)
    \/ UpdateCollectionTx(c)
    \/ DropCollectionTx(c)
    \/ AddFieldTx(c)
    \/ AlterFieldTx(c)
    \/ DropFieldTx(c)
    \/ SaveProcessTx(c)
    \/ RollbackTx(c)

Refresh(c) ==
    \/ ReloadRead(c)
    \/ ReloadReadFields(c)
    \/ InstallCollection(c)
    \/ RemoveFromCache(c)
    \/ ReloadProcessRead(c)
    \/ InstallProcessEntry(c)
    \/ LoadCollections(c)
    \/ LoadFieldsOf(c)
    \/ LoadProcessOf(c)
    \/ LoadInstall(c)

Next ==
    \/ \E c \in Clients : Preflight(c)
    \/ \E c \in Clients : Transaction(c)
    \/ \E c \in Clients : TxAborts(c)
    \/ \E c \in Clients : Refresh(c)
    \/ \E c \in Clients : RefreshFails(c)
    \/ Restart

Spec == Init /\ [][Next]_vars

(***************************************************************************)
(* Types.                                                                  *)
(***************************************************************************)
Recorded(ops, payloads) ==
    [coll : CollectionIds, op : ops, payload : payloads, down : Statement,
     rolledBack : BOOLEAN]

MigrationRow ==
    Recorded({"create_collection", "drop_collection"}, Snapshot)
      \cup Recorded({"add_field", "alter_field", "drop_field"}, Field)
      \cup Recorded({"update_collection_meta", "enable_process", "disable_process"},
                    {Absent})

TxRequest(op, args) == [phase : {"tx"}, op : {op}, args : args]

Request ==
    {Idle, Load}
      \cup TxRequest("create_collection",
                [slug : Slugs, label : Labels, drafts : SUBSET Drafts])
      \cup TxRequest("update_collection",
                [id : CollectionIds, label : Labels \cup {Keep}])
      \cup TxRequest("drop_collection", [col : Snapshot])
      \cup TxRequest("add_field", [id : CollectionIds, slug : Slugs, draft : Drafts])
      \cup {r \in TxRequest("alter_field",
                            [old : Field, slug : Slugs, changes : Changes]) :
                AllowedChange(r.args.old.type, r.args.changes.type)}
      \cup TxRequest("drop_field", [field : Field, slug : Slugs])
      \cup TxRequest("save_process", [id : CollectionIds, slug : Slugs,
                                     enabled : BOOLEAN, wasEnabled : BOOLEAN])
      \cup TxRequest("rollback", [mig : Nat])
      \cup [phase : {"reload", "remove", "reload_process"}, id : CollectionIds]
      \cup [phase : {"reload_fields"}, row : CollectionRow]
      \cup [phase : {"install"}, col : Snapshot]
      \cup [phase : {"install_process"}, id : CollectionIds, proc : SUBSET ProcessRow]
      \cup [phase : {"load_fields"}, todo : SUBSET CollectionRow, got : SUBSET Snapshot]
      \cup [phase : {"load_processes"}, todo : SUBSET CollectionIds,
            cols : SUBSET Snapshot, procs : SUBSET ProcessRow]

\* Type invariant of the engine, the store, the history and the cache.
TypeOK ==
    /\ collections \subseteq CollectionRow
    /\ fields \subseteq Field
    /\ processes \subseteq ProcessRow
    /\ db \in Database
    /\ migrations \in Seq(MigrationRow)
    /\ issued \subseteq CollectionIds \cup FieldIds
    /\ byID \in [CollectionIds -> Snapshot \cup {Absent}]
    /\ bySlug \in [Slugs -> Snapshot \cup {Absent}]
    /\ procCache \in [CollectionIds -> BOOLEAN \cup {Absent}]
    /\ req \in [Clients -> Request]

(***************************************************************************)
(* Safety.                                                                 *)
(***************************************************************************)
StoredFieldSlugs(id) ==
    {f.slug : f \in {g \in FieldsOf(id) : g.type \notin NoColumnTypes}}
UserColumns(t) == {c.slug : c \in ColumnsOf(db, t)} \ {StatusSlug}

\* The metadata keys the database enforces and the engine relies on, and the
\* point of running metadata and DDL in one transaction (engine.go, "either
\* the full schema change succeeds, or nothing changes"): the data tables are
\* exactly the collections, and the columns of each table are exactly the
\* collection's stored fields, whatever stale preflight the calls used.
MetaMatchesTables ==
    /\ db.tables = {r.slug : r \in collections}
    /\ \A r \in collections : UserColumns(r.slug) = StoredFieldSlugs(r.id)
    /\ \A q, r \in collections : q.id = r.id \/ q.slug = r.slug => q = r
    /\ \A f, g \in fields : f.id = g.id \/ (f.coll = g.coll /\ f.slug = g.slug)
                               => f = g

\* The column holds what the field row announces: its type, and NOT NULL when
\* the field is required.  Only a column that numbers its rows itself may have
\* NOT NULL without being required.
Announces(f, c) ==
    /\ c.type = f.type
    /\ f.required => c.notNull
    /\ c.notNull => f.required \/ f.type \in Autonumber

\* A rollback restores less than it reverses: of an alteration only what that
\* one changed, of a process nothing but the column.
Unreversed == \A i \in 1..Len(migrations) : ~migrations[i].rolledBack

\* The column of a stored field is the one the field row announces after any
\* sequence of calls, conversions and changes of is_required included, until
\* a migration is rolled back (CreateCollection, AddField, AlterField).
ColumnTypesMatch ==
    Unreversed =>
    \A r \in collections : \A f \in FieldsOf(r.id) : \A c \in ColumnsOf(db, r.slug) :
        f.type \notin NoColumnTypes /\ c.slug = f.slug => Announces(f, c)

\* SaveProcess manages the _status column: a collection's table has it exactly
\* when the process is enabled, until a migration is rolled back.
StatusColumnMatches ==
    Unreversed => \A r \in collections :
        HasColumn(db, r.slug, StatusSlug)
            <=> [coll |-> r.id, enabled |-> TRUE] \in processes

\* The cache's slug index never answers with a collection its id index does
\* not hold in the same version, although refreshes, removals and full loads
\* of several calls overlap (Cache.byID, Cache.bySlug).
SlugIndexSound ==
    \A s \in Slugs : bySlug[s] # Absent =>
        /\ bySlug[s].slug = s
        /\ byID[bySlug[s].id] = bySlug[s]

Quiescent == \A c \in Clients : req[c] = Idle

\* With no call under way the cache is the committed metadata: what the
\* engine's "cache invalidation after successful mutations" is there for.
CacheFresh ==
    Quiescent =>
        LET now == {SnapshotOf(r, FieldsOf(r.id)) : r \in collections} IN
        /\ byID = MapByID(now)
        /\ bySlug = MapBySlug(now)
        /\ \A r \in collections : procCache[r.id] = MapProcesses(processes)[r.id]

\* The engine implements the atomic catalog: whatever calls overlap, each step
\* changes one collection's metadata and the same table's columns together.
Catalog == INSTANCE SchemaCatalog WITH
    Ids <- CollectionIds, Names <- Slugs, Columns <- FieldSlugs,
    apps <- {[id |-> r.id, slug |-> r.slug, columns |-> StoredFieldSlugs(r.id)]
                : r \in collections},
    tables <- {[slug |-> t, columns |-> UserColumns(t)] : t \in db.tables}
ImplementsCatalog == Catalog!Spec

\* Every change of a data table is in the history: the step that makes it
\* adds a record or turns one record from applied to rolled back.
SchemaChangesRecorded ==
    [][db' # db =>
        \/ Len(migrations') = Len(migrations) + 1
        \/ \E i \in 1..Len(migrations) :
              ~migrations[i].rolledBack /\ migrations'[i].rolledBack]_vars

=============================================================================
