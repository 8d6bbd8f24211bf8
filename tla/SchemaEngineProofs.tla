------------------------- MODULE SchemaEngineProofs --------------------------
(***************************************************************************)
(* Theorems about the migration engine and the schema cache, for any sets   *)
(* of callers, identities, slugs and field types, and any history bound.    *)
(***************************************************************************)
EXTENDS SchemaEngine, TLAPS

-----------------------------------------------------------------------------
(* The DDL statements and their effect on the data schema *)

\* A field with a column has one of the data types, so its definition is a
\* column definition (columnDefWithTable).
LEMMA StoredDefsType ==
    ASSUME NEW fs,
           \A f \in fs : /\ f.slug \in FieldSlugs
                         /\ f.type \in FieldTypes
                         /\ f.required \in BOOLEAN
    PROVE  StoredDefs(fs) \in SUBSET ColumnDef
  <1>1. ASSUME NEW f \in fs, f.type \notin NoColumnTypes
        PROVE  DefOf(f) \in ColumnDef
    BY <1>1 DEF DefOf, ColumnDef, FieldTypes
  <1> QED BY <1>1 DEF StoredDefs

\* Every generated CREATE TABLE and its inverse are statements of the schema.
LEMMA CreateTableType ==
    ASSUME NEW t \in Slugs, NEW fs, StoredDefs(fs) \in SUBSET ColumnDef
    PROVE  /\ GenerateCreateTable(t, fs).up \in Statement
           /\ GenerateCreateTable(t, fs).down \in Statement
  BY DEF GenerateCreateTable, CreateTable, DropTable, Statement

\* So are ADD COLUMN and DROP COLUMN of a field, in both directions.
LEMMA ColumnStatementsType ==
    ASSUME NEW t \in Slugs, NEW f,
           f.slug \in FieldSlugs, f.type \in FieldTypes, f.required \in BOOLEAN
    PROVE  /\ GenerateAddColumn(t, f).up \in Statement
           /\ GenerateAddColumn(t, f).down \in Statement
           /\ GenerateDropColumn(t, f).up \in Statement
           /\ GenerateDropColumn(t, f).down \in Statement
  <1>1. CASE f.type \in NoColumnTypes
    BY <1>1 DEF GenerateAddColumn, GenerateDropColumn, Statement
  <1>2. CASE f.type \notin NoColumnTypes
    <2>1. /\ DefOf(f) \in ColumnDef
          /\ [slug |-> f.slug, type |-> f.type, notNull |-> FALSE] \in ColumnDef
      BY <1>2 DEF DefOf, ColumnDef, FieldTypes
    <2> QED
      BY <1>2, <2>1 DEF GenerateAddColumn, GenerateDropColumn, Statement,
                        AddColumn, DropColumn
  <1> QED BY <1>1, <1>2

\* ALTER COLUMN of an allowed change mentions data types only: a change between
\* column-backed and column-less types never gets here (CheckCompat).
LEMMA AlterStatementsType ==
    ASSUME NEW t \in Slugs, NEW old, NEW chg,
           old.slug \in FieldSlugs, old.required \in BOOLEAN,
           chg.required \in BOOLEAN \cup {Keep},
           AllowedChange(old.type, chg.type)
    PROVE  /\ GenerateAlterColumn(t, old, chg).up \in Statement
           /\ GenerateAlterColumn(t, old, chg).down \in Statement
  <1>1. chg.type \notin {Keep, old.type} => chg.type \in DataTypes /\ old.type \in DataTypes
    BY TypesAssumption DEF AllowedChange
  <1> QED
    BY <1>1 DEF GenerateAlterColumn, AlterColumn, Statement

\* Adding and dropping the _status column are statements of the schema.
LEMMA StatusStatementsType ==
    ASSUME NEW t \in Slugs
    PROVE  /\ GenerateAddStatusColumn(t).up \in Statement
           /\ GenerateAddStatusColumn(t).down \in Statement
           /\ GenerateDropStatusColumn(t).up \in Statement
           /\ GenerateDropStatusColumn(t).down \in Statement
  BY DEF GenerateAddStatusColumn, GenerateDropStatusColumn, StatusDef, ColumnDef,
         Statement, AddColumn, DropColumn

\* Executing a statement yields a schema again.
LEMMA ExecType ==
    ASSUME NEW d \in Database, NEW s \in Statement
    PROVE  Exec(d, s) \in Database
  <1>1. CASE s.kind = "none"
    BY <1>1 DEF Exec
  <1>2. CASE s.kind = "create_table"
    BY <1>2 DEF Exec, Statement, Database, Column, ColumnDef, ColumnIn, NoDDL
  <1>3. CASE s.kind = "drop_table"
    BY <1>3 DEF Exec, Statement, Database, Column, NoDDL
  <1>4. CASE s.kind = "add_column"
    BY <1>4 DEF Exec, Statement, Database, Column, ColumnDef, ColumnIn, NoDDL
  <1>5. CASE s.kind = "drop_column"
    BY <1>5 DEF Exec, Statement, Database, Column, NoDDL
  <1>6. CASE s.kind = "alter_column"
    <2>1. s.type \in DataTypes \cup {Keep} /\ s.notNull \in BOOLEAN \cup {Keep}
      BY <1>6 DEF Statement, NoDDL
    <2>2. \A c \in d.columns : Altered(c, s) \in Column
      BY <2>1 DEF Altered, Column, Database
    <2> QED
      BY <1>6, <2>2 DEF Exec, Database
  <1>7. s.kind \in {"none", "create_table", "drop_table", "add_column",
                    "drop_column", "alter_column"}
    BY DEF Statement, NoDDL
  <1> QED BY <1>1, <1>2, <1>3, <1>4, <1>5, <1>6, <1>7

-----------------------------------------------------------------------------
(***************************************************************************)
(* Requests: what a request in a given phase carries, and what may be       *)
(* stored as a request.                                                     *)
(***************************************************************************)
\* The arguments of a call that is about to run its transaction.
LEMMA TxArgs ==
    ASSUME NEW r \in Request, r.phase = "tx"
    PROVE  /\ r.op = "create_collection" =>
                r.args \in [slug : Slugs, label : Labels, drafts : SUBSET Drafts]
           /\ r.op = "update_collection" =>
                r.args \in [id : CollectionIds, label : Labels \cup {Keep}]
           /\ r.op = "drop_collection" => r.args \in [col : Snapshot]
           /\ r.op = "add_field" =>
                r.args \in [id : CollectionIds, slug : Slugs, draft : Drafts]
           /\ r.op = "alter_field" =>
                /\ r.args \in [old : Field, slug : Slugs, changes : Changes]
                /\ AllowedChange(r.args.old.type, r.args.changes.type)
           /\ r.op = "drop_field" => r.args \in [field : Field, slug : Slugs]
           /\ r.op = "save_process" =>
                r.args \in [id : CollectionIds, slug : Slugs,
                            enabled : BOOLEAN, wasEnabled : BOOLEAN]
           /\ r.op = "rollback" => r.args \in [mig : Nat]
  BY DEF Request, Idle, Load, TxRequest

\* The locals of a cache refresh between its reads and its installation.
LEMMA RefreshLocals ==
    ASSUME NEW r \in Request
    PROVE  /\ r.phase \in {"reload", "remove", "reload_process"} =>
                r.id \in CollectionIds
           /\ r.phase = "reload_fields" => r.row \in CollectionRow
           /\ r.phase = "install" => r.col \in Snapshot
           /\ r.phase = "install_process" =>
                r.id \in CollectionIds /\ r.proc \in SUBSET ProcessRow
           /\ r.phase = "load_fields" =>
                r.todo \in SUBSET CollectionRow /\ r.got \in SUBSET Snapshot
           /\ r.phase = "load_processes" =>
                /\ r.todo \in SUBSET CollectionIds
                /\ r.cols \in SUBSET Snapshot
                /\ r.procs \in SUBSET ProcessRow
  BY DEF Request, Idle, Load, TxRequest

\* The requests that follow a transaction are requests.
LEMMA NextRequests ==
    /\ Idle \in Request
    /\ Load \in Request
    /\ \A id \in CollectionIds :
        /\ ReloadCollection(id) \in Request
        /\ RemoveCollection(id) \in Request
        /\ ReloadProcess(id) \in Request
  BY DEF Request, Idle, Load, ReloadCollection, RemoveCollection, ReloadProcess

\* A client's new request keeps the table of requests well typed.
LEMMA GotoType ==
    ASSUME req \in [Clients -> Request], NEW c \in Clients, NEW r \in Request,
           Goto(c, r)
    PROVE  req' \in [Clients -> Request]
  BY DEF Goto

(***************************************************************************)
(* Type correctness.  A rollback also needs its record to exist, so the     *)
(* inductive invariant says that too.                                       *)
(***************************************************************************)
RollbackNamesRecord ==
    \A c \in Clients : InTx(c, "rollback") => Args(c).mig \in 1..Len(migrations)

TypeInv == TypeOK /\ RollbackNamesRecord

\* A new row of the history is well typed and leaves the older rows in place.
LEMMA RecordType ==
    ASSUME migrations \in Seq(MigrationRow),
           NEW coll, NEW op, NEW payload, NEW down,
           [coll |-> coll, op |-> op, payload |-> payload, down |-> down,
            rolledBack |-> FALSE] \in MigrationRow,
           Record(coll, op, payload, down)
    PROVE  /\ migrations' \in Seq(MigrationRow)
           /\ Len(migrations') = Len(migrations) + 1
  BY DEF Record

\* Rows of the history by their operation.
LEMMA RecordedTypes ==
    ASSUME NEW m \in MigrationRow
    PROVE  /\ m.coll \in CollectionIds
           /\ m.down \in Statement
           /\ m.op \in {"create_collection", "drop_collection"} => m.payload \in Snapshot
           /\ m.op \in {"add_field", "alter_field", "drop_field"} => m.payload \in Field
  BY DEF MigrationRow, Recorded

\* The fields of a snapshot and of the store have what the generators need.
LEMMA FieldDefs ==
    ASSUME NEW fs \in SUBSET Field
    PROVE  StoredDefs(fs) \in SUBSET ColumnDef
  <1>1. \A f \in fs : f.slug \in FieldSlugs /\ f.type \in FieldTypes /\ f.required \in BOOLEAN
    BY DEF Field
  <1> QED BY <1>1, StoredDefsType

\* Preflights: only the table of requests changes.
LEMMA BeginType ==
    ASSUME TypeInv, NEW c \in Clients, NEW op, NEW args,
           Begin(c, op, args), Tx(op, args) \in Request,
           op = "rollback" => args.mig \in 1..Len(migrations)
    PROVE  TypeInv'
  <1>1. TypeOK'
    BY DEF TypeInv, TypeOK, Begin, meta, cache
  <1>2. RollbackNamesRecord'
    BY DEF TypeInv, TypeOK, RollbackNamesRecord, InTx, Args, Begin, Tx
  <1> QED BY <1>1, <1>2 DEF TypeInv

LEMMA PreflightType ==
    ASSUME TypeInv, NEW c \in Clients, Preflight(c)
    PROVE  TypeInv'
  <1> USE DEF TypeInv, TypeOK
  <1>1. CASE BeginCreateCollection(c)
    <2>1. PICK s \in Slugs, l \in Labels, ds \in SUBSET Drafts :
             Begin(c, "create_collection", [slug |-> s, label |-> l, drafts |-> ds])
      BY <1>1 DEF BeginCreateCollection
    <2>2. Tx("create_collection", [slug |-> s, label |-> l, drafts |-> ds]) \in Request
      BY DEF Tx, TxRequest, Request
    <2> QED BY <2>1, <2>2, BeginType
  <1>2. CASE BeginUpdateCollection(c)
    <2>1. PICK r \in collections, l \in Labels \cup {Keep} :
             Begin(c, "update_collection", [id |-> r.id, label |-> l])
      BY <1>2 DEF BeginUpdateCollection
    <2>2. Tx("update_collection", [id |-> r.id, label |-> l]) \in Request
      BY DEF Tx, TxRequest, Request, CollectionRow
    <2> QED BY <2>1, <2>2, BeginType
  <1>3. CASE BeginDropCollection(c)
    <2>1. PICK id \in Cached : Begin(c, "drop_collection", [col |-> byID[id]])
      BY <1>3 DEF BeginDropCollection
    <2>2. Tx("drop_collection", [col |-> byID[id]]) \in Request
      BY DEF Tx, TxRequest, Request, Cached
    <2> QED BY <2>1, <2>2, BeginType
  <1>4. CASE BeginAddField(c)
    <2>1. PICK id \in Cached, d \in Drafts :
             Begin(c, "add_field", [id |-> id, slug |-> byID[id].slug, draft |-> d])
      BY <1>4 DEF BeginAddField
    <2>2. byID[id].slug \in Slugs /\ id \in CollectionIds
      BY DEF Cached, Snapshot
    <2>3. Tx("add_field", [id |-> id, slug |-> byID[id].slug, draft |-> d]) \in Request
      BY <2>2 DEF Tx, TxRequest, Request
    <2> QED BY <2>1, <2>3, BeginType
  <1>5. CASE BeginAlterField(c)
    <2>1. PICK old \in fields, chg \in Changes :
             /\ byID[old.coll] # Absent
             /\ AllowedChange(old.type, chg.type)
             /\ Begin(c, "alter_field",
                      [old |-> old, slug |-> byID[old.coll].slug, changes |-> chg])
      BY <1>5 DEF BeginAlterField
    <2>2. byID[old.coll].slug \in Slugs
      BY <2>1 DEF Snapshot, Field
    <2>3. Tx("alter_field", [old |-> old, slug |-> byID[old.coll].slug,
                             changes |-> chg]) \in Request
      BY <2>1, <2>2 DEF Tx, TxRequest, Request
    <2> QED BY <2>1, <2>3, BeginType
  <1>6. CASE BeginDropField(c)
    <2>1. PICK f \in fields :
             /\ byID[f.coll] # Absent
             /\ Begin(c, "drop_field", [field |-> f, slug |-> byID[f.coll].slug])
      BY <1>6 DEF BeginDropField
    <2>2. byID[f.coll].slug \in Slugs
      BY <2>1 DEF Snapshot, Field
    <2>3. Tx("drop_field", [field |-> f, slug |-> byID[f.coll].slug]) \in Request
      BY <2>2 DEF Tx, TxRequest, Request
    <2> QED BY <2>1, <2>3, BeginType
  <1>7. CASE BeginSaveProcess(c)
    <2>1. PICK id \in Cached, enabled \in BOOLEAN :
             Begin(c, "save_process",
                   [id |-> id, slug |-> byID[id].slug, enabled |-> enabled,
                    wasEnabled |-> procCache[id] = TRUE])
      BY <1>7 DEF BeginSaveProcess
    <2>2. byID[id].slug \in Slugs /\ id \in CollectionIds
      BY DEF Cached, Snapshot
    <2>3. Tx("save_process",
             [id |-> id, slug |-> byID[id].slug, enabled |-> enabled,
              wasEnabled |-> procCache[id] = TRUE]) \in Request
      BY <2>2 DEF Tx, TxRequest, Request
    <2> QED BY <2>1, <2>3, BeginType
  <1>8. CASE BeginRollback(c)
    <2>1. PICK m \in 1..Len(migrations) : Begin(c, "rollback", [mig |-> m])
      BY <1>8 DEF BeginRollback
    <2>2. Tx("rollback", [mig |-> m]) \in Request
      BY DEF Tx, TxRequest, Request
    <2> QED BY <2>1, <2>2, BeginType
  <1> QED
    BY <1>1, <1>2, <1>3, <1>4, <1>5, <1>6, <1>7, <1>8 DEF Preflight

\* What a transaction leaves behind is well typed when each part is.
LEMMA TransactionType ==
    ASSUME TypeInv, NEW c \in Clients, NEW r \in Request, Goto(c, r),
           r.phase # "tx",
           collections' \in SUBSET CollectionRow,
           fields' \in SUBSET Field,
           processes' \in SUBSET ProcessRow,
           db' \in Database,
           migrations' \in Seq(MigrationRow),
           Len(migrations') >= Len(migrations),
           issued' \in SUBSET (CollectionIds \cup FieldIds),
           UNCHANGED cache
    PROVE  TypeInv'
  <1>1. req' \in [Clients -> Request]
    BY GotoType DEF TypeInv, TypeOK
  <1>2. TypeOK'
    BY <1>1 DEF TypeInv, TypeOK, cache
  <1>3. RollbackNamesRecord'
    <2> SUFFICES ASSUME NEW d \in Clients, InTx(d, "rollback")'
                 PROVE  Args(d)'.mig \in 1..Len(migrations')
      BY DEF RollbackNamesRecord
    <2>1. d # c
      BY DEF InTx, Goto, TypeInv, TypeOK
    <2>2. InTx(d, "rollback") /\ Args(d)' = Args(d)
      BY <2>1 DEF InTx, Args, Goto, TypeInv, TypeOK
    <2>3. Args(d).mig \in 1..Len(migrations)
      BY <2>2 DEF TypeInv, RollbackNamesRecord
    <2>4. Len(migrations) \in Nat /\ Len(migrations') \in Nat
      BY DEF TypeInv, TypeOK
    <2> QED BY <2>2, <2>3, <2>4
  <1> QED BY <1>2, <1>3 DEF TypeInv

LEMMA CreateCollectionTxType ==
    ASSUME TypeInv, NEW c \in Clients, CreateCollectionTx(c)
    PROVE  TypeInv'
  <1> DEFINE a == Args(c)
  <1>1. a \in [slug : Slugs, label : Labels, drafts : SUBSET Drafts]
    BY TxArgs DEF CreateCollectionTx, InTx, Args, TypeInv, TypeOK
  <1>2. PICK id \in CollectionIds \ issued,
             fid \in [a.drafts -> FieldIds \ issued] :
          LET row == [id |-> id, slug |-> a.slug, label |-> a.label]
              fs  == {NewField(fid[d], id, d) : d \in a.drafts}
              ddl == GenerateCreateTable(a.slug, fs)
          IN  /\ collections' = collections \cup {row}
              /\ fields' = fields \cup fs
              /\ db' = Exec(db, ddl.up)
              /\ issued' = issued \cup {id} \cup {fid[d] : d \in a.drafts}
              /\ Record(id, "create_collection", SnapshotOf(row, fs), ddl.down)
              /\ Goto(c, ReloadCollection(id))
    BY DEF CreateCollectionTx
  <1> DEFINE row == [id |-> id, slug |-> a.slug, label |-> a.label]
             fs  == {NewField(fid[d], id, d) : d \in a.drafts}
             ddl == GenerateCreateTable(a.slug, fs)
  <1>3. row \in CollectionRow
    BY <1>1 DEF CollectionRow
  <1>4. fs \in SUBSET Field
    BY <1>1 DEF NewField, Field, Drafts, Draft
  <1>5. ddl.up \in Statement /\ ddl.down \in Statement
    BY <1>1, <1>4, FieldDefs, CreateTableType
  <1>6. db' \in Database
    BY <1>2, <1>5, ExecType DEF TypeInv, TypeOK
  <1>7. SnapshotOf(row, fs) \in Snapshot
    BY <1>1, <1>4 DEF SnapshotOf, Snapshot
  <1>8. migrations' \in Seq(MigrationRow) /\ Len(migrations') = Len(migrations) + 1
    <2>1. [coll |-> id, op |-> "create_collection", payload |-> SnapshotOf(row, fs),
           down |-> ddl.down, rolledBack |-> FALSE] \in MigrationRow
      BY <1>5, <1>7 DEF MigrationRow, Recorded
    <2> QED BY <1>2, <2>1, RecordType DEF TypeInv, TypeOK
  <1>9. issued' \in SUBSET (CollectionIds \cup FieldIds)
    BY <1>2 DEF TypeInv, TypeOK
  <1>10. ReloadCollection(id) \in Request /\ ReloadCollection(id).phase # "tx"
    BY NextRequests DEF ReloadCollection
  <1>11. collections' \in SUBSET CollectionRow /\ fields' \in SUBSET Field
    BY <1>2, <1>3, <1>4 DEF TypeInv, TypeOK
  <1>12. processes' \in SUBSET ProcessRow /\ UNCHANGED cache
    BY DEF CreateCollectionTx, TypeInv, TypeOK
  <1>13. Len(migrations) \in Nat
    BY DEF TypeInv, TypeOK
  <1> QED
    BY <1>2, <1>6, <1>8, <1>9, <1>10, <1>11, <1>12, <1>13, TransactionType

LEMMA UpdateCollectionTxType ==
    ASSUME TypeInv, NEW c \in Clients, UpdateCollectionTx(c)
    PROVE  TypeInv'
  <1> DEFINE a == Args(c)
  <1>1. a \in [id : CollectionIds, label : Labels \cup {Keep}]
    BY TxArgs DEF UpdateCollectionTx, InTx, Args, TypeInv, TypeOK
  <1>2. collections' \in SUBSET CollectionRow
    BY ZenonT(40), <1>1 DEF UpdateCollectionTx, CollectionRow, TypeInv, TypeOK
  <1>3. migrations' \in Seq(MigrationRow) /\ Len(migrations') = Len(migrations) + 1
    <2>1. [coll |-> a.id, op |-> "update_collection_meta", payload |-> Absent,
           down |-> NoDDL, rolledBack |-> FALSE] \in MigrationRow
      BY <1>1 DEF MigrationRow, Recorded, Statement
    <2>2. Record(a.id, "update_collection_meta", Absent, NoDDL)
      BY DEF UpdateCollectionTx
    <2> QED BY <2>1, <2>2, RecordType DEF TypeInv, TypeOK
  <1>4. /\ Goto(c, ReloadCollection(a.id))
        /\ ReloadCollection(a.id) \in Request
        /\ ReloadCollection(a.id).phase # "tx"
    BY <1>1, NextRequests DEF UpdateCollectionTx, ReloadCollection
  <1>5. /\ fields' \in SUBSET Field /\ processes' \in SUBSET ProcessRow
        /\ db' \in Database /\ issued' \in SUBSET (CollectionIds \cup FieldIds)
        /\ UNCHANGED cache /\ Len(migrations) \in Nat
    BY DEF UpdateCollectionTx, TypeInv, TypeOK
  <1> QED BY <1>2, <1>3, <1>4, <1>5, TransactionType

LEMMA DeleteCollectionRowType ==
    ASSUME TypeOK, NEW id, DeleteCollectionRow(id)
    PROVE  /\ collections' \in SUBSET CollectionRow
           /\ fields' \in SUBSET Field
           /\ processes' \in SUBSET ProcessRow
  BY DEF TypeOK, DeleteCollectionRow

LEMMA DropCollectionTxType ==
    ASSUME TypeInv, NEW c \in Clients, DropCollectionTx(c)
    PROVE  TypeInv'
  <1> DEFINE col == Args(c).col
  <1>1. col \in Snapshot
    BY TxArgs DEF DropCollectionTx, InTx, Args, TypeInv, TypeOK
  <1>2. col.id \in CollectionIds /\ col.slug \in Slugs /\ col.fields \in SUBSET Field
    BY <1>1 DEF Snapshot
  <1>3. /\ DropTable(col.slug) \in Statement
        /\ GenerateCreateTable(col.slug, col.fields).up \in Statement
    BY <1>2, FieldDefs, CreateTableType DEF GenerateCreateTable
  <1>4. db' \in Database
    BY <1>3, ExecType DEF DropCollectionTx, TypeInv, TypeOK
  <1>5. migrations' \in Seq(MigrationRow) /\ Len(migrations') = Len(migrations) + 1
    <2>1. [coll |-> col.id, op |-> "drop_collection", payload |-> col,
           down |-> GenerateCreateTable(col.slug, col.fields).up,
           rolledBack |-> FALSE] \in MigrationRow
      BY <1>1, <1>2, <1>3 DEF MigrationRow, Recorded
    <2>2. Record(col.id, "drop_collection", col,
                 GenerateCreateTable(col.slug, col.fields).up)
      BY DEF DropCollectionTx
    <2> QED BY <2>1, <2>2, RecordType DEF TypeInv, TypeOK
  <1>6. /\ Goto(c, RemoveCollection(col.id))
        /\ RemoveCollection(col.id) \in Request
        /\ RemoveCollection(col.id).phase # "tx"
    BY <1>2, NextRequests DEF DropCollectionTx, RemoveCollection
  <1>7. DeleteCollectionRow(col.id)
    BY DEF DropCollectionTx
  <1>8. /\ issued' \in SUBSET (CollectionIds \cup FieldIds)
        /\ UNCHANGED cache /\ Len(migrations) \in Nat
    BY DEF DropCollectionTx, TypeInv, TypeOK
  <1> QED
    BY <1>4, <1>5, <1>6, <1>7, <1>8, DeleteCollectionRowType, TransactionType
    DEF TypeInv

LEMMA AddFieldTxType ==
    ASSUME TypeInv, NEW c \in Clients, AddFieldTx(c)
    PROVE  TypeInv'
  <1> DEFINE a == Args(c)
  <1>1. a \in [id : CollectionIds, slug : Slugs, draft : Drafts]
    BY TxArgs DEF AddFieldTx, InTx, Args, TypeInv, TypeOK
  <1>2. PICK fid \in FieldIds \ issued :
          LET f   == NewField(fid, a.id, a.draft)
              ddl == GenerateAddColumn(a.slug, f)
          IN  /\ fields' = fields \cup {f}
              /\ db' = Exec(db, ddl.up)
              /\ issued' = issued \cup {fid}
              /\ Record(a.id, "add_field", f, ddl.down)
              /\ Goto(c, ReloadCollection(a.id))
    BY DEF AddFieldTx
  <1> DEFINE f   == NewField(fid, a.id, a.draft)
             ddl == GenerateAddColumn(a.slug, f)
  <1>3. f \in Field
    BY <1>1 DEF NewField, Field, Drafts, Draft
  <1>4. ddl.up \in Statement /\ ddl.down \in Statement
    BY <1>1, <1>3, ColumnStatementsType DEF Field
  <1>5. db' \in Database
    BY <1>2, <1>4, ExecType DEF TypeInv, TypeOK
  <1>6. migrations' \in Seq(MigrationRow) /\ Len(migrations') = Len(migrations) + 1
    <2>1. [coll |-> a.id, op |-> "add_field", payload |-> f, down |-> ddl.down,
           rolledBack |-> FALSE] \in MigrationRow
      BY <1>1, <1>3, <1>4 DEF MigrationRow, Recorded
    <2> QED BY <1>2, <2>1, RecordType DEF TypeInv, TypeOK
  <1>7. fields' \in SUBSET Field /\ issued' \in SUBSET (CollectionIds \cup FieldIds)
    BY <1>2, <1>3 DEF TypeInv, TypeOK
  <1>8. ReloadCollection(a.id) \in Request /\ ReloadCollection(a.id).phase # "tx"
    BY <1>1, NextRequests DEF ReloadCollection
  <1>9. /\ collections' \in SUBSET CollectionRow /\ processes' \in SUBSET ProcessRow
        /\ UNCHANGED cache /\ Len(migrations) \in Nat
    BY DEF AddFieldTx, TypeInv, TypeOK
  <1> QED BY <1>2, <1>5, <1>6, <1>7, <1>8, <1>9, TransactionType

\* Writing the attributes a request carries keeps the field rows well typed.
LEMMA UpdateFieldRowType ==
    ASSUME fields \in SUBSET Field, NEW id, NEW chg,
           chg.type \in FieldTypes \cup {Keep}, chg.required \in BOOLEAN \cup {Keep},
           UpdateFieldRow(id, chg)
    PROVE  fields' \in SUBSET Field
  <1>1. \A f \in fields :
          [f EXCEPT !.type = IF chg.type = Keep THEN @ ELSE chg.type,
                    !.required = IF chg.required = Keep THEN @ ELSE chg.required]
            \in Field
    BY DEF Field
  <1> QED BY <1>1 DEF UpdateFieldRow

LEMMA AlterFieldTxType ==
    ASSUME TypeInv, NEW c \in Clients, AlterFieldTx(c)
    PROVE  TypeInv'
  <1> DEFINE a   == Args(c)
             ddl == GenerateAlterColumn(a.slug, a.old, a.changes)
  <1>1. /\ a \in [old : Field, slug : Slugs, changes : Changes]
        /\ AllowedChange(a.old.type, a.changes.type)
    BY TxArgs DEF AlterFieldTx, InTx, Args, TypeInv, TypeOK
  <1>2. ddl.up \in Statement /\ ddl.down \in Statement
    BY <1>1, AlterStatementsType DEF Field, Changes
  <1>3. db' \in Database
    BY <1>2, ExecType DEF AlterFieldTx, TypeInv, TypeOK
  <1>4. fields' \in SUBSET Field
    BY <1>1, UpdateFieldRowType DEF AlterFieldTx, Changes, TypeInv, TypeOK
  <1>5. migrations' \in Seq(MigrationRow) /\ Len(migrations') = Len(migrations) + 1
    <2>1. [coll |-> a.old.coll, op |-> "alter_field", payload |-> a.old,
           down |-> ddl.down, rolledBack |-> FALSE] \in MigrationRow
      BY <1>1, <1>2 DEF MigrationRow, Recorded, Field
    <2>2. Record(a.old.coll, "alter_field", a.old, ddl.down)
      BY DEF AlterFieldTx
    <2> QED BY <2>1, <2>2, RecordType DEF TypeInv, TypeOK
  <1>6. /\ Goto(c, ReloadCollection(a.old.coll))
        /\ ReloadCollection(a.old.coll) \in Request
        /\ ReloadCollection(a.old.coll).phase # "tx"
    BY <1>1, NextRequests DEF AlterFieldTx, ReloadCollection, Field
  <1>7. /\ collections' \in SUBSET CollectionRow /\ processes' \in SUBSET ProcessRow
        /\ issued' \in SUBSET (CollectionIds \cup FieldIds)
        /\ UNCHANGED cache /\ Len(migrations) \in Nat
    BY DEF AlterFieldTx, TypeInv, TypeOK
  <1> QED BY <1>3, <1>4, <1>5, <1>6, <1>7, TransactionType

LEMMA DropFieldTxType ==
    ASSUME TypeInv, NEW c \in Clients, DropFieldTx(c)
    PROVE  TypeInv'
  <1> DEFINE a   == Args(c)
             ddl == GenerateDropColumn(a.slug, a.field)
  <1>1. a \in [field : Field, slug : Slugs]
    BY TxArgs DEF DropFieldTx, InTx, Args, TypeInv, TypeOK
  <1>2. ddl.up \in Statement /\ ddl.down \in Statement
    BY <1>1, ColumnStatementsType DEF Field
  <1>3. db' \in Database
    BY <1>2, ExecType DEF DropFieldTx, TypeInv, TypeOK
  <1>4. migrations' \in Seq(MigrationRow) /\ Len(migrations') = Len(migrations) + 1
    <2>1. [coll |-> a.field.coll, op |-> "drop_field", payload |-> a.field,
           down |-> ddl.down, rolledBack |-> FALSE] \in MigrationRow
      BY <1>1, <1>2 DEF MigrationRow, Recorded, Field
    <2>2. Record(a.field.coll, "drop_field", a.field, ddl.down)
      BY DEF DropFieldTx
    <2> QED BY <2>1, <2>2, RecordType DEF TypeInv, TypeOK
  <1>5. /\ Goto(c, ReloadCollection(a.field.coll))
        /\ ReloadCollection(a.field.coll) \in Request
        /\ ReloadCollection(a.field.coll).phase # "tx"
    BY <1>1, NextRequests DEF DropFieldTx, ReloadCollection, Field
  <1>6. /\ fields' \in SUBSET Field
        /\ collections' \in SUBSET CollectionRow /\ processes' \in SUBSET ProcessRow
        /\ issued' \in SUBSET (CollectionIds \cup FieldIds)
        /\ UNCHANGED cache /\ Len(migrations) \in Nat
    BY DEF DropFieldTx, DeleteFieldRow, TypeInv, TypeOK
  <1> QED BY <1>3, <1>4, <1>5, <1>6, TransactionType

LEMMA SaveProcessTxType ==
    ASSUME TypeInv, NEW c \in Clients, SaveProcessTx(c)
    PROVE  TypeInv'
  <1> DEFINE a   == Args(c)
             ddl == IF a.enabled THEN GenerateAddStatusColumn(a.slug)
                                 ELSE GenerateDropStatusColumn(a.slug)
             op  == IF a.enabled THEN "enable_process" ELSE "disable_process"
  <1>1. a \in [id : CollectionIds, slug : Slugs, enabled : BOOLEAN,
               wasEnabled : BOOLEAN]
    BY TxArgs DEF SaveProcessTx, InTx, Args, TypeInv, TypeOK
  <1>2. processes' \in SUBSET ProcessRow
    BY <1>1 DEF SaveProcessTx, ProcessRow, TypeInv, TypeOK
  <1>3. ddl.up \in Statement /\ ddl.down \in Statement
    BY <1>1, StatusStatementsType
  <1>4. /\ db' \in Database
        /\ migrations' \in Seq(MigrationRow)
        /\ Len(migrations') >= Len(migrations)
    <2>1. CASE a.wasEnabled = a.enabled
      BY <2>1 DEF SaveProcessTx, TypeInv, TypeOK
    <2>2. CASE a.wasEnabled # a.enabled
      <3>1. db' = Exec(db, ddl.up) /\ Record(a.id, op, Absent, ddl.down)
        BY <2>2 DEF SaveProcessTx
      <3>2. [coll |-> a.id, op |-> op, payload |-> Absent, down |-> ddl.down,
             rolledBack |-> FALSE] \in MigrationRow
        BY <1>1, <1>3 DEF MigrationRow, Recorded
      <3>3. migrations' \in Seq(MigrationRow) /\ Len(migrations') = Len(migrations) + 1
        BY <3>1, <3>2, RecordType DEF TypeInv, TypeOK
      <3> QED BY <1>3, <3>1, <3>3, ExecType DEF TypeInv, TypeOK
    <2> QED BY <2>1, <2>2
  <1>5. /\ Goto(c, ReloadProcess(a.id))
        /\ ReloadProcess(a.id) \in Request
        /\ ReloadProcess(a.id).phase # "tx"
    BY <1>1, NextRequests DEF SaveProcessTx, ReloadProcess
  <1>6. /\ collections' \in SUBSET CollectionRow /\ fields' \in SUBSET Field
        /\ issued' \in SUBSET (CollectionIds \cup FieldIds) /\ UNCHANGED cache
    BY DEF SaveProcessTx, TypeInv, TypeOK
  <1> QED BY <1>2, <1>4, <1>5, <1>6, TransactionType

\* restoreMeta keeps the metadata well typed whatever record it undoes.
LEMMA RestoreMetaType ==
    ASSUME TypeOK, NEW m \in MigrationRow, RestoreMeta(m)
    PROVE  /\ collections' \in SUBSET CollectionRow
           /\ fields' \in SUBSET Field
           /\ processes' \in SUBSET ProcessRow
  <1>1. CASE m.op = "create_collection"
    BY <1>1, DeleteCollectionRowType DEF RestoreMeta
  <1>2. CASE m.op = "add_field"
    BY <1>2 DEF RestoreMeta, DeleteFieldRow, TypeOK
  <1>3. CASE m.op = "alter_field"
    <2>1. m.payload.type \in FieldTypes /\ m.payload.required \in BOOLEAN
      BY <1>3, RecordedTypes DEF Field
    <2>2. fields' \in SUBSET Field
      BY <1>3, <2>1, UpdateFieldRowType DEF RestoreMeta, TypeOK
    <2> QED BY <1>3, <2>2 DEF RestoreMeta, TypeOK
  <1>4. CASE m.op = "drop_field"
    BY <1>4, RecordedTypes DEF RestoreMeta, InsertedFields, TypeOK
  <1>5. CASE m.op = "drop_collection"
    BY <1>5, RecordedTypes
    DEF RestoreMeta, InsertedFields, InsertedCollection, Snapshot, CollectionRow, TypeOK
  <1>6. CASE m.op \notin {"create_collection", "add_field", "alter_field",
                          "drop_field", "drop_collection"}
    BY <1>6 DEF RestoreMeta, meta, TypeOK
  <1> QED BY <1>1, <1>2, <1>3, <1>4, <1>5, <1>6

LEMMA RollbackTxType ==
    ASSUME TypeInv, NEW c \in Clients, RollbackTx(c)
    PROVE  TypeInv'
  <1> DEFINE i == Args(c).mig
             m == migrations[i]
  <1>1. i \in 1..Len(migrations)
    BY DEF RollbackTx, TypeInv, RollbackNamesRecord
  <1>2. m \in MigrationRow
    BY <1>1 DEF TypeInv, TypeOK
  <1>3. db' \in Database
    BY <1>2, RecordedTypes, ExecType DEF RollbackTx, TypeInv, TypeOK
  <1>4. [m EXCEPT !.rolledBack = TRUE] \in MigrationRow
    BY <1>2 DEF MigrationRow, Recorded
  <1>5. migrations' \in Seq(MigrationRow) /\ Len(migrations') = Len(migrations)
    BY <1>1, <1>4 DEF RollbackTx, TypeInv, TypeOK
  <1>6. /\ collections' \in SUBSET CollectionRow
        /\ fields' \in SUBSET Field
        /\ processes' \in SUBSET ProcessRow
    BY <1>2, RestoreMetaType DEF RollbackTx, TypeInv
  <1>7. Goto(c, Load) /\ Load \in Request /\ Load.phase # "tx"
    BY NextRequests DEF RollbackTx, Load
  <1>8. /\ issued' \in SUBSET (CollectionIds \cup FieldIds)
        /\ UNCHANGED cache /\ Len(migrations) \in Nat
    BY DEF RollbackTx, TypeInv, TypeOK
  <1> QED BY <1>3, <1>5, <1>6, <1>7, <1>8, TransactionType

(***************************************************************************)
(* The refresh steps and the restart.                                       *)
(***************************************************************************)
LEMMA MapsType ==
    ASSUME NEW cols \in SUBSET Snapshot, NEW procs \in SUBSET ProcessRow
    PROVE  /\ MapByID(cols) \in [CollectionIds -> Snapshot \cup {Absent}]
           /\ MapBySlug(cols) \in [Slugs -> Snapshot \cup {Absent}]
           /\ MapProcesses(procs) \in [CollectionIds -> BOOLEAN \cup {Absent}]
  BY DEF MapByID, MapBySlug, MapProcesses, ProcessRow

LEMMA RefreshType ==
    ASSUME TypeInv, NEW c \in Clients, NEW r \in Request, Goto(c, r), r.phase # "tx",
           byID' \in [CollectionIds -> Snapshot \cup {Absent}],
           bySlug' \in [Slugs -> Snapshot \cup {Absent}],
           procCache' \in [CollectionIds -> BOOLEAN \cup {Absent}],
           UNCHANGED <<meta, db, migrations, issued>>
    PROVE  TypeInv'
  <1>1. req' \in [Clients -> Request]
    BY GotoType DEF TypeInv, TypeOK
  <1>2. TypeOK'
    BY <1>1 DEF TypeInv, TypeOK, meta
  <1>3. RollbackNamesRecord'
    BY DEF RollbackNamesRecord, InTx, Args, Goto, TypeInv, TypeOK
  <1> QED BY <1>2, <1>3 DEF TypeInv

\* The store rows that a reload reads make a snapshot.
LEMMA SnapshotType ==
    ASSUME TypeOK, NEW r \in CollectionRow
    PROVE  SnapshotOf(r, FieldsOf(r.id)) \in Snapshot
  BY DEF TypeOK, SnapshotOf, Snapshot, FieldsOf, CollectionRow

LEMMA RefreshStepType ==
    ASSUME TypeInv, NEW c \in Clients, Refresh(c)
    PROVE  TypeInv'
  <1> DEFINE q == req[c]
  <1>1. q \in Request
    BY DEF TypeInv, TypeOK
  <1>2. /\ byID \in [CollectionIds -> Snapshot \cup {Absent}]
        /\ bySlug \in [Slugs -> Snapshot \cup {Absent}]
        /\ procCache \in [CollectionIds -> BOOLEAN \cup {Absent}]
    BY DEF TypeInv, TypeOK
  <1>3. Idle \in Request /\ Idle.phase # "tx"
    BY NextRequests DEF Idle
  <1>4. CASE ReloadRead(c)
    <2>1. \A r \in collections :
            ReloadFields(r) \in Request /\ ReloadFields(r).phase # "tx"
      BY DEF ReloadFields, Request, TypeInv, TypeOK
    <2> QED
      BY <1>2, <1>3, <1>4, <2>1, RefreshType DEF ReloadRead, cache
  <1>5. CASE ReloadReadFields(c)
    <2>1. SnapshotOf(q.row, FieldsOf(q.row.id)) \in Snapshot
      BY <1>1, <1>5, RefreshLocals, SnapshotType DEF ReloadReadFields, TypeInv
    <2> DEFINE r == Install(SnapshotOf(q.row, FieldsOf(q.row.id)))
    <2>2. r \in Request /\ r.phase # "tx"
      BY <2>1 DEF Install, Request
    <2> QED
      BY <1>2, <1>5, <2>2, RefreshType DEF ReloadReadFields, cache
  <1>6. CASE InstallCollection(c)
    <2>1. q.col \in Snapshot
      BY <1>1, <1>6, RefreshLocals DEF InstallCollection
    <2>2. q.col.id \in CollectionIds /\ q.col.slug \in Slugs
      BY <2>1 DEF Snapshot
    <2>3. SlugDropped(byID[q.col.id], q.col.slug) \in [Slugs -> Snapshot \cup {Absent}]
      BY <1>2 DEF SlugDropped
    <2>4. /\ byID' \in [CollectionIds -> Snapshot \cup {Absent}]
          /\ bySlug' \in [Slugs -> Snapshot \cup {Absent}]
      BY <1>2, <1>6, <2>1, <2>2, <2>3 DEF InstallCollection
    <2> QED
      BY <1>2, <1>3, <1>6, <2>4, RefreshType DEF InstallCollection
  <1>7. CASE RemoveFromCache(c)
    <2>1. /\ byID' \in [CollectionIds -> Snapshot \cup {Absent}]
          /\ bySlug' \in [Slugs -> Snapshot \cup {Absent}]
      BY <1>2, <1>7 DEF RemoveFromCache
    <2> QED
      BY <1>2, <1>3, <1>7, <2>1, RefreshType DEF RemoveFromCache
  <1>8. CASE ReloadProcessRead(c)
    <2>1. q.id \in CollectionIds /\ ReadProcess(q.id) \in SUBSET ProcessRow
      BY <1>1, <1>8, RefreshLocals DEF ReloadProcessRead, ReadProcess, TypeInv, TypeOK
    <2> DEFINE r == InstallProcess(q.id, ReadProcess(q.id))
    <2>2. r \in Request /\ r.phase # "tx"
      BY <2>1 DEF InstallProcess, Request
    <2> QED
      BY <1>2, <1>8, <2>2, RefreshType DEF ReloadProcessRead, cache
  <1>9. CASE InstallProcessEntry(c)
    <2>1. q.id \in CollectionIds /\ q.proc \in SUBSET ProcessRow
      BY <1>1, <1>9, RefreshLocals DEF InstallProcessEntry
    <2>2. procCache' \in [CollectionIds -> BOOLEAN \cup {Absent}]
      BY <1>2, <1>9, <2>1 DEF InstallProcessEntry, MapProcesses, ProcessRow
    <2> QED
      BY <1>2, <1>3, <1>9, <2>2, RefreshType DEF InstallProcessEntry
  <1>10. CASE LoadCollections(c)
    <2>1. LoadFields(collections, {}) \in Request
          /\ LoadFields(collections, {}).phase # "tx"
      BY DEF LoadFields, Request, TypeInv, TypeOK
    <2> QED
      BY <1>2, <1>10, <2>1, RefreshType DEF LoadCollections, cache
  <1>11. CASE LoadFieldsOf(c)
    <2>1. q.todo \in SUBSET CollectionRow /\ q.got \in SUBSET Snapshot
      BY <1>1, <1>11, RefreshLocals DEF LoadFieldsOf
    <2>2. CASE q.todo = {}
      <3> DEFINE r == LoadProcesses({s.id : s \in q.got}, q.got, {})
      <3>1. r \in Request /\ r.phase # "tx"
        BY <2>1 DEF LoadProcesses, Request, Snapshot
      <3> QED
        BY <1>2, <1>11, <2>2, <3>1, RefreshType DEF LoadFieldsOf, cache
    <2>3. CASE q.todo # {}
      <3>1. PICK row \in q.todo :
              Goto(c, LoadFields(q.todo \ {row},
                                 q.got \cup {SnapshotOf(row, FieldsOf(row.id))}))
        BY <1>11, <2>3 DEF LoadFieldsOf
      <3>2. SnapshotOf(row, FieldsOf(row.id)) \in Snapshot
        BY <2>1, SnapshotType DEF TypeInv
      <3> DEFINE r == LoadFields(q.todo \ {row},
                                 q.got \cup {SnapshotOf(row, FieldsOf(row.id))})
      <3>3. r \in Request /\ r.phase # "tx"
        BY <2>1, <3>2 DEF LoadFields, Request
      <3> QED
        BY <1>2, <1>11, <3>1, <3>3, RefreshType DEF LoadFieldsOf, cache
    <2> QED BY <2>2, <2>3
  <1>12. CASE LoadProcessOf(c)
    <2>1. /\ q.todo \in SUBSET CollectionIds
          /\ q.cols \in SUBSET Snapshot
          /\ q.procs \in SUBSET ProcessRow
      BY <1>1, <1>12, RefreshLocals DEF LoadProcessOf
    <2>2. PICK id \in q.todo :
            Goto(c, LoadProcesses(q.todo \ {id}, q.cols, q.procs \cup ReadProcess(id)))
      BY <1>12 DEF LoadProcessOf
    <2> DEFINE r == LoadProcesses(q.todo \ {id}, q.cols, q.procs \cup ReadProcess(id))
    <2>3. r \in Request /\ r.phase # "tx"
      BY <2>1 DEF LoadProcesses, Request, ReadProcess, TypeInv, TypeOK
    <2> QED
      BY <1>2, <1>12, <2>2, <2>3, RefreshType DEF LoadProcessOf, cache
  <1>13. CASE LoadInstall(c)
    <2>1. q.cols \in SUBSET Snapshot /\ q.procs \in SUBSET ProcessRow
      BY <1>1, <1>13, RefreshLocals DEF LoadInstall
    <2> QED
      BY <1>3, <1>13, <2>1, MapsType, RefreshType DEF LoadInstall
  <1> QED
    BY <1>4, <1>5, <1>6, <1>7, <1>8, <1>9, <1>10, <1>11, <1>12, <1>13 DEF Refresh

LEMMA TypeInit == Init => TypeInv
  BY DEF Init, TypeInv, TypeOK, RollbackNamesRecord, InTx, Database, EmptyDatabase,
         Idle, Request

LEMMA TypeStep == TypeInv /\ [Next]_vars => TypeInv'
  <1> SUFFICES ASSUME TypeInv, [Next]_vars PROVE TypeInv'
    OBVIOUS
  <1>1. ASSUME NEW c \in Clients, Preflight(c) PROVE TypeInv'
    BY <1>1, PreflightType
  <1>2. ASSUME NEW c \in Clients, Transaction(c) PROVE TypeInv'
    BY <1>2, CreateCollectionTxType, UpdateCollectionTxType, DropCollectionTxType,
       AddFieldTxType, AlterFieldTxType, DropFieldTxType, SaveProcessTxType,
       RollbackTxType
    DEF Transaction
  <1>3. ASSUME NEW c \in Clients, TxAborts(c) \/ RefreshFails(c) PROVE TypeInv'
    BY <1>3, NextRequests, RefreshType
    DEF TxAborts, RefreshFails, Idle, cache, TypeInv, TypeOK
  <1>4. ASSUME NEW c \in Clients, Refresh(c) PROVE TypeInv'
    BY <1>4, RefreshStepType
  <1>5. CASE Restart
    <2> DEFINE now == {SnapshotOf(r, FieldsOf(r.id)) : r \in collections}
    <2>1. now \in SUBSET Snapshot
      BY SnapshotType DEF TypeInv, TypeOK
    <2>2. /\ byID' \in [CollectionIds -> Snapshot \cup {Absent}]
          /\ bySlug' \in [Slugs -> Snapshot \cup {Absent}]
          /\ procCache' \in [CollectionIds -> BOOLEAN \cup {Absent}]
      BY <1>5, <2>1, MapsType DEF Restart, TypeInv, TypeOK
    <2>3. req' \in [Clients -> Request]
      BY <1>5, NextRequests DEF Restart
    <2>4. RollbackNamesRecord'
      BY <1>5 DEF Restart, RollbackNamesRecord, InTx, Idle
    <2> QED
      BY <1>5, <2>2, <2>3, <2>4 DEF Restart, TypeInv, TypeOK, meta
  <1>6. CASE UNCHANGED vars
    BY <1>6 DEF vars, meta, cache, TypeInv, TypeOK, RollbackNamesRecord, InTx, Args
  <1> QED
    BY <1>1, <1>2, <1>3, <1>4, <1>5, <1>6 DEF Next

LEMMA TypeInvariant == Spec => []TypeInv
  BY TypeInit, TypeStep, PTL DEF Spec

\* Every reachable state of the store, the history, the data schema, the cache
\* and the calls under way is well typed: no stale preflight, failing refresh,
\* rollback or restart makes the engine write a row, run a statement or cache
\* an entry of the wrong shape.
THEOREM TypeCorrect == Spec => []TypeOK
  BY TypeInvariant, PTL DEF TypeInv

(***************************************************************************)
(* The slug index.  SlugIndexSound is not inductive: a full load installs   *)
(* what it read, so the rows and snapshots it holds must have distinct      *)
(* identities, which comes from the primary key of _meta.collections.       *)
(***************************************************************************)
DistinctIds(rows) == \A q, r \in rows : q.id = r.id => q = r

LoadsDistinct ==
    \A c \in Clients :
        /\ req[c].phase = "load_fields" =>
              /\ DistinctIds(req[c].todo)
              /\ DistinctIds(req[c].got)
              /\ \A r \in req[c].todo, s \in req[c].got : r.id # s.id
        /\ req[c].phase = "load_processes" => DistinctIds(req[c].cols)

IndexInv ==
    /\ DistinctIds(collections)
    /\ LoadsDistinct
    /\ SlugIndexSound

\* Transactions keep the primary key.
LEMMA PrimaryKeyKept ==
    ASSUME TypeInv, DistinctIds(collections), NEW c \in Clients, Transaction(c)
    PROVE  DistinctIds(collections')
  <1>1. CASE CreateCollectionTx(c)
    BY <1>1 DEF CreateCollectionTx, DistinctIds
  <1>2. CASE UpdateCollectionTx(c)
    BY <1>2 DEF UpdateCollectionTx, DistinctIds, TypeInv, TypeOK, CollectionRow
  <1>3. CASE DropCollectionTx(c)
    BY <1>3 DEF DropCollectionTx, DeleteCollectionRow, DistinctIds
  <1>4. CASE AddFieldTx(c) \/ AlterFieldTx(c) \/ DropFieldTx(c) \/ SaveProcessTx(c)
    BY <1>4 DEF AddFieldTx, AlterFieldTx, DropFieldTx, SaveProcessTx
  <1>5. CASE RollbackTx(c)
    <2> DEFINE m == migrations[Args(c).mig]
    <2>1. RestoreMeta(m)
      BY <1>5 DEF RollbackTx
    <2>2. CASE m.op = "create_collection"
      BY <2>1, <2>2 DEF RestoreMeta, DeleteCollectionRow, DistinctIds
    <2>3. CASE m.op = "drop_collection"
      <3>1. collections' = collections \cup InsertedCollection(m.payload)
        BY <2>1, <2>3 DEF RestoreMeta
      <3> QED BY <3>1 DEF InsertedCollection, DistinctIds
    <2>4. CASE m.op \notin {"create_collection", "drop_collection"}
      BY <2>1, <2>4 DEF RestoreMeta, meta
    <2> QED BY <2>2, <2>3, <2>4
  <1> QED
    BY <1>1, <1>2, <1>3, <1>4, <1>5 DEF Transaction

\* A transaction ends in a phase without load locals.
LEMMA TransactionPhase ==
    ASSUME TypeInv, NEW c \in Clients, Transaction(c)
    PROVE  /\ \A d \in Clients \ {c} : req'[d] = req[d]
           /\ req'[c].phase \notin {"load_fields", "load_processes"}
           /\ UNCHANGED cache
  <1> DEFINE Ends(r) == /\ Goto(c, r)
                        /\ r.phase \notin {"load_fields", "load_processes"}
                        /\ UNCHANGED cache
  <1>1. CASE CreateCollectionTx(c)
    <2>1. \E id \in CollectionIds : Ends(ReloadCollection(id))
      BY <1>1 DEF CreateCollectionTx, ReloadCollection
    <2> QED BY <2>1 DEF Goto, TypeInv, TypeOK
  <1>2. CASE UpdateCollectionTx(c)
    <2>1. Ends(ReloadCollection(Args(c).id))
      BY <1>2 DEF UpdateCollectionTx, ReloadCollection
    <2> QED BY <2>1 DEF Goto, TypeInv, TypeOK
  <1>3. CASE DropCollectionTx(c)
    <2>1. Ends(RemoveCollection(Args(c).col.id))
      BY <1>3 DEF DropCollectionTx, RemoveCollection
    <2> QED BY <2>1 DEF Goto, TypeInv, TypeOK
  <1>4. CASE AddFieldTx(c)
    <2>1. Ends(ReloadCollection(Args(c).id))
      BY <1>4 DEF AddFieldTx, ReloadCollection
    <2> QED BY <2>1 DEF Goto, TypeInv, TypeOK
  <1>5. CASE AlterFieldTx(c)
    <2>1. Ends(ReloadCollection(Args(c).old.coll))
      BY <1>5 DEF AlterFieldTx, ReloadCollection
    <2> QED BY <2>1 DEF Goto, TypeInv, TypeOK
  <1>6. CASE DropFieldTx(c)
    <2>1. Ends(ReloadCollection(Args(c).field.coll))
      BY <1>6 DEF DropFieldTx, ReloadCollection
    <2> QED BY <2>1 DEF Goto, TypeInv, TypeOK
  <1>7. CASE SaveProcessTx(c)
    <2>1. Ends(ReloadProcess(Args(c).id))
      BY <1>7 DEF SaveProcessTx, ReloadProcess
    <2> QED BY <2>1 DEF Goto, TypeInv, TypeOK
  <1>8. CASE RollbackTx(c)
    <2>1. Ends(Load)
      BY <1>8 DEF RollbackTx, Load
    <2> QED BY <2>1 DEF Goto, TypeInv, TypeOK
  <1> QED
    BY <1>1, <1>2, <1>3, <1>4, <1>5, <1>6, <1>7, <1>8 DEF Transaction

\* The loads of the other calls, and a call that leaves the load alone.
LEMMA LoadsKept ==
    ASSUME TypeInv, LoadsDistinct, NEW c \in Clients, NEW r, Goto(c, r),
           r.phase \notin {"load_fields", "load_processes"}
    PROVE  LoadsDistinct'
  BY DEF LoadsDistinct, Goto, TypeInv, TypeOK

\* Snapshots with distinct identities give two indexes that agree.
LEMMA MapsAgree ==
    ASSUME NEW cols \in SUBSET Snapshot, DistinctIds(cols), NEW s \in Slugs,
           MapBySlug(cols)[s] # Absent
    PROVE  /\ MapBySlug(cols)[s].slug = s
           /\ MapByID(cols)[MapBySlug(cols)[s].id] = MapBySlug(cols)[s]
  <1>1. \E t \in cols : t.slug = s
    BY DEF MapBySlug
  <1>2. MapBySlug(cols)[s] \in cols /\ MapBySlug(cols)[s].slug = s
    BY <1>1 DEF MapBySlug
  <1> DEFINE t == MapBySlug(cols)[s]
  <1>3. t.id \in CollectionIds
    BY <1>2 DEF Snapshot
  <1>4. MapByID(cols)[t.id] \in cols /\ MapByID(cols)[t.id].id = t.id
    BY <1>2, <1>3 DEF MapByID
  <1> QED BY <1>2, <1>4 DEF DistinctIds

LEMMA IndexInit == Init => IndexInv
  BY DEF Init, IndexInv, DistinctIds, LoadsDistinct, SlugIndexSound, Idle

LEMMA IndexRefresh ==
    ASSUME TypeInv, IndexInv, NEW c \in Clients, Refresh(c)
    PROVE  IndexInv'
  <1> DEFINE q == req[c]
  <1>1. q \in Request /\ Idle.phase \notin {"load_fields", "load_processes"}
    BY DEF TypeInv, TypeOK, Idle
  <1>2. /\ byID \in [CollectionIds -> Snapshot \cup {Absent}]
        /\ bySlug \in [Slugs -> Snapshot \cup {Absent}]
    BY DEF TypeInv, TypeOK
  <1>3. CASE ReloadRead(c) \/ ReloadReadFields(c) \/ ReloadProcessRead(c)
    <2>1. PICK r : Goto(c, r) /\ r.phase \notin {"load_fields", "load_processes"}
      <3>1. CASE ReloadRead(c)
        <4>1. Goto(c, Idle) \/ \E r \in collections : Goto(c, ReloadFields(r))
          BY <3>1 DEF ReloadRead
        <4>2. ASSUME NEW r \in collections, Goto(c, ReloadFields(r))
              PROVE  \E t : Goto(c, t) /\ t.phase \notin {"load_fields", "load_processes"}
          <5>1. ReloadFields(r).phase \notin {"load_fields", "load_processes"}
            BY DEF ReloadFields
          <5> QED BY <4>2, <5>1
        <4> QED BY <1>1, <4>1, <4>2
      <3>2. CASE ReloadReadFields(c)
        BY <3>2 DEF ReloadReadFields, Install
      <3>3. CASE ReloadProcessRead(c)
        BY <3>3 DEF ReloadProcessRead, InstallProcess
      <3> QED BY <1>3, <3>1, <3>2, <3>3
    <2>2. UNCHANGED <<meta, cache>>
      BY <1>3 DEF ReloadRead, ReloadReadFields, ReloadProcessRead
    <2> QED
      BY <2>1, <2>2, LoadsKept DEF IndexInv, SlugIndexSound, meta, cache
  <1>4. CASE InstallCollection(c)
    <2> DEFINE col == q.col
    <2>1. col.id \in CollectionIds /\ col.slug \in Slugs
      BY <1>1, <1>4, RefreshLocals DEF InstallCollection, Snapshot
    <2>2. /\ byID' = [byID EXCEPT ![col.id] = col]
          /\ bySlug' = [SlugDropped(byID[col.id], col.slug) EXCEPT ![col.slug] = col]
      BY <1>4 DEF InstallCollection
    <2>3. SlugIndexSound'
      <3> SUFFICES ASSUME NEW s \in Slugs, bySlug'[s] # Absent
                   PROVE  bySlug'[s].slug = s /\ byID'[bySlug'[s].id] = bySlug'[s]
        BY DEF SlugIndexSound
      <3>1. CASE s = col.slug
        <4>1. bySlug'[s] = col
          BY <1>2, <2>1, <2>2, <3>1 DEF SlugDropped
        <4> QED BY <1>2, <2>1, <2>2, <3>1, <4>1
      <3>2. CASE s # col.slug
        <4>1. /\ bySlug'[s] = bySlug[s]
              /\ byID[col.id] # Absent /\ byID[col.id].slug # col.slug
                    => byID[col.id].slug # s
          BY <1>2, <2>2, <3>2 DEF SlugDropped
        <4>2. bySlug[s].slug = s /\ byID[bySlug[s].id] = bySlug[s]
          BY <4>1 DEF IndexInv, SlugIndexSound
        <4>3. bySlug[s].id # col.id
          BY <3>2, <4>1, <4>2
        <4>4. byID'[bySlug[s].id] = byID[bySlug[s].id]
          BY <1>2, <2>2, <4>1, <4>2, <4>3
        <4> QED BY <4>1, <4>2, <4>4
      <3> QED BY <3>1, <3>2
    <2> QED
      BY <1>1, <1>4, <2>3, LoadsKept DEF InstallCollection, IndexInv, meta
  <1>5. CASE RemoveFromCache(c)
    <2>1. SlugIndexSound'
      <3>1. CASE byID[q.id] = Absent
        BY <1>5, <3>1 DEF RemoveFromCache, IndexInv, SlugIndexSound
      <3>2. CASE byID[q.id] # Absent
        <4>1. /\ byID' = [byID EXCEPT ![q.id] = Absent]
              /\ bySlug' = [bySlug EXCEPT ![byID[q.id].slug] = Absent]
          BY <1>5, <3>2 DEF RemoveFromCache
        <4> SUFFICES ASSUME NEW s \in Slugs, bySlug'[s] # Absent
                     PROVE  bySlug'[s].slug = s /\ byID'[bySlug'[s].id] = bySlug'[s]
          BY DEF SlugIndexSound
        <4>2. s # byID[q.id].slug /\ bySlug'[s] = bySlug[s]
          BY <1>2, <4>1
        <4>3. bySlug[s].slug = s /\ byID[bySlug[s].id] = bySlug[s]
          BY <4>2 DEF IndexInv, SlugIndexSound
        <4> QED BY <1>2, <4>1, <4>2, <4>3
      <3> QED BY <3>1, <3>2
    <2> QED
      BY <1>1, <1>5, <2>1, LoadsKept DEF RemoveFromCache, IndexInv, meta
  <1>6. CASE InstallProcessEntry(c)
    BY <1>1, <1>6, LoadsKept DEF InstallProcessEntry, IndexInv, SlugIndexSound, meta
  <1>7. CASE LoadCollections(c)
    <2>1. LoadsDistinct'
      BY <1>7 DEF LoadCollections, LoadFields, LoadsDistinct, Goto, DistinctIds,
                  IndexInv, TypeInv, TypeOK
    <2> QED
      BY <1>7, <2>1 DEF LoadCollections, IndexInv, SlugIndexSound, meta, cache
  <1>8. CASE LoadFieldsOf(c)
    <2>1. /\ DistinctIds(q.todo) /\ DistinctIds(q.got)
          /\ \A r \in q.todo, s \in q.got : r.id # s.id
      BY <1>8 DEF LoadFieldsOf, IndexInv, LoadsDistinct
    <2>2. CASE q.todo = {}
      <3>1. Goto(c, LoadProcesses({s.id : s \in q.got}, q.got, {}))
        BY <1>8, <2>2 DEF LoadFieldsOf
      <3>2. LoadsDistinct'
        BY <2>1, <3>1 DEF LoadProcesses, LoadsDistinct, Goto, IndexInv, TypeInv, TypeOK
      <3> QED
        BY <1>8, <3>2 DEF LoadFieldsOf, IndexInv, SlugIndexSound, meta, cache
    <2>3. CASE q.todo # {}
      <3>1. PICK row \in q.todo :
              Goto(c, LoadFields(q.todo \ {row},
                                 q.got \cup {SnapshotOf(row, FieldsOf(row.id))}))
        BY <1>8, <2>3 DEF LoadFieldsOf
      <3> DEFINE todo == q.todo \ {row}
                 got  == q.got \cup {SnapshotOf(row, FieldsOf(row.id))}
      <3>2. /\ DistinctIds(todo) /\ DistinctIds(got)
            /\ \A r \in todo, s \in got : r.id # s.id
        BY <2>1 DEF DistinctIds, SnapshotOf
      <3> HIDE DEF todo, got
      <3>3. Goto(c, LoadFields(todo, got))
        BY <3>1 DEF todo, got
      <3>4. LoadsDistinct'
        BY <3>2, <3>3 DEF LoadFields, LoadsDistinct, Goto, IndexInv, TypeInv, TypeOK
      <3> QED
        BY <1>8, <3>4 DEF LoadFieldsOf, IndexInv, SlugIndexSound, meta, cache
    <2> QED BY <2>2, <2>3
  <1>9. CASE LoadProcessOf(c)
    <2>1. LoadsDistinct'
      BY <1>9 DEF LoadProcessOf, LoadProcesses, LoadsDistinct, Goto, IndexInv,
                  TypeInv, TypeOK
    <2> QED
      BY <1>9, <2>1 DEF LoadProcessOf, IndexInv, SlugIndexSound, meta, cache
  <1>10. CASE LoadInstall(c)
    <2>1. q.cols \in SUBSET Snapshot /\ DistinctIds(q.cols)
      BY <1>1, <1>10, RefreshLocals DEF LoadInstall, IndexInv, LoadsDistinct
    <2>2. SlugIndexSound'
      BY <1>10, <2>1, MapsAgree DEF LoadInstall, SlugIndexSound
    <2> QED
      BY <1>1, <1>10, <2>2, LoadsKept DEF LoadInstall, IndexInv, meta
  <1> QED
    BY <1>3, <1>4, <1>5, <1>6, <1>7, <1>8, <1>9, <1>10 DEF Refresh

LEMMA IndexStep == TypeInv /\ IndexInv /\ [Next]_vars => IndexInv'
  <1> SUFFICES ASSUME TypeInv, IndexInv, [Next]_vars PROVE IndexInv'
    OBVIOUS
  <1>1. ASSUME NEW c \in Clients,
               Preflight(c) \/ TxAborts(c) \/ RefreshFails(c)
        PROVE  IndexInv'
    <2>1. UNCHANGED <<meta, cache>>
      BY <1>1 DEF Preflight, TxAborts, RefreshFails, Begin, BeginCreateCollection,
                  BeginUpdateCollection, BeginDropCollection, BeginAddField,
                  BeginAlterField, BeginDropField, BeginSaveProcess, BeginRollback
    <2>2. PICK r : Goto(c, r) /\ r.phase \notin {"load_fields", "load_processes"}
      BY <1>1 DEF Preflight, TxAborts, RefreshFails, Begin, BeginCreateCollection,
                  BeginUpdateCollection, BeginDropCollection, BeginAddField,
                  BeginAlterField, BeginDropField, BeginSaveProcess, BeginRollback,
                  Goto, Tx, Idle
    <2> QED
      BY <2>1, <2>2, LoadsKept DEF IndexInv, SlugIndexSound, meta, cache
  <1>2. ASSUME NEW c \in Clients, Transaction(c) PROVE IndexInv'
    <2>1. DistinctIds(collections')
      BY <1>2, PrimaryKeyKept DEF IndexInv
    <2>2. LoadsDistinct'
      BY <1>2, TransactionPhase DEF IndexInv, LoadsDistinct
    <2>3. SlugIndexSound'
      BY <1>2, TransactionPhase DEF IndexInv, SlugIndexSound, cache
    <2> QED BY <2>1, <2>2, <2>3 DEF IndexInv
  <1>3. ASSUME NEW c \in Clients, Refresh(c) PROVE IndexInv'
    BY <1>3, IndexRefresh
  <1>4. CASE Restart
    <2> DEFINE now == {SnapshotOf(r, FieldsOf(r.id)) : r \in collections}
    <2>1. now \in SUBSET Snapshot
      BY SnapshotType DEF TypeInv, TypeOK
    <2>2. DistinctIds(now)
      BY DEF IndexInv, DistinctIds, SnapshotOf
    <2>3. SlugIndexSound'
      BY <1>4, <2>1, <2>2, MapsAgree DEF Restart, SlugIndexSound
    <2> QED
      BY <1>4, <2>3 DEF Restart, IndexInv, LoadsDistinct, Idle, meta
  <1>5. CASE UNCHANGED vars
    BY <1>5 DEF vars, meta, cache, IndexInv, LoadsDistinct, SlugIndexSound
  <1> QED
    BY <1>1, <1>2, <1>3, <1>4, <1>5 DEF Next

\* However many refreshes, removals and full loads overlap, and in whatever
\* order their reads and installations fall, the cache's slug index answers
\* with a collection of that slug, in the version the id index holds
\* (ReloadCollection, RemoveCollection, Load).
THEOREM SlugIndexCorrect == Spec => []SlugIndexSound
  <1>1. Spec => []IndexInv
    BY TypeInvariant, IndexInit, IndexStep, PTL DEF Spec
  <1> QED BY <1>1, PTL DEF IndexInv

-----------------------------------------------------------------------------
(***************************************************************************)
(* The catalog.  The engine keeps metadata and data tables together, for    *)
(* any number of concurrent callers whose preflights read a stale cache, as *)
(* long as no migration is rolled back or every field has a column.         *)
(***************************************************************************)

(***************************************************************************)
(* What a stale answer can be wrong about.  A slug is given to a collection *)
(* once and for all, and so are a field's collection, slug and whether it   *)
(* has a column: whoever knows them, from the store, the cache or an        *)
(* earlier read, knows them right.                                          *)
(***************************************************************************)
\* Request q holds slug s for collection id.
Carries(q, id, s) ==
    \/ /\ q.phase = "tx" /\ q.op = "drop_collection"
       /\ q.args.col.id = id /\ q.args.col.slug = s
    \/ /\ q.phase = "tx" /\ q.op \in {"add_field", "save_process"}
       /\ q.args.id = id /\ q.args.slug = s
    \/ /\ q.phase = "tx" /\ q.op = "alter_field"
       /\ q.args.old.coll = id /\ q.args.slug = s
    \/ /\ q.phase = "tx" /\ q.op = "drop_field"
       /\ q.args.field.coll = id /\ q.args.slug = s
    \/ q.phase = "reload_fields" /\ q.row.id = id /\ q.row.slug = s
    \/ q.phase = "install" /\ q.col.id = id /\ q.col.slug = s
    \/ /\ q.phase = "load_fields"
       /\ \E r \in q.todo \cup q.got : r.id = id /\ r.slug = s
    \/ q.phase = "load_processes" /\ \E r \in q.cols : r.id = id /\ r.slug = s

Stored(id, s) == \E r \in collections : r.id = id /\ r.slug = s
InCache(id, s) == byID[id] # Absent /\ byID[id].slug = s

\* The down DDL of a migration names the table of its collection.
History == {migrations[i] : i \in 1..Len(migrations)}
Remembers(id, s) == \E m \in History : m.coll = id /\ m.down # NoDDL /\ m.down.table = s

Known(id, s) ==
    \/ Stored(id, s) \/ InCache(id, s) \/ Remembers(id, s)
    \/ \E c \in Clients : Carries(req[c], id, s)

SlugsFixed ==
    \A id \in CollectionIds, s, t \in Slugs :
        Known(id, s) => id \in issued /\ (Known(id, t) => s = t)

CacheKeyed == \A id \in CollectionIds : byID[id] # Absent => byID[id].id = id

\* Request q holds a field as it was read.
CarriesField(q, f) ==
    /\ q.phase = "tx"
    /\ \/ q.op = "alter_field" /\ q.args.old = f
       \/ q.op = "drop_field" /\ q.args.field = f

\* Request q holds a collection as it was read, with its fields.
Holds(q, col) ==
    \/ q.phase = "tx" /\ q.op = "drop_collection" /\ q.args.col = col
    \/ q.phase = "install" /\ q.col = col
    \/ q.phase = "load_fields" /\ col \in q.got
    \/ q.phase = "load_processes" /\ col \in q.cols

Archived(col) == \E m \in History : m.op = "drop_collection" /\ m.payload = col
Held(col) ==
    \/ \E id \in CollectionIds : byID[id] # Absent /\ byID[id] = col
    \/ \E c \in Clients : Holds(req[c], col)
    \/ Archived(col)

RecordedField(f) ==
    \E m \in History : m.op \in {"add_field", "drop_field"} /\ m.payload = f

Seen(f) ==
    \/ f \in fields
    \/ \E c \in Clients : CarriesField(req[c], f)
    \/ \E col \in Snapshot : Held(col) /\ f \in col.fields
    \/ RecordedField(f)
SameColumn(f, g) ==
    /\ f.coll = g.coll /\ f.slug = g.slug
    /\ f.type \in NoColumnTypes <=> g.type \in NoColumnTypes

FieldsFixed ==
    \A f, g \in Field :
        Seen(f) => f.id \in issued /\ (Seen(g) /\ f.id = g.id => SameColumn(f, g))

\* A collection as it was read holds fields of its own, under different slugs.
Whole(col) ==
    /\ \A f \in col.fields : f.coll = col.id
    /\ \A f, g \in col.fields : f.id = g.id \/ f.slug = g.slug => f = g

HeldWhole == \A col \in Snapshot : Held(col) => Whole(col)

(***************************************************************************)
(* The inductive invariant.                                                *)
(***************************************************************************)
\* What a call does is one of Ops; the drafts of a create request have
\* different slugs.
CallsAllowed ==
    \A c \in Clients : req[c].phase = "tx" =>
        /\ req[c].op \in Ops
        /\ req[c].op = "create_collection" =>
             \A d, e \in req[c].args.drafts : d.slug = e.slug => d = e

\* The primary key and UNIQUE (collection_id, slug) of _meta.fields.
FieldKeys ==
    \A f, g \in fields : f.id = g.id \/ (f.coll = g.coll /\ f.slug = g.slug) => f = g

\* collection_id REFERENCES _meta.collections(id), and no table no columns.
FieldsHaveCollection == \A f \in fields : \E r \in collections : r.id = f.coll
ColumnsHaveTable == \A col \in db.columns : col.table \in db.tables

Facts == SlugsFixed /\ CacheKeyed /\ FieldsFixed /\ CallsAllowed /\ HeldWhole

\* The down DDL of a migration undoes what it did to the tables, and its
\* payload is what Rollback needs to undo the rest.
Reverts(m) ==
    /\ m.op = "create_collection" => m.down = DropTable(m.down.table)
    /\ m.op = "drop_collection" =>
          /\ m.coll = m.payload.id
          /\ m.down = CreateTable(m.payload.slug, StoredDefs(m.payload.fields))
    /\ m.op \in {"add_field", "drop_field"} => m.coll = m.payload.coll
    /\ m.op = "add_field" /\ m.payload.type \notin NoColumnTypes =>
          m.down = DropColumn(m.down.table, m.payload.slug)
    /\ m.op = "drop_field" /\ m.payload.type \notin NoColumnTypes =>
          m.down = AddColumn(m.down.table, [slug |-> m.payload.slug,
                                            type |-> m.payload.type, notNull |-> FALSE])
    /\ m.op = "alter_field" => m.down = NoDDL \/ m.down.kind = "alter_column"
    /\ m.op = "update_collection_meta" => m.down = NoDDL
    /\ m.op = "enable_process" => m.down = DropColumn(m.down.table, StatusSlug)
    /\ m.op = "disable_process" => m.down = AddColumn(m.down.table, StatusDef)

HistoryReverts == \A m \in History : Reverts(m)

CatalogInv ==
    /\ Facts /\ HistoryReverts
    /\ FieldsHaveCollection /\ ColumnsHaveTable /\ MetaMatchesTables

LEMMA InitCatalog == Init => CatalogInv
  <1> SUFFICES ASSUME Init PROVE CatalogInv
    OBVIOUS
  <1>0. History = {}
    BY DEF Init, History
  <1>1. \A id \in CollectionIds, s \in Slugs : ~Known(id, s)
    BY <1>0 DEF Init, Known, Stored, InCache, Remembers, Carries, Idle
  <1>5. \A col : ~Held(col)
    BY <1>0 DEF Init, Held, Holds, Archived, Idle
  <1>2. \A f : ~Seen(f)
    BY <1>0, <1>5 DEF Init, Seen, CarriesField, RecordedField, Idle
  <1>3. CacheKeyed /\ CallsAllowed
    BY DEF Init, CacheKeyed, CallsAllowed, Idle
  <1>4. FieldsHaveCollection /\ ColumnsHaveTable /\ MetaMatchesTables
    <2>1. collections = {} /\ fields = {} /\ db.tables = {} /\ db.columns = {}
      BY DEF Init, EmptyDatabase
    <2>2. {r.slug : r \in collections} = {}
      BY <2>1
    <2>3. MetaMatchesTables
      BY <2>1, <2>2 DEF MetaMatchesTables
    <2> QED BY <2>1, <2>3 DEF FieldsHaveCollection, ColumnsHaveTable
  <1> QED
    BY <1>0, <1>1, <1>2, <1>3, <1>4, <1>5
    DEF CatalogInv, Facts, SlugsFixed, FieldsFixed, HeldWhole, HistoryReverts

(***************************************************************************)
(* Steps that learn nothing new.                                           *)
(***************************************************************************)
LEMMA HistoryKept ==
    ASSUME UNCHANGED migrations
    PROVE  /\ \A id, s : Remembers(id, s)' <=> Remembers(id, s)
           /\ \A col : Archived(col)' <=> Archived(col)
           /\ \A f : RecordedField(f)' <=> RecordedField(f)
  <1>1. History' = History
    BY DEF History
  <1> QED BY <1>1 DEF Remembers, Archived, RecordedField

\* A call moves on with what was known; collections, cache and history hold
\* nothing else either.
LEMMA NothingLearnt ==
    ASSUME TypeInv, TypeInv', Facts, NEW c \in Clients, NEW r, Goto(c, r),
           issued \subseteq issued', UNCHANGED migrations,
           \A id \in CollectionIds, s \in Slugs :
             Stored(id, s)' \/ InCache(id, s)' \/ Carries(r, id, s) => Known(id, s)
    PROVE  SlugsFixed'
  <1>1. req'[c] = r /\ \A d \in Clients \ {c} : req'[d] = req[d]
    BY DEF Goto, TypeInv, TypeOK
  <1>2. \A id \in CollectionIds, s \in Slugs : Known(id, s)' => Known(id, s)
    BY <1>1, HistoryKept DEF Known
  <1> QED BY <1>2 DEF SlugsFixed, Facts

\* A collection as the store has it now.
Current(col) == col.fields \subseteq fields /\ Whole(col)

\* What a call moves on with, what it installs and what it records has been
\* read before, or is in the store now.
LEMMA HeldAfter ==
    ASSUME TypeInv, TypeInv', NEW c \in Clients, NEW r, Goto(c, r),
           \A col \in Snapshot : Holds(r, col) => Held(col) \/ Current(col),
           \A id \in CollectionIds : byID'[id] # Absent =>
               Held(byID'[id]) \/ Current(byID'[id]),
           \A col \in Snapshot : Archived(col)' => Held(col)
    PROVE  \A col \in Snapshot : Held(col)' => Held(col) \/ Current(col)
  <1>1. req'[c] = r /\ \A d \in Clients \ {c} : req'[d] = req[d]
    BY DEF Goto, TypeInv, TypeOK
  <1> SUFFICES ASSUME NEW col \in Snapshot, Held(col)'
               PROVE  Held(col) \/ Current(col)
    OBVIOUS
  <1>2. CASE \E id \in CollectionIds : byID'[id] # Absent /\ byID'[id] = col
    BY <1>2
  <1>3. CASE \E d \in Clients : Holds(req'[d], col)
    BY <1>1, <1>3 DEF Held
  <1> QED BY <1>2, <1>3 DEF Held

LEMMA SeenAfter ==
    ASSUME TypeInv, TypeInv', NEW c \in Clients, NEW r, Goto(c, r),
           \A f \in Field : CarriesField(r, f) => Seen(f),
           \A col \in Snapshot : Held(col)' => Held(col) \/ Current(col),
           \A f \in Field : RecordedField(f)' => Seen(f) \/ f \in fields'
    PROVE  \A f \in Field : Seen(f)' => Seen(f) \/ f \in fields'
  <1>1. req'[c] = r /\ \A d \in Clients \ {c} : req'[d] = req[d]
    BY DEF Goto, TypeInv, TypeOK
  <1> SUFFICES ASSUME NEW f \in Field, Seen(f)', f \notin fields'
               PROVE  Seen(f)
    OBVIOUS
  <1>2. CASE \E d \in Clients : CarriesField(req'[d], f)
    BY <1>1, <1>2 DEF Seen
  <1>3. CASE \E col \in Snapshot : Held(col)' /\ f \in col.fields
    BY <1>3 DEF Seen, Current
  <1>4. CASE RecordedField(f)'
    BY <1>4
  <1> QED BY <1>2, <1>3, <1>4 DEF Seen

LEMMA WholeAfter ==
    ASSUME Facts, \A col \in Snapshot : Held(col)' => Held(col) \/ Current(col)
    PROVE  HeldWhole'
  BY DEF HeldWhole, Facts, Current

\* A call moves on with a field as it was seen, or with none; fields only change
\* in their type, between types with a column.
LEMMA NoFieldLearnt ==
    ASSUME TypeInv, TypeInv', Facts, NEW c \in Clients, NEW r, Goto(c, r),
           issued \subseteq issued', UNCHANGED migrations,
           \A f \in Field : CarriesField(r, f) => Seen(f),
           \A col \in Snapshot : Holds(r, col) => Held(col) \/ Current(col),
           \A id \in CollectionIds : byID'[id] # Absent =>
               Held(byID'[id]) \/ Current(byID'[id]),
           \A f \in fields' : \E g \in fields : g.id = f.id /\ SameColumn(f, g)
    PROVE  FieldsFixed' /\ HeldWhole'
  <1>1. \A col \in Snapshot : Held(col)' => Held(col) \/ Current(col)
    <2>1. \A col \in Snapshot : Archived(col)' => Held(col)
      BY HistoryKept DEF Held
    <2> QED BY <2>1, HeldAfter
  <1>2. \A f \in Field : Seen(f)' => Seen(f) \/ f \in fields'
    <2>1. \A f \in Field : RecordedField(f)' => Seen(f)
      BY HistoryKept DEF Seen
    <2> QED BY <1>1, <2>1, SeenAfter
  <1>3. \A f \in Field : Seen(f)' =>
          \E g \in Field : Seen(g) /\ g.id = f.id /\ SameColumn(f, g)
    <2> SUFFICES ASSUME NEW f \in Field, Seen(f)'
                 PROVE  \E g \in Field : Seen(g) /\ g.id = f.id /\ SameColumn(f, g)
      OBVIOUS
    <2>1. CASE f \in fields'
      BY <2>1 DEF Seen, TypeInv, TypeOK
    <2>2. CASE f \notin fields'
      <3>1. Seen(f)
        BY <1>2, <2>2
      <3> QED BY <3>1 DEF SameColumn
    <2> QED BY <2>1, <2>2
  <1>4. FieldsFixed'
    BY <1>3 DEF FieldsFixed, Facts, SameColumn
  <1> QED BY <1>1, <1>4, WholeAfter

LEMMA CallAllowed ==
    ASSUME TypeInv, Facts, NEW c \in Clients, NEW r, Goto(c, r),
           r.phase = "tx" =>
             /\ r.op \in Ops
             /\ r.op = "create_collection" =>
                  \A d, e \in r.args.drafts : d.slug = e.slug => d = e
    PROVE  CallsAllowed'
  BY DEF Goto, TypeInv, TypeOK, Facts, CallsAllowed

(***************************************************************************)
(* Preflights.                                                             *)
(***************************************************************************)
\* A preflight starts a call with what it read.
LEMMA Begun ==
    ASSUME TypeInv, TypeInv', Facts, NEW c \in Clients, NEW op, NEW args, Begin(c, op, args),
           \A id \in CollectionIds, s \in Slugs : Carries(Tx(op, args), id, s) => Known(id, s),
           \A f \in Field : CarriesField(Tx(op, args), f) => Seen(f),
           \A col \in Snapshot : Holds(Tx(op, args), col) => Held(col),
           op = "create_collection" => \A d, e \in args.drafts : d.slug = e.slug => d = e
    PROVE  Facts'
  <1>1. /\ Goto(c, Tx(op, args)) /\ op \in Ops
        /\ UNCHANGED <<collections, fields, issued, byID, migrations>>
    BY DEF Begin, Goto, meta, cache
  <1>2. \A id, s : (Stored(id, s)' => Known(id, s)) /\ (InCache(id, s)' => Known(id, s))
    BY <1>1 DEF Known, Stored, InCache
  <1>3. SlugsFixed'
    BY <1>1, <1>2, NothingLearnt
  <1>4. FieldsFixed' /\ HeldWhole'
    <2>1. \A id \in CollectionIds : byID'[id] # Absent => Held(byID'[id])
      BY <1>1 DEF Held
    <2> QED BY <1>1, <2>1, NoFieldLearnt DEF SameColumn
  <1>5. CallsAllowed'
    BY <1>1, CallAllowed DEF Tx
  <1>6. CacheKeyed'
    BY <1>1 DEF Facts, CacheKeyed
  <1> QED BY <1>3, <1>4, <1>5, <1>6 DEF Facts

LEMMA PreflightFacts ==
    ASSUME TypeInv, TypeInv', Facts, NEW c \in Clients, Preflight(c)
    PROVE  Facts'
  <1>0. \A id \in CollectionIds : byID[id] # Absent =>
          byID[id].id = id /\ InCache(id, byID[id].slug)
    BY DEF Facts, CacheKeyed, InCache
  <1>1. CASE BeginCreateCollection(c)
    <2>1. PICK s \in Slugs, l \in Labels, ds \in SUBSET Drafts :
            /\ \A d, e \in ds : d.slug = e.slug => d = e
            /\ Begin(c, "create_collection", [slug |-> s, label |-> l, drafts |-> ds])
      BY <1>1 DEF BeginCreateCollection
    <2> QED BY <2>1, Begun DEF Carries, CarriesField, Holds, Tx
  <1>2. CASE BeginUpdateCollection(c)
    <2>1. PICK r \in collections, l \in Labels \cup {Keep} :
             Begin(c, "update_collection", [id |-> r.id, label |-> l])
      BY <1>2 DEF BeginUpdateCollection
    <2> QED BY <2>1, Begun DEF Carries, CarriesField, Holds, Tx
  <1>3. CASE BeginDropCollection(c)
    <2>1. PICK id \in Cached : Begin(c, "drop_collection", [col |-> byID[id]])
      BY <1>3 DEF BeginDropCollection
    <2> DEFINE a == [col |-> byID[id]]
    <2>2. \A k, s : Carries(Tx("drop_collection", a), k, s) => Known(k, s)
      BY <1>0, <2>1 DEF Carries, Tx, Cached, Known, InCache
    <2>3. \A f : ~CarriesField(Tx("drop_collection", a), f)
      BY DEF CarriesField, Tx
    <2>4. \A col \in Snapshot : Holds(Tx("drop_collection", a), col) => Held(col)
      BY <2>1 DEF Holds, Held, Tx, Cached
    <2> QED BY <2>1, <2>2, <2>3, <2>4, Begun
  <1>4. CASE BeginAddField(c)
    <2>1. PICK id \in Cached, d \in Drafts :
            Begin(c, "add_field", [id |-> id, slug |-> byID[id].slug, draft |-> d])
      BY <1>4 DEF BeginAddField
    <2> DEFINE a == [id |-> id, slug |-> byID[id].slug, draft |-> d]
    <2>2. \A k, s : Carries(Tx("add_field", a), k, s) => Known(k, s)
      BY <1>0, <2>1 DEF Carries, Tx, Cached, Known, InCache
    <2>3. \A f : ~CarriesField(Tx("add_field", a), f)
      BY DEF CarriesField, Tx
    <2>4. \A col : ~Holds(Tx("add_field", a), col)
      BY DEF Holds, Tx
    <2> QED BY <2>1, <2>2, <2>3, <2>4, Begun
  <1>5. CASE BeginAlterField(c)
    <2>1. PICK old \in fields, chg \in Changes :
            /\ byID[old.coll] # Absent
            /\ Begin(c, "alter_field",
                     [old |-> old, slug |-> byID[old.coll].slug, changes |-> chg])
      BY <1>5 DEF BeginAlterField
    <2> DEFINE a == [old |-> old, slug |-> byID[old.coll].slug, changes |-> chg]
    <2>2. old.coll \in CollectionIds
      BY DEF TypeInv, TypeOK, Field
    <2>3. \A k, s : Carries(Tx("alter_field", a), k, s) => Known(k, s)
      BY <1>0, <2>1, <2>2 DEF Carries, Tx, Known, InCache
    <2>4. \A f : CarriesField(Tx("alter_field", a), f) => Seen(f)
      BY <2>1 DEF CarriesField, Tx, Seen
    <2>5. \A col : ~Holds(Tx("alter_field", a), col)
      BY DEF Holds, Tx
    <2> QED BY <2>1, <2>3, <2>4, <2>5, Begun
  <1>6. CASE BeginDropField(c)
    <2>1. PICK f \in fields :
            /\ byID[f.coll] # Absent
            /\ Begin(c, "drop_field", [field |-> f, slug |-> byID[f.coll].slug])
      BY <1>6 DEF BeginDropField
    <2> DEFINE a == [field |-> f, slug |-> byID[f.coll].slug]
    <2>2. f.coll \in CollectionIds
      BY DEF TypeInv, TypeOK, Field
    <2>3. \A k, s : Carries(Tx("drop_field", a), k, s) => Known(k, s)
      BY <1>0, <2>1, <2>2 DEF Carries, Tx, Known, InCache
    <2>4. \A g : CarriesField(Tx("drop_field", a), g) => Seen(g)
      BY <2>1 DEF CarriesField, Tx, Seen
    <2>5. \A col : ~Holds(Tx("drop_field", a), col)
      BY DEF Holds, Tx
    <2> QED BY <2>1, <2>3, <2>4, <2>5, Begun
  <1>7. CASE BeginSaveProcess(c)
    <2>1. PICK id \in Cached, enabled \in BOOLEAN :
            Begin(c, "save_process",
                  [id |-> id, slug |-> byID[id].slug, enabled |-> enabled,
                   wasEnabled |-> procCache[id] = TRUE])
      BY <1>7 DEF BeginSaveProcess
    <2> DEFINE a == [id |-> id, slug |-> byID[id].slug, enabled |-> enabled,
                     wasEnabled |-> procCache[id] = TRUE]
    <2>2. \A k, s : Carries(Tx("save_process", a), k, s) => Known(k, s)
      BY <1>0, <2>1 DEF Carries, Tx, Cached, Known, InCache
    <2>3. \A f : ~CarriesField(Tx("save_process", a), f)
      BY DEF CarriesField, Tx
    <2>4. \A col : ~Holds(Tx("save_process", a), col)
      BY DEF Holds, Tx
    <2> QED BY <2>1, <2>2, <2>3, <2>4, Begun
  <1>8. CASE BeginRollback(c)
    <2>1. PICK m \in 1..Len(migrations) : Begin(c, "rollback", [mig |-> m])
      BY <1>8 DEF BeginRollback
    <2> QED BY <2>1, Begun DEF Carries, CarriesField, Holds, Tx
  <1> QED
    BY <1>1, <1>2, <1>3, <1>4, <1>5, <1>6, <1>7, <1>8 DEF Preflight

(***************************************************************************)
(* Refreshes, failures and restarts.                                       *)
(***************************************************************************)
\* A refresh goes on with rows it read, and installs what it carried.
LEMMA Refreshed ==
    ASSUME TypeInv, TypeInv', Facts, NEW c \in Clients, NEW r, Goto(c, r), r.phase # "tx",
           \A id \in CollectionIds, s \in Slugs : Carries(r, id, s) => Known(id, s),
           \A col \in Snapshot : Holds(r, col) => Held(col) \/ Current(col),
           \A id \in CollectionIds : byID'[id] # Absent =>
               /\ byID'[id].id = id /\ Known(id, byID'[id].slug)
               /\ Held(byID'[id]),
           UNCHANGED <<meta, issued, migrations>>
    PROVE  Facts'
  <1>1. UNCHANGED <<collections, fields, issued, migrations>>
    BY DEF meta
  <1>2. \A id \in CollectionIds, s \in Slugs :
          (Stored(id, s)' => Known(id, s)) /\ (InCache(id, s)' => Known(id, s))
    BY <1>1 DEF Known, Stored, InCache
  <1>3. SlugsFixed'
    BY <1>1, <1>2, NothingLearnt
  <1>4. FieldsFixed' /\ HeldWhole'
    BY <1>1, NoFieldLearnt DEF SameColumn, CarriesField
  <1>5. CallsAllowed'
    BY CallAllowed
  <1>6. CacheKeyed'
    BY DEF CacheKeyed
  <1> QED BY <1>3, <1>4, <1>5, <1>6 DEF Facts

\* A read of the store is the store as it is.
LEMMA SnapshotCurrent ==
    ASSUME FieldKeys, NEW r
    PROVE  Current(SnapshotOf(r, FieldsOf(r.id)))
  BY DEF Current, Whole, SnapshotOf, FieldsOf, FieldKeys

LEMMA RefreshFacts ==
    ASSUME TypeInv, TypeInv', Facts, FieldKeys, NEW c \in Clients, Refresh(c) \/ RefreshFails(c)
    PROVE  Facts'
  <1> DEFINE q == req[c]
  <1>0. q \in Request /\ UNCHANGED <<meta, issued, migrations>>
    BY DEF TypeInv, TypeOK, Refresh, RefreshFails, ReloadRead, ReloadReadFields,
           InstallCollection, RemoveFromCache, ReloadProcessRead, InstallProcessEntry,
           LoadCollections, LoadFieldsOf, LoadProcessOf, LoadInstall
  <1>1. \A id \in CollectionIds : byID[id] # Absent =>
          byID[id].id = id /\ Known(id, byID[id].slug) /\ Held(byID[id])
    BY DEF Facts, CacheKeyed, Known, InCache, Held
  <1>2. Idle.phase # "tx" /\ (\A id, s : ~Carries(Idle, id, s)) /\ \A col : ~Holds(Idle, col)
    BY DEF Idle, Carries, Holds
  <1>3. (\A id, s : Carries(q, id, s) => Known(id, s)) /\ \A col : Holds(q, col) => Held(col)
    BY DEF Known, Held
  <1>4. ASSUME NEW r, Goto(c, r), r.phase # "tx", UNCHANGED byID,
               \A id, s : Carries(r, id, s) => Known(id, s),
               \A col \in Snapshot : Holds(r, col) => Held(col) \/ Current(col)
        PROVE  Facts'
    BY <1>0, <1>1, <1>4, Refreshed
  <1>5. CASE RefreshFails(c)
    BY <1>2, <1>4, <1>5 DEF RefreshFails, cache
  <1>6. CASE ReloadRead(c)
    <2>1. UNCHANGED byID
      BY <1>6 DEF ReloadRead, cache
    <2>2. ASSUME NEW r \in collections, Goto(c, ReloadFields(r))
          PROVE  Facts'
      <3> DEFINE next == ReloadFields(r)
      <3>1. /\ next.phase # "tx" /\ \A id, s : Carries(next, id, s) => Known(id, s)
            /\ \A col : ~Holds(next, col)
        BY DEF ReloadFields, Carries, Holds, Known, Stored
      <3>2. Goto(c, next)
        BY <2>2
      <3> HIDE DEF next
      <3> QED BY <1>4, <2>1, <3>1, <3>2
    <2> QED BY <1>2, <1>4, <1>6, <2>1, <2>2 DEF ReloadRead
  <1>7. CASE ReloadReadFields(c)
    <2> DEFINE r == Install(SnapshotOf(q.row, FieldsOf(q.row.id)))
    <2>1. UNCHANGED byID /\ Goto(c, r) /\ q.phase = "reload_fields"
      BY <1>7 DEF ReloadReadFields, cache
    <2>2. r.phase # "tx" /\ \A id, s : Carries(r, id, s) => Carries(q, id, s)
      BY <2>1 DEF Install, SnapshotOf, Carries
    <2>3. \A col : Holds(r, col) => Current(col)
      BY SnapshotCurrent DEF Install, Holds
    <2> HIDE DEF r
    <2> QED BY <1>3, <1>4, <2>1, <2>2, <2>3
  <1>8. CASE InstallCollection(c)
    <2>1. q.phase = "install" /\ Goto(c, Idle) /\ byID' = [byID EXCEPT ![q.col.id] = q.col]
      BY <1>8 DEF InstallCollection
    <2>2. Known(q.col.id, q.col.slug) /\ Held(q.col)
      BY <1>3, <2>1 DEF Carries, Holds
    <2>3. \A id \in CollectionIds : byID'[id] # Absent =>
            byID'[id].id = id /\ Known(id, byID'[id].slug) /\ Held(byID'[id])
      BY <1>1, <2>1, <2>2 DEF TypeInv, TypeOK
    <2> QED BY <1>0, <1>2, <2>1, <2>3, Refreshed
  <1>9. CASE RemoveFromCache(c)
    <2>1. Goto(c, Idle)
      BY <1>9 DEF RemoveFromCache
    <2>2. \A id \in CollectionIds : byID'[id] # Absent => byID'[id] = byID[id]
      BY <1>9 DEF RemoveFromCache, TypeInv, TypeOK
    <2>3. \A id \in CollectionIds : byID'[id] # Absent =>
            byID'[id].id = id /\ Known(id, byID'[id].slug) /\ Held(byID'[id])
      BY <1>1, <2>2
    <2> QED BY <1>0, <1>2, <2>1, <2>3, Refreshed
  <1>10. CASE ReloadProcessRead(c)
    <2> DEFINE r == InstallProcess(q.id, ReadProcess(q.id))
    <2>1. UNCHANGED byID /\ Goto(c, r)
      BY <1>10 DEF ReloadProcessRead, cache
    <2>2. r.phase # "tx" /\ (\A id, s : ~Carries(r, id, s)) /\ \A col : ~Holds(r, col)
      BY DEF InstallProcess, Carries, Holds
    <2> HIDE DEF r
    <2> QED BY <1>4, <2>1, <2>2
  <1>11. CASE InstallProcessEntry(c)
    BY <1>2, <1>4, <1>11 DEF InstallProcessEntry
  <1>12. CASE LoadCollections(c)
    <2> DEFINE r == LoadFields(collections, {})
    <2>1. UNCHANGED byID /\ Goto(c, r)
      BY <1>12 DEF LoadCollections, cache
    <2>2. /\ r.phase # "tx" /\ \A id, s : Carries(r, id, s) => Known(id, s)
          /\ \A col : ~Holds(r, col)
      BY DEF LoadFields, Carries, Holds, Known, Stored
    <2> HIDE DEF r
    <2> QED BY <1>4, <2>1, <2>2
  <1>13. CASE LoadFieldsOf(c)
    <2>1. UNCHANGED byID /\ q.phase = "load_fields"
      BY <1>13 DEF LoadFieldsOf, cache
    <2>2. CASE q.todo = {}
      <3> DEFINE r == LoadProcesses({s.id : s \in q.got}, q.got, {})
      <3>1. Goto(c, r)
        BY <1>13, <2>2 DEF LoadFieldsOf
      <3>2. /\ r.phase # "tx" /\ \A id, s : Carries(r, id, s) => Carries(q, id, s)
            /\ \A col : Holds(r, col) => Holds(q, col)
        BY <2>1 DEF LoadProcesses, Carries, Holds
      <3> HIDE DEF r
      <3> QED BY <1>3, <1>4, <2>1, <3>1, <3>2
    <2>3. CASE q.todo # {}
      <3>1. PICK row \in q.todo :
              Goto(c, LoadFields(q.todo \ {row},
                                 q.got \cup {SnapshotOf(row, FieldsOf(row.id))}))
        BY <1>13, <2>3 DEF LoadFieldsOf
      <3> DEFINE r == LoadFields(q.todo \ {row},
                                 q.got \cup {SnapshotOf(row, FieldsOf(row.id))})
      <3>2. r.phase # "tx" /\ \A id, s : Carries(r, id, s) => Carries(q, id, s)
        BY <2>1 DEF LoadFields, SnapshotOf, Carries
      <3>4. \A col : Holds(r, col) => Holds(q, col) \/ Current(col)
        BY <2>1, SnapshotCurrent DEF LoadFields, Holds
      <3>3. Goto(c, r)
        BY <3>1
      <3> HIDE DEF r
      <3> QED BY <1>3, <1>4, <2>1, <3>2, <3>3, <3>4
    <2> QED BY <2>2, <2>3
  <1>14. CASE LoadProcessOf(c)
    <2>1. UNCHANGED byID /\ q.phase = "load_processes"
      BY <1>14 DEF LoadProcessOf, cache
    <2>2. PICK id \in q.todo :
            Goto(c, LoadProcesses(q.todo \ {id}, q.cols, q.procs \cup ReadProcess(id)))
      BY <1>14 DEF LoadProcessOf
    <2> DEFINE r == LoadProcesses(q.todo \ {id}, q.cols, q.procs \cup ReadProcess(id))
    <2>3. /\ r.phase # "tx" /\ \A k, s : Carries(r, k, s) => Carries(q, k, s)
          /\ \A col : Holds(r, col) => Holds(q, col)
      BY <2>1 DEF LoadProcesses, Carries, Holds
    <2>4. Goto(c, r)
      BY <2>2
    <2> HIDE DEF r
    <2> QED BY <1>3, <1>4, <2>1, <2>3, <2>4
  <1>15. CASE LoadInstall(c)
    <2>1. q.phase = "load_processes" /\ Goto(c, Idle) /\ byID' = MapByID(q.cols)
      BY <1>15 DEF LoadInstall
    <2>2. \A id \in CollectionIds : byID'[id] # Absent =>
            byID'[id] \in q.cols /\ byID'[id].id = id
      BY <2>1 DEF MapByID
    <2>3. \A id \in CollectionIds : byID'[id] # Absent =>
            byID'[id].id = id /\ Known(id, byID'[id].slug) /\ Held(byID'[id])
      BY <1>3, <2>1, <2>2 DEF Carries, Holds
    <2> QED BY <1>0, <1>2, <2>1, <2>3, Refreshed
  <1> QED
    BY <1>5, <1>6, <1>7, <1>8, <1>9, <1>10, <1>11, <1>12, <1>13, <1>14, <1>15 DEF Refresh

LEMMA RestartFacts ==
    ASSUME TypeInv, TypeInv', Facts, FieldKeys, Restart
    PROVE  Facts'
  <1> DEFINE now == {SnapshotOf(r, FieldsOf(r.id)) : r \in collections}
  <1>1. /\ UNCHANGED <<collections, fields, issued, migrations>>
        /\ byID' = MapByID(now)
        /\ req' = [d \in Clients |-> Idle]
    BY DEF Restart, meta
  <1>2. \A id \in CollectionIds : byID'[id] # Absent =>
          byID'[id] \in now /\ byID'[id].id = id
    BY <1>1 DEF MapByID
  <1>3. \A x \in now : Known(x.id, x.slug)
    BY DEF SnapshotOf, Known, Stored
  <1>4. \A d \in Clients : \A id, s : ~Carries(req'[d], id, s)
    BY <1>1 DEF Idle, Carries
  <1>5. \A id \in CollectionIds, s \in Slugs : Known(id, s)' => Known(id, s)
    BY <1>1, <1>2, <1>3, <1>4, HistoryKept DEF Known, Stored, InCache
  <1>6. SlugsFixed'
    BY <1>1, <1>5 DEF SlugsFixed, Facts
  <1>10. \A col \in Snapshot : Held(col)' => Held(col) \/ Current(col)
    <2>1. \A col \in now : Current(col)
      BY SnapshotCurrent
    <2>2. \A d \in Clients : \A col : ~Holds(req'[d], col)
      BY <1>1 DEF Holds, Idle
    <2> QED BY <1>1, <1>2, <2>1, <2>2, HistoryKept DEF Held
  <1>7. \A f \in Field : Seen(f)' => Seen(f)
    <2>1. \A d \in Clients : \A f : ~CarriesField(req'[d], f)
      BY <1>1 DEF CarriesField, Idle
    <2> QED BY <1>1, <1>10, <2>1, HistoryKept DEF Seen, Current
  <1>11. HeldWhole'
    BY <1>10, WholeAfter
  <1>8. FieldsFixed' /\ CallsAllowed'
    BY <1>1, <1>7 DEF FieldsFixed, Facts, CallsAllowed, Idle
  <1>9. CacheKeyed'
    BY <1>2 DEF CacheKeyed
  <1> QED BY <1>6, <1>8, <1>9, <1>11 DEF Facts

(***************************************************************************)
(* What a statement does to the user columns of the tables.                *)
(***************************************************************************)
ColumnsKept(t) == \A u \in Slugs \ {t} : UserColumns(u)' = UserColumns(u)

LEMMA CreateTableEffect ==
    ASSUME ColumnsHaveTable, NEW t \in Slugs, NEW defs \in SUBSET ColumnDef,
           CanExec(db, CreateTable(t, defs)), db' = Exec(db, CreateTable(t, defs))
    PROVE  /\ db.tables' = db.tables \cup {t} /\ t \notin db.tables
           /\ UserColumns(t)' = {d.slug : d \in defs} \ {StatusSlug}
           /\ ColumnsKept(t) /\ ColumnsHaveTable'
  <1>1. /\ t \notin db.tables
        /\ db' = [tables |-> db.tables \cup {t},
                  columns |-> db.columns \cup {ColumnIn(t, d) : d \in defs}]
    BY DEF CanExec, Exec, CreateTable
  <1>2. db.tables' = db.tables \cup {t}
        /\ db.columns' = db.columns \cup {ColumnIn(t, d) : d \in defs}
    BY <1>1
  <1>3. \A col \in db.columns : col.table # t
    BY <1>1 DEF ColumnsHaveTable
  <1>4. \A d : ColumnIn(t, d).table = t /\ ColumnIn(t, d).slug = d.slug
    BY DEF ColumnIn
  <1>5. ColumnsOf(db, t)' = {ColumnIn(t, d) : d \in defs}
        /\ \A u \in Slugs \ {t} : ColumnsOf(db, u)' = ColumnsOf(db, u)
    BY <1>2, <1>3, <1>4 DEF ColumnsOf
  <1>6. UserColumns(t)' = {d.slug : d \in defs} \ {StatusSlug}
    BY <1>4, <1>5 DEF UserColumns
  <1>7. ColumnsKept(t)
    BY <1>5 DEF ColumnsKept, UserColumns
  <1>8. ColumnsHaveTable'
    BY <1>2, <1>4 DEF ColumnsHaveTable
  <1> QED BY <1>1, <1>2, <1>6, <1>7, <1>8

LEMMA DropTableEffect ==
    ASSUME ColumnsHaveTable, NEW t \in Slugs, db' = Exec(db, DropTable(t))
    PROVE  db.tables' = db.tables \ {t} /\ ColumnsKept(t) /\ ColumnsHaveTable'
  <1>1. db' = [tables |-> db.tables \ {t},
               columns |-> {col \in db.columns : col.table # t}]
    BY DEF Exec, DropTable
  <1>2. \A u \in Slugs \ {t} : ColumnsOf(db, u)' = ColumnsOf(db, u)
    BY <1>1 DEF ColumnsOf
  <1> QED BY <1>1, <1>2 DEF ColumnsKept, UserColumns, ColumnsHaveTable

LEMMA AddColumnEffect ==
    ASSUME db \in Database, ColumnsHaveTable, NEW t \in Slugs, NEW def \in ColumnDef,
           CanExec(db, AddColumn(t, def)), db' = Exec(db, AddColumn(t, def))
    PROVE  /\ db.tables' = db.tables /\ ColumnsKept(t) /\ ColumnsHaveTable'
           /\ UserColumns(t)' = UserColumns(t) \cup ({def.slug} \ {StatusSlug})
  <1>1. /\ t \in db.tables
        /\ db.tables' = db.tables
        /\ db.columns' = db.columns \cup {ColumnIn(t, def)}
    BY DEF CanExec, Exec, AddColumn, Database
  <1>2. ColumnIn(t, def).table = t /\ ColumnIn(t, def).slug = def.slug
    BY DEF ColumnIn
  <1>3. ColumnsOf(db, t)' = ColumnsOf(db, t) \cup {ColumnIn(t, def)}
        /\ \A u \in Slugs \ {t} : ColumnsOf(db, u)' = ColumnsOf(db, u)
    BY <1>1, <1>2 DEF ColumnsOf
  <1>4. UserColumns(t)' = UserColumns(t) \cup ({def.slug} \ {StatusSlug})
    BY <1>2, <1>3 DEF UserColumns
  <1> QED BY <1>1, <1>2, <1>3, <1>4 DEF ColumnsKept, UserColumns, ColumnsHaveTable

LEMMA DropColumnEffect ==
    ASSUME db \in Database, ColumnsHaveTable, NEW t \in Slugs, NEW s,
           db' = Exec(db, DropColumn(t, s))
    PROVE  /\ db.tables' = db.tables /\ ColumnsKept(t) /\ ColumnsHaveTable'
           /\ UserColumns(t)' = UserColumns(t) \ {s}
  <1>1. /\ db.tables' = db.tables
        /\ db.columns' = {col \in db.columns : col.table # t \/ col.slug # s}
    BY DEF Exec, DropColumn, Database
  <1>2. ColumnsOf(db, t)' = {col \in ColumnsOf(db, t) : col.slug # s}
        /\ \A u \in Slugs \ {t} : ColumnsOf(db, u)' = ColumnsOf(db, u)
    BY <1>1 DEF ColumnsOf
  <1>3. UserColumns(t)' = UserColumns(t) \ {s}
    BY <1>2 DEF UserColumns
  <1> QED BY <1>1, <1>2, <1>3 DEF ColumnsKept, UserColumns, ColumnsHaveTable

LEMMA AlterColumnEffect ==
    ASSUME db \in Database, ColumnsHaveTable, NEW d, d.kind = "alter_column",
           db' = Exec(db, d)
    PROVE  /\ db.tables' = db.tables /\ ColumnsHaveTable'
           /\ \A u \in Slugs : UserColumns(u)' = UserColumns(u)
  <1> DEFINE After(col) == IF col.table = d.table /\ col.slug = d.slug
                           THEN Altered(col, d) ELSE col
  <1>1. db.tables' = db.tables /\ db.columns' = {After(col) : col \in db.columns}
    BY DEF Exec, Database
  <1>2. \A col \in db.columns : After(col).table = col.table /\ After(col).slug = col.slug
    BY DEF Altered, Database, Column
  <1> HIDE DEF After
  <1>3. \A u \in Slugs : ColumnsOf(db, u)' = {After(col) : col \in ColumnsOf(db, u)}
    BY <1>1, <1>2 DEF ColumnsOf
  <1>4. \A u \in Slugs : {col.slug : col \in ColumnsOf(db, u)}'
                           = {col.slug : col \in ColumnsOf(db, u)}
    BY <1>2, <1>3 DEF ColumnsOf
  <1>5. \A u \in Slugs : UserColumns(u)' = UserColumns(u)
    BY <1>4 DEF UserColumns
  <1> QED BY <1>1, <1>2, <1>5 DEF ColumnsHaveTable

(***************************************************************************)
(* What a transaction does to the catalog: it adds or removes a collection  *)
(* with its table, adds or removes one column of one, or leaves both sides  *)
(* as they are.                                                            *)
(***************************************************************************)
FieldsKept(id) == \A k \in CollectionIds \ {id} : StoredFieldSlugs(k)' = StoredFieldSlugs(k)
Kept(row) == ColumnsKept(row.slug) /\ FieldsKept(row.id)

CollectionAdded(row, columns) ==
    /\ \A r \in collections : r.id # row.id /\ r.slug # row.slug
    /\ collections' = collections \cup {row}
    /\ db.tables' = db.tables \cup {row.slug}
    /\ UserColumns(row.slug)' = columns /\ StoredFieldSlugs(row.id)' = columns
    /\ Kept(row)

CollectionRemoved(row) ==
    /\ collections' = collections \ {row}
    /\ db.tables' = db.tables \ {row.slug}
    /\ Kept(row)

ColumnsSet(row, columns) ==
    /\ UNCHANGED collections /\ db.tables' = db.tables
    /\ UserColumns(row.slug)' = columns /\ StoredFieldSlugs(row.id)' = columns
    /\ Kept(row)

SameCatalog ==
    /\ \A r \in collections' : \E q \in collections : q.id = r.id /\ q.slug = r.slug
    /\ \A q \in collections : \E r \in collections' : q.id = r.id /\ q.slug = r.slug
    /\ DistinctIds(collections')
    /\ db.tables' = db.tables
    /\ \A t \in Slugs : UserColumns(t)' = UserColumns(t)
    /\ \A id \in CollectionIds : StoredFieldSlugs(id)' = StoredFieldSlugs(id)

CatalogStep ==
    \/ \E row \in CollectionRow, columns \in SUBSET FieldSlugs : CollectionAdded(row, columns)
    \/ \E row \in collections : CollectionRemoved(row)
    \/ \E row \in collections : \E s \in FieldSlugs :
          \/ s \notin StoredFieldSlugs(row.id)
             /\ ColumnsSet(row, StoredFieldSlugs(row.id) \cup {s})
          \/ s \in StoredFieldSlugs(row.id)
             /\ ColumnsSet(row, StoredFieldSlugs(row.id) \ {s})
    \/ SameCatalog

\* MetaMatchesTables without the keys of the fields.
Matched ==
    /\ db.tables = {r.slug : r \in collections}
    /\ \A r \in collections : UserColumns(r.slug) = StoredFieldSlugs(r.id)
    /\ \A q, r \in collections : q.id = r.id \/ q.slug = r.slug => q = r

LEMMA CatalogStepMatched ==
    ASSUME TypeInv, TypeInv', Matched, CatalogStep
    PROVE  Matched'
  <1>1. collections \subseteq CollectionRow /\ collections' \subseteq CollectionRow
    BY DEF TypeInv, TypeOK
  <1>2. ASSUME NEW row \in CollectionRow, NEW columns, CollectionAdded(row, columns)
        PROVE  Matched'
    <2>1. db.tables' = {r.slug : r \in collections'}
      BY <1>2 DEF CollectionAdded, Matched
    <2>2. ASSUME NEW r \in collections'
          PROVE  UserColumns(r.slug)' = StoredFieldSlugs(r.id)'
      <3>1. CASE r = row
        BY <1>2, <3>1 DEF CollectionAdded
      <3>2. CASE r # row
        <4>1. r \in collections /\ r.id # row.id /\ r.slug # row.slug
          BY <1>2, <3>2, <2>2 DEF CollectionAdded
        <4>2. r.id \in CollectionIds \ {row.id} /\ r.slug \in Slugs \ {row.slug}
          BY <1>1, <4>1 DEF CollectionRow
        <4>3. UserColumns(r.slug)' = UserColumns(r.slug)
              /\ StoredFieldSlugs(r.id)' = StoredFieldSlugs(r.id)
          BY <1>2, <4>2 DEF CollectionAdded, Kept, ColumnsKept, FieldsKept
        <4> QED BY <4>1, <4>3 DEF Matched
      <3> QED BY <3>1, <3>2
    <2>3. \A q, r \in collections' : q.id = r.id \/ q.slug = r.slug => q = r
      BY <1>2 DEF CollectionAdded, Matched
    <2> QED BY <2>1, <2>2, <2>3 DEF Matched
  <1>3. ASSUME NEW row \in collections, CollectionRemoved(row)
        PROVE  Matched'
    <2>1. \A r \in collections' : r \in collections /\ r.id # row.id /\ r.slug # row.slug
      BY <1>3 DEF CollectionRemoved, Matched
    <2>2. db.tables' = {r.slug : r \in collections'}
      BY <1>3, <2>1 DEF CollectionRemoved, Matched
    <2>3. ASSUME NEW r \in collections'
          PROVE  UserColumns(r.slug)' = StoredFieldSlugs(r.id)'
      <3>1. r.id \in CollectionIds \ {row.id} /\ r.slug \in Slugs \ {row.slug}
        BY <1>1, <2>1 DEF CollectionRow
      <3>2. UserColumns(r.slug)' = UserColumns(r.slug)
            /\ StoredFieldSlugs(r.id)' = StoredFieldSlugs(r.id)
        BY <1>3, <3>1 DEF CollectionRemoved, Kept, ColumnsKept, FieldsKept
      <3> QED BY <2>1, <3>2 DEF Matched
    <2>4. \A q, r \in collections' : q.id = r.id \/ q.slug = r.slug => q = r
      BY <2>1 DEF Matched
    <2> QED BY <2>2, <2>3, <2>4 DEF Matched
  <1>4. ASSUME NEW row \in collections, NEW columns, ColumnsSet(row, columns)
        PROVE  Matched'
    <2>1. ASSUME NEW r \in collections'
          PROVE  UserColumns(r.slug)' = StoredFieldSlugs(r.id)'
      <3>1. CASE r = row
        BY <1>4, <3>1 DEF ColumnsSet
      <3>2. CASE r # row
        <4>1. r \in collections
          BY <1>4 DEF ColumnsSet
        <4>2. r.id \in CollectionIds \ {row.id} /\ r.slug \in Slugs \ {row.slug}
          BY <1>1, <3>2, <4>1 DEF CollectionRow, Matched
        <4>3. UserColumns(r.slug)' = UserColumns(r.slug)
              /\ StoredFieldSlugs(r.id)' = StoredFieldSlugs(r.id)
          BY <1>4, <4>2 DEF ColumnsSet, Kept, ColumnsKept, FieldsKept
        <4> QED BY <4>1, <4>3 DEF Matched
      <3> QED BY <3>1, <3>2
    <2>2. UNCHANGED collections /\ db.tables' = db.tables
      BY <1>4 DEF ColumnsSet
    <2> QED BY <2>1, <2>2 DEF Matched
  <1>5. CASE SameCatalog
    <2>1. db.tables' = {r.slug : r \in collections'}
      <3>1. \A s : (\E r \in collections : r.slug = s) <=> (\E r \in collections' : r.slug = s)
        BY <1>5 DEF SameCatalog
      <3> QED BY <1>5, <3>1 DEF SameCatalog, Matched
    <2>2. ASSUME NEW r \in collections'
          PROVE  UserColumns(r.slug)' = StoredFieldSlugs(r.id)'
      <3>1. PICK q \in collections : q.id = r.id /\ q.slug = r.slug
        BY <1>5 DEF SameCatalog
      <3>2. r.id \in CollectionIds /\ r.slug \in Slugs
        BY <1>1 DEF CollectionRow
      <3> QED BY <1>5, <3>1, <3>2 DEF SameCatalog, Matched
    <2>3. \A q, r \in collections' : q.id = r.id \/ q.slug = r.slug => q = r
      BY <1>5 DEF SameCatalog, DistinctIds, Matched
    <2> QED BY <2>1, <2>2, <2>3 DEF Matched
  <1> QED BY <1>2, <1>3, <1>4, <1>5 DEF CatalogStep

(***************************************************************************)
(* What a change of the field rows does to the stored columns.             *)
(***************************************************************************)
\* New rows of one collection.
LEMMA FieldsAdded ==
    ASSUME NEW id, NEW fs, fields' = fields \cup fs, \A f \in fs : f.coll = id
    PROVE  /\ StoredFieldSlugs(id)' =
                StoredFieldSlugs(id) \cup {f.slug : f \in {g \in fs : g.type \notin NoColumnTypes}}
           /\ FieldsKept(id)
  BY DEF FieldsKept, StoredFieldSlugs, FieldsOf

\* One row goes.
LEMMA FieldRemoved ==
    ASSUME FieldKeys, NEW f \in fields, fields' = {g \in fields : g.id # f.id}
    PROVE  /\ StoredFieldSlugs(f.coll)' =
                IF f.type \in NoColumnTypes THEN StoredFieldSlugs(f.coll)
                ELSE StoredFieldSlugs(f.coll) \ {f.slug}
           /\ FieldsKept(f.coll)
  <1>1. fields' = fields \ {f}
    BY DEF FieldKeys
  <1>2. \A g \in fields : g.coll = f.coll /\ g.slug = f.slug => g = f
    BY DEF FieldKeys
  <1>3. StoredFieldSlugs(f.coll)' =
          {g.slug : g \in {h \in fields \ {f} : h.coll = f.coll /\ h.type \notin NoColumnTypes}}
    BY <1>1 DEF StoredFieldSlugs, FieldsOf
  <1>4. StoredFieldSlugs(f.coll) =
          {g.slug : g \in {h \in fields : h.coll = f.coll /\ h.type \notin NoColumnTypes}}
    BY DEF StoredFieldSlugs, FieldsOf
  <1>5. FieldsKept(f.coll)
    BY <1>1 DEF FieldsKept, StoredFieldSlugs, FieldsOf
  <1>6. CASE f.type \in NoColumnTypes
    BY <1>3, <1>4, <1>5, <1>6
  <1>7. CASE f.type \notin NoColumnTypes
    BY <1>2, <1>3, <1>4, <1>5, <1>7
  <1> QED BY <1>6, <1>7

\* Rows change in their type, between types with a column, and in NOT NULL.
LEMMA FieldsRetyped ==
    ASSUME \A f \in fields : \E g \in fields' : SameColumn(g, f),
           \A g \in fields' : \E f \in fields : SameColumn(g, f)
    PROVE  \A id \in CollectionIds : StoredFieldSlugs(id)' = StoredFieldSlugs(id)
  <1> SUFFICES ASSUME NEW id
               PROVE  StoredFieldSlugs(id)' = StoredFieldSlugs(id)
    OBVIOUS
  <1>1. \A s : s \in StoredFieldSlugs(id) <=>
               \E f \in fields : f.coll = id /\ f.type \notin NoColumnTypes /\ f.slug = s
    BY DEF StoredFieldSlugs, FieldsOf
  <1>2. \A s : s \in StoredFieldSlugs(id)' <=>
               \E f \in fields' : f.coll = id /\ f.type \notin NoColumnTypes /\ f.slug = s
    BY DEF StoredFieldSlugs, FieldsOf
  <1>3. \A s : s \in StoredFieldSlugs(id)' <=> s \in StoredFieldSlugs(id)
    BY <1>1, <1>2 DEF SameColumn
  <1> QED BY <1>3 DEF StoredFieldSlugs

(***************************************************************************)
(* What a transaction adds to the history it knew already, or it stores it.  *)
(***************************************************************************)
\* The history holds what was known or is stored now, and nothing else.
HistoryLearnt ==
    /\ \A id \in CollectionIds, s \in Slugs :
          Remembers(id, s)' => Known(id, s) \/ Stored(id, s)'
    /\ \A col \in Snapshot : Archived(col)' => Held(col)
    /\ \A f \in Field : RecordedField(f)' => Seen(f) \/ f \in fields'

LEMMA RecordAppends ==
    ASSUME TypeInv, NEW coll, NEW op, NEW payload, NEW down,
           Record(coll, op, payload, down)
    PROVE  History' = History \cup
              {[coll |-> coll, op |-> op, payload |-> payload, down |-> down,
                rolledBack |-> FALSE]}
  <1> DEFINE m == [coll |-> coll, op |-> op, payload |-> payload, down |-> down,
                   rolledBack |-> FALSE]
  <1>1. migrations \in Seq(MigrationRow) /\ migrations' = Append(migrations, m)
    BY DEF Record, TypeInv, TypeOK
  <1> HIDE DEF m
  <1>2. /\ Len(migrations') = Len(migrations) + 1
        /\ migrations'[Len(migrations) + 1] = m
        /\ \A i \in 1..Len(migrations) : migrations'[i] = migrations[i]
    BY <1>1
  <1>3. Len(migrations) \in Nat
    BY <1>1
  <1>4. \A i \in 1..(Len(migrations) + 1) :
           i \in 1..Len(migrations) \/ i = Len(migrations) + 1
    BY <1>3
  <1>5. \A i \in 1..Len(migrations) : i \in 1..(Len(migrations) + 1)
    BY <1>3
  <1>6. Len(migrations) + 1 \in 1..(Len(migrations) + 1)
    BY <1>3
  <1>7. History' = History \cup {m}
    BY <1>2, <1>4, <1>5, <1>6 DEF History
  <1> QED BY <1>7 DEF m

LEMMA RecordLearns ==
    ASSUME TypeInv, NEW coll, NEW op, NEW payload, NEW down,
           Record(coll, op, payload, down),
           down # NoDDL => Known(coll, down.table) \/ Stored(coll, down.table)',
           op = "drop_collection" => Held(payload),
           op \in {"add_field", "drop_field"} => Seen(payload) \/ payload \in fields'
    PROVE  HistoryLearnt
  <1> DEFINE m == [coll |-> coll, op |-> op, payload |-> payload, down |-> down,
                   rolledBack |-> FALSE]
  <1>1. History' = History \cup {m}
    BY RecordAppends
  <1>2. m.coll = coll /\ m.op = op /\ m.payload = payload /\ m.down = down
    OBVIOUS
  <1> HIDE DEF m
  <1>3. \A id, t : Remembers(id, t)' => Remembers(id, t) \/ (down # NoDDL /\ id = coll /\ t = down.table)
    BY <1>1, <1>2 DEF Remembers
  <1>4. \A col : Archived(col)' => Archived(col) \/ (op = "drop_collection" /\ col = payload)
    BY <1>1, <1>2 DEF Archived
  <1>5. \A f : RecordedField(f)' =>
          RecordedField(f) \/ (op \in {"add_field", "drop_field"} /\ f = payload)
    BY <1>1, <1>2 DEF RecordedField
  <1>6. \A id \in CollectionIds, t \in Slugs :
          Remembers(id, t)' => Known(id, t) \/ Stored(id, t)'
    BY <1>3 DEF Known
  <1>7. \A col \in Snapshot : Archived(col)' => Held(col)
    BY <1>4 DEF Held
  <1>8. \A f \in Field : RecordedField(f)' => Seen(f) \/ f \in fields'
    BY <1>5 DEF Seen
  <1> QED BY <1>6, <1>7, <1>8 DEF HistoryLearnt

\* What a rollback marks stays as it was recorded.
LEMMA RollbackMarks ==
    ASSUME TypeInv, NEW c \in Clients, RollbackTx(c)
    PROVE  \A m \in History' : \E k \in History :
              /\ m.coll = k.coll /\ m.op = k.op
              /\ m.payload = k.payload /\ m.down = k.down
  <1> DEFINE a == Args(c)
  <1>1. History' = {IF i = a.mig THEN [migrations[i] EXCEPT !.rolledBack = TRUE]
                    ELSE migrations[i] : i \in 1..Len(migrations)}
    BY DEF RollbackTx, History, TypeInv, TypeOK
  <1>2. \A i \in 1..Len(migrations) :
           LET m == [migrations[i] EXCEPT !.rolledBack = TRUE] IN
           /\ m.coll = migrations[i].coll /\ m.op = migrations[i].op
           /\ m.payload = migrations[i].payload /\ m.down = migrations[i].down
    BY DEF TypeInv, TypeOK, MigrationRow, Recorded
  <1> DEFINE After(i) == IF i = a.mig THEN [migrations[i] EXCEPT !.rolledBack = TRUE]
                         ELSE migrations[i]
  <1>3. \A i \in 1..Len(migrations) :
           /\ After(i).coll = migrations[i].coll /\ After(i).op = migrations[i].op
           /\ After(i).payload = migrations[i].payload /\ After(i).down = migrations[i].down
    BY <1>2
  <1>4. History' = {After(i) : i \in 1..Len(migrations)}
    BY <1>1
  <1> HIDE DEF After
  <1>5. \A i \in 1..Len(migrations) : migrations[i] \in History
    BY DEF History
  <1> QED BY <1>3, <1>4, <1>5

LEMMA TransactionLearns ==
    ASSUME TypeInv, NEW c \in Clients, Transaction(c)
    PROVE  HistoryLearnt
  <1> DEFINE a == Args(c)
  <1>1. CASE CreateCollectionTx(c)
    <2>1. \E id : \E row : \E payload :
            /\ row.id = id /\ row.slug = a.slug /\ collections' = collections \cup {row}
            /\ Record(id, "create_collection", payload, DropTable(a.slug))
      BY <1>1 DEF CreateCollectionTx, GenerateCreateTable
    <2>2. PICK id, s, row, payload :
            /\ row.id = id /\ row.slug = s /\ collections' = collections \cup {row}
            /\ Record(id, "create_collection", payload, DropTable(s))
      BY <2>1
    <2>3. \E r \in collections' : r.id = id /\ r.slug = s
      BY <2>2
    <2>4. Stored(id, s)' /\ DropTable(s).table = s
      BY <2>3 DEF Stored, DropTable
    <2> QED BY <2>2, <2>4, RecordLearns
  <1>2. CASE UpdateCollectionTx(c)
    BY <1>2, RecordLearns DEF UpdateCollectionTx
  <1>3. CASE DropCollectionTx(c)
    <2>1. /\ req[c].phase = "tx" /\ req[c].op = "drop_collection" /\ a = req[c].args
          /\ Record(a.col.id, "drop_collection", a.col,
                    CreateTable(a.col.slug, StoredDefs(a.col.fields)))
      BY <1>3 DEF DropCollectionTx, InTx, Args, GenerateCreateTable
    <2>2. Known(a.col.id, a.col.slug) /\ Held(a.col)
      BY <2>1 DEF Known, Carries, Held, Holds
    <2>3. CreateTable(a.col.slug, StoredDefs(a.col.fields)).table = a.col.slug
      BY DEF CreateTable
    <2> QED BY <2>1, <2>2, <2>3, RecordLearns
  <1>4. CASE AddFieldTx(c)
    <2>1. PICK fid : LET f == NewField(fid, a.id, a.draft) IN
            /\ fields' = fields \cup {f}
            /\ Record(a.id, "add_field", f, GenerateAddColumn(a.slug, f).down)
      BY <1>4 DEF AddFieldTx
    <2>2. Known(a.id, a.slug)
      BY <1>4 DEF AddFieldTx, InTx, Args, Known, Carries
    <2>3. \A f : GenerateAddColumn(a.slug, f).down # NoDDL =>
                   GenerateAddColumn(a.slug, f).down.table = a.slug
      BY DEF GenerateAddColumn, DropColumn
    <2> QED BY <2>1, <2>2, <2>3, RecordLearns
  <1>5. CASE AlterFieldTx(c)
    <2>1. Record(a.old.coll, "alter_field", a.old,
                 GenerateAlterColumn(a.slug, a.old, a.changes).down)
      BY <1>5 DEF AlterFieldTx
    <2>2. Known(a.old.coll, a.slug)
      BY <1>5 DEF AlterFieldTx, InTx, Args, Known, Carries
    <2>3. GenerateAlterColumn(a.slug, a.old, a.changes).down # NoDDL =>
             GenerateAlterColumn(a.slug, a.old, a.changes).down.table = a.slug
      BY DEF GenerateAlterColumn, AlterColumn
    <2> QED BY <2>1, <2>2, <2>3, RecordLearns
  <1>6. CASE DropFieldTx(c)
    <2>1. Record(a.field.coll, "drop_field", a.field,
                 GenerateDropColumn(a.slug, a.field).down)
      BY <1>6 DEF DropFieldTx
    <2>2. Known(a.field.coll, a.slug) /\ Seen(a.field)
      BY <1>6 DEF DropFieldTx, InTx, Args, Known, Carries, Seen, CarriesField
    <2>3. GenerateDropColumn(a.slug, a.field).down # NoDDL =>
             GenerateDropColumn(a.slug, a.field).down.table = a.slug
      BY DEF GenerateDropColumn, AddColumn
    <2> QED BY <2>1, <2>2, <2>3, RecordLearns
  <1>7. CASE SaveProcessTx(c)
    <2>1. Known(a.id, a.slug)
      BY <1>7 DEF SaveProcessTx, InTx, Args, Known, Carries
    <2>2. CASE UNCHANGED migrations
      BY <2>2, HistoryKept DEF HistoryLearnt, Known, Held, Seen
    <2>3. CASE \/ Record(a.id, "enable_process", Absent, DropColumn(a.slug, StatusSlug))
               \/ Record(a.id, "disable_process", Absent, AddColumn(a.slug, StatusDef))
      BY <2>1, <2>3, RecordLearns DEF DropColumn, AddColumn
    <2> QED
      BY <1>7, <2>2, <2>3
      DEF SaveProcessTx, GenerateAddStatusColumn, GenerateDropStatusColumn
  <1>8. CASE RollbackTx(c)
    <2>4. /\ \A id, s : Remembers(id, s)' => Remembers(id, s)
          /\ \A col : Archived(col)' => Archived(col)
          /\ \A f : RecordedField(f)' => RecordedField(f)
      BY <1>8, RollbackMarks DEF Remembers, Archived, RecordedField
    <2> QED BY <2>4 DEF HistoryLearnt, Known, Held, Seen
  <1> QED
    BY <1>1, <1>2, <1>3, <1>4, <1>5, <1>6, <1>7, <1>8 DEF Transaction

(***************************************************************************)
(* Every record holds what undoes it.                                       *)
(***************************************************************************)
LEMMA RecordReverts ==
    ASSUME TypeInv, HistoryReverts, NEW coll, NEW op, NEW payload, NEW down,
           Record(coll, op, payload, down),
           \A m : m.coll = coll /\ m.op = op /\ m.payload = payload /\ m.down = down
                     => Reverts(m)
    PROVE  HistoryReverts'
  <1> DEFINE m == [coll |-> coll, op |-> op, payload |-> payload, down |-> down,
                   rolledBack |-> FALSE]
  <1>1. History' = History \cup {m}
    BY RecordAppends
  <1>2. Reverts(m)
    OBVIOUS
  <1> HIDE DEF m
  <1> QED BY <1>1, <1>2 DEF HistoryReverts

LEMMA TransactionReverts ==
    ASSUME TypeInv, HistoryReverts, NEW c \in Clients, Transaction(c)
    PROVE  HistoryReverts'
  <1> DEFINE a == Args(c)
  <1>1. CASE CreateCollectionTx(c)
    <2>1. PICK id, row, fs :
            Record(id, "create_collection", SnapshotOf(row, fs), DropTable(a.slug))
      BY <1>1 DEF CreateCollectionTx, GenerateCreateTable
    <2>2. DropTable(DropTable(a.slug).table) = DropTable(a.slug)
      BY DEF DropTable
    <2> QED BY <2>1, <2>2, RecordReverts DEF Reverts
  <1>2. CASE UpdateCollectionTx(c)
    <2>1. Record(a.id, "update_collection_meta", Absent, NoDDL)
      BY <1>2 DEF UpdateCollectionTx
    <2> QED BY <2>1, RecordReverts DEF Reverts
  <1>3. CASE DropCollectionTx(c)
    <2>1. Record(a.col.id, "drop_collection", a.col,
                 CreateTable(a.col.slug, StoredDefs(a.col.fields)))
      BY <1>3 DEF DropCollectionTx, GenerateCreateTable
    <2> QED BY <2>1, RecordReverts DEF Reverts
  <1>4. CASE AddFieldTx(c)
    <2>1. PICK f : f.coll = a.id /\ Record(a.id, "add_field", f, GenerateAddColumn(a.slug, f).down)
      BY <1>4 DEF AddFieldTx, NewField
    <2>2. f.type \notin NoColumnTypes =>
            /\ GenerateAddColumn(a.slug, f).down = DropColumn(a.slug, f.slug)
            /\ DropColumn(a.slug, f.slug).table = a.slug
      BY DEF GenerateAddColumn, DropColumn
    <2> QED BY <2>1, <2>2, RecordReverts DEF Reverts
  <1>5. CASE AlterFieldTx(c)
    <2>1. Record(a.old.coll, "alter_field", a.old,
                 GenerateAlterColumn(a.slug, a.old, a.changes).down)
      BY <1>5 DEF AlterFieldTx
    <2>2. \/ GenerateAlterColumn(a.slug, a.old, a.changes).down = NoDDL
          \/ GenerateAlterColumn(a.slug, a.old, a.changes).down.kind = "alter_column"
      BY DEF GenerateAlterColumn, AlterColumn
    <2> QED BY <2>1, <2>2, RecordReverts DEF Reverts
  <1>6. CASE DropFieldTx(c)
    <2> DEFINE f == a.field
               down == AddColumn(a.slug, [slug |-> f.slug, type |-> f.type, notNull |-> FALSE])
    <2>1. Record(f.coll, "drop_field", f, GenerateDropColumn(a.slug, f).down)
      BY <1>6 DEF DropFieldTx
    <2>2. f.type \notin NoColumnTypes =>
            /\ GenerateDropColumn(a.slug, f).down = down
            /\ down = AddColumn(down.table, [slug |-> f.slug, type |-> f.type,
                                             notNull |-> FALSE])
      BY DEF GenerateDropColumn, AddColumn
    <2> HIDE DEF down
    <2> QED BY <2>1, <2>2, RecordReverts DEF Reverts
  <1>7. CASE SaveProcessTx(c)
    <2>1. CASE UNCHANGED migrations
      BY <2>1 DEF HistoryReverts, History
    <2>2. CASE Record(a.id, "enable_process", Absent, DropColumn(a.slug, StatusSlug))
      <3>1. DropColumn(a.slug, StatusSlug).table = a.slug
        BY DEF DropColumn
      <3> QED BY <2>2, <3>1, RecordReverts DEF Reverts
    <2>3. CASE Record(a.id, "disable_process", Absent, AddColumn(a.slug, StatusDef))
      <3>1. AddColumn(a.slug, StatusDef).table = a.slug
        BY DEF AddColumn
      <3> QED BY <2>3, <3>1, RecordReverts DEF Reverts
    <2> QED
      BY <1>7, <2>1, <2>2, <2>3
      DEF SaveProcessTx, GenerateAddStatusColumn, GenerateDropStatusColumn
  <1>8. CASE RollbackTx(c)
    <2> SUFFICES ASSUME NEW m \in History'
                 PROVE  Reverts(m)
      BY DEF HistoryReverts
    <2>1. PICK k \in History : /\ m.coll = k.coll /\ m.op = k.op
                               /\ m.payload = k.payload /\ m.down = k.down
      BY <1>8, RollbackMarks
    <2>2. Reverts(k)
      BY DEF HistoryReverts
    <2> QED BY <2>1, <2>2 DEF Reverts
  <1> QED
    BY <1>1, <1>2, <1>3, <1>4, <1>5, <1>6, <1>7, <1>8 DEF Transaction

(***************************************************************************)
(* Transactions keep the facts: they learn only what they write under new   *)
(* identities.                                                             *)
(***************************************************************************)
LEMMA AfterTx ==
    ASSUME TypeInv, TypeInv', Facts, NEW c \in Clients, NEW r, Goto(c, r),
           r.phase \in {"reload", "remove", "reload_process", "load"},
           UNCHANGED byID, issued \subseteq issued', HistoryLearnt,
           \A q \in collections' :
              \/ \E p \in collections : p.id = q.id /\ p.slug = q.slug
              \/ q.id \in issued' \ issued \/ Known(q.id, q.slug),
           \A p, q \in collections' : p.id = q.id => p = q,
           \A f \in fields' :
              \/ \E g \in fields : g.id = f.id /\ SameColumn(f, g)
              \/ f.id \in issued' \ issued \/ Seen(f),
           FieldKeys'
    PROVE  Facts'
  <1>1. req'[c] = r /\ \A d \in Clients \ {c} : req'[d] = req[d]
    BY DEF Goto, TypeInv, TypeOK
  <1>2. \A id, s : ~Carries(r, id, s)
    BY DEF Carries
  <1>3. (\A f : ~CarriesField(r, f)) /\ \A col : ~Holds(r, col)
    BY DEF CarriesField, Holds
  <1>8. \A col \in Snapshot : Held(col)' => Held(col) \/ Current(col)
    <2>1. \A id \in CollectionIds : byID'[id] # Absent => Held(byID'[id])
      BY DEF Held
    <2> QED BY <1>3, <2>1, HeldAfter DEF HistoryLearnt
  <1>9. \A f \in Field : Seen(f)' => Seen(f) \/ f \in fields'
    BY <1>3, <1>8, SeenAfter DEF HistoryLearnt
  <1>4. SlugsFixed'
    <2>1. ASSUME NEW id \in CollectionIds, NEW s \in Slugs, Known(id, s)'
          PROVE  \/ Known(id, s)
                 \/ Stored(id, s)' /\ id \in issued' \ issued
      <3>1. CASE Stored(id, s)'
        BY <3>1 DEF Stored, Known
      <3>2. CASE ~Stored(id, s)'
        BY <1>1, <1>2, <2>1, <3>2 DEF Known, InCache, HistoryLearnt
      <3> QED BY <3>1, <3>2
    <2>2. \A id, s, t : Stored(id, s)' /\ Stored(id, t)' => s = t
      BY DEF Stored
    <2> QED BY <2>1, <2>2 DEF Facts, SlugsFixed
  <1>5. FieldsFixed'
    <2>1. ASSUME NEW f \in Field, Seen(f)'
          PROVE  \/ \E g \in Field : Seen(g) /\ g.id = f.id /\ SameColumn(f, g)
                 \/ f \in fields' /\ f.id \in issued' \ issued
      <3>1. CASE f \in fields'
        BY <3>1 DEF Seen, SameColumn, TypeInv, TypeOK
      <3>2. CASE f \notin fields'
        <4>1. Seen(f)
          BY <1>9, <2>1, <3>2
        <4> QED BY <4>1 DEF SameColumn
      <3> QED BY <3>1, <3>2
    <2>2. \A f, g \in fields' : f.id = g.id => f = g
      BY DEF FieldKeys
    <2>3. \A f, g, h : SameColumn(f, g) /\ SameColumn(h, g) => SameColumn(f, h)
      BY DEF SameColumn
    <2> QED BY <2>1, <2>2, <2>3 DEF Facts, FieldsFixed, SameColumn
  <1>6. CallsAllowed'
    BY CallAllowed
  <1>7. CacheKeyed'
    BY DEF Facts, CacheKeyed
  <1>10. HeldWhole'
    BY <1>8, WholeAfter
  <1> QED BY <1>4, <1>5, <1>6, <1>7, <1>10 DEF Facts

(***************************************************************************)
(* Transactions.                                                           *)
(***************************************************************************)
CatalogAfter ==
    CatalogStep /\ Facts' /\ FieldKeys' /\ FieldsHaveCollection' /\ ColumnsHaveTable'

\* CREATE TABLE has a column for each field that is stored.
LEMMA DefinedColumns ==
    ASSUME NEW fs
    PROVE  {d.slug : d \in StoredDefs(fs)}
             = {f.slug : f \in {g \in fs : g.type \notin NoColumnTypes}}
  <1> DEFINE stored == {g \in fs : g.type \notin NoColumnTypes}
  <1>1. \A f : DefOf(f).slug = f.slug
    BY DEF DefOf
  <1>2. StoredDefs(fs) = {DefOf(f) : f \in stored}
    BY DEF StoredDefs
  <1> HIDE DEF stored
  <1>3. {d.slug : d \in StoredDefs(fs)} = {f.slug : f \in stored}
    BY <1>1, <1>2
  <1> QED BY <1>3 DEF stored

LEMMA CreateCollectionTxCatalog ==
    ASSUME TypeInv, TypeInv', CatalogInv, NEW c \in Clients, CreateCollectionTx(c)
    PROVE  CatalogAfter
  <1>0. HistoryLearnt
    BY TransactionLearns DEF Transaction
  <1> DEFINE a == Args(c)
  <1>1. /\ req[c].phase = "tx" /\ req[c].op = "create_collection"
        /\ a \in [slug : Slugs, label : Labels, drafts : SUBSET Drafts]
    BY TxArgs DEF CreateCollectionTx, InTx, Args, TypeInv, TypeOK
  <1>2. PICK id \in CollectionIds \ issued,
             fid \in [a.drafts -> FieldIds \ issued] :
          LET row == [id |-> id, slug |-> a.slug, label |-> a.label]
              fs  == {NewField(fid[d], id, d) : d \in a.drafts}
              ddl == GenerateCreateTable(a.slug, fs)
          IN  /\ \A d, e \in a.drafts : fid[d] = fid[e] => d = e
              /\ \A r \in collections : r.id # id /\ r.slug # a.slug
              /\ CanExec(db, ddl.up)
              /\ collections' = collections \cup {row}
              /\ fields' = fields \cup fs
              /\ db' = Exec(db, ddl.up)
              /\ issued' = issued \cup {id} \cup {fid[d] : d \in a.drafts}
              /\ Goto(c, ReloadCollection(id))
    BY DEF CreateCollectionTx
  <1> DEFINE fs == {NewField(fid[d], id, d) : d \in a.drafts}
  <1>3. PICK row \in CollectionRow :
           row = [id |-> id, slug |-> a.slug, label |-> a.label]
    BY <1>1 DEF CollectionRow
  <1>4. fs \in SUBSET Field /\ \A f \in fs : f.coll = id
    BY <1>1 DEF NewField, Field, Drafts, Draft
  <1>5. \A f \in fs : f.id \in issued' \ issued
    BY <1>2 DEF NewField
  <1>6. \A d, e \in a.drafts : d.slug = e.slug => d = e
    BY <1>1 DEF CatalogInv, Facts, CallsAllowed, Args
  <1>7. \A f, g \in fs : f.id = g.id \/ f.slug = g.slug => f = g
    BY <1>2, <1>6 DEF NewField
  <1> HIDE DEF fs
  <1>8. \A f \in fields : f.id \in issued /\ f.coll # id
    <2>1. ASSUME NEW f \in fields PROVE f.id \in issued
      BY DEF CatalogInv, Facts, FieldsFixed, Seen, TypeInv, TypeOK
    <2>2. ASSUME NEW f \in fields PROVE f.coll # id
      BY <1>2 DEF CatalogInv, FieldsHaveCollection
    <2> QED BY <2>1, <2>2
  <1>9. FieldKeys'
    BY <1>2, <1>4, <1>5, <1>7, <1>8 DEF fs, FieldKeys, CatalogInv, MetaMatchesTables
  <1>12. PICK columns \in SUBSET FieldSlugs :
            columns = {f.slug : f \in {g \in fs : g.type \notin NoColumnTypes}}
    BY <1>4 DEF Field
  <1>10. /\ StoredFieldSlugs(id)' = columns
         /\ FieldsKept(id)
    <2>1. /\ StoredFieldSlugs(id)' = StoredFieldSlugs(id) \cup columns
          /\ FieldsKept(id)
      BY <1>2, <1>4, <1>12, FieldsAdded DEF fs
    <2>2. StoredFieldSlugs(id) = {}
      BY <1>8 DEF StoredFieldSlugs, FieldsOf
    <2> QED BY <2>1, <2>2
  <1>11. /\ db.tables' = db.tables \cup {row.slug}
         /\ UserColumns(row.slug)' = columns
         /\ ColumnsKept(row.slug) /\ ColumnsHaveTable'
    <2>1. StoredDefs(fs) \in SUBSET ColumnDef
      BY <1>4, FieldDefs
    <2>2. CanExec(db, CreateTable(row.slug, StoredDefs(fs)))
          /\ db' = Exec(db, CreateTable(row.slug, StoredDefs(fs)))
      BY <1>2, <1>3 DEF fs, GenerateCreateTable
    <2>3. /\ db.tables' = db.tables \cup {row.slug}
          /\ UserColumns(row.slug)' = {d.slug : d \in StoredDefs(fs)} \ {StatusSlug}
          /\ ColumnsKept(row.slug) /\ ColumnsHaveTable'
      BY <1>3, <2>1, <2>2, CreateTableEffect DEF CatalogInv, CollectionRow
    <2>4. {d.slug : d \in StoredDefs(fs)} = columns
      BY <1>12, DefinedColumns
    <2>5. StatusSlug \notin columns
      BY SlugsAssumption
    <2> QED BY <2>3, <2>4, <2>5
  <1>13. CollectionAdded(row, columns)
    BY <1>2, <1>3, <1>10, <1>11 DEF CollectionAdded, Kept
  <1>14. FieldsHaveCollection'
    BY <1>2, <1>3, <1>4 DEF fs, FieldsHaveCollection, CatalogInv
  <1>15. Facts'
    <2>1. \A q \in collections' :
              \/ \E p \in collections : p.id = q.id /\ p.slug = q.slug
              \/ q.id \in issued' \ issued
      BY <1>2, <1>3
    <2>2. \A p, q \in collections' : p.id = q.id => p = q
      BY <1>2, <1>3 DEF CatalogInv, MetaMatchesTables
    <2>3. \A f \in fields' :
              \/ \E g \in fields : g.id = f.id /\ SameColumn(f, g)
              \/ f.id \in issued' \ issued
      BY <1>2, <1>5 DEF fs, SameColumn
    <2>4. UNCHANGED byID /\ issued \subseteq issued'
      BY <1>2 DEF CreateCollectionTx, cache
    <2>5. Goto(c, ReloadCollection(id)) /\ ReloadCollection(id).phase = "reload"
      BY <1>2 DEF ReloadCollection
    <2> QED BY <1>0, <1>9, <2>1, <2>2, <2>3, <2>4, <2>5, AfterTx DEF CatalogInv
  <1> QED
    BY <1>3, <1>9, <1>11, <1>12, <1>13, <1>14, <1>15 DEF CatalogAfter, CatalogStep

\* Transactions that leave the database, the field rows and the identities alone.
LEMMA UpdateCollectionTxCatalog ==
    ASSUME TypeInv, TypeInv', CatalogInv, NEW c \in Clients, UpdateCollectionTx(c)
    PROVE  CatalogAfter
  <1>0. HistoryLearnt
    BY TransactionLearns DEF Transaction
  <1>1. PICK id, label :
          /\ collections' = {IF r.id = id /\ label # Keep
                             THEN [r EXCEPT !.label = label] ELSE r : r \in collections}
          /\ Goto(c, ReloadCollection(id))
    BY DEF UpdateCollectionTx
  <1> DEFINE After(r) == IF r.id = id /\ label # Keep
                         THEN [r EXCEPT !.label = label] ELSE r
  <1>2. UNCHANGED <<fields, db, issued, byID>>
    BY DEF UpdateCollectionTx, cache
  <1>3. \A r \in collections : After(r).id = r.id /\ After(r).slug = r.slug
    BY DEF TypeInv, TypeOK, CollectionRow
  <1>4. collections' = {After(r) : r \in collections}
    BY <1>1
  <1> HIDE DEF After
  <1>5. DistinctIds(collections')
    BY <1>3, <1>4 DEF DistinctIds, CatalogInv, MetaMatchesTables
  <1>6. SameCatalog
    <2>1. \A r \in collections' : \E q \in collections : q.id = r.id /\ q.slug = r.slug
      BY <1>3, <1>4
    <2>2. \A q \in collections : \E r \in collections' : q.id = r.id /\ q.slug = r.slug
      BY <1>3, <1>4
    <2>3. \A t \in Slugs : UserColumns(t)' = UserColumns(t)
      BY <1>2 DEF UserColumns, ColumnsOf
    <2>4. \A k \in CollectionIds : StoredFieldSlugs(k)' = StoredFieldSlugs(k)
      BY <1>2 DEF StoredFieldSlugs, FieldsOf
    <2> QED BY <1>2, <1>5, <2>1, <2>2, <2>3, <2>4 DEF SameCatalog
  <1>7. FieldKeys'
    BY <1>2 DEF FieldKeys, CatalogInv, MetaMatchesTables
  <1>8. FieldsHaveCollection' /\ ColumnsHaveTable'
    BY <1>2, <1>3, <1>4 DEF FieldsHaveCollection, ColumnsHaveTable, CatalogInv
  <1>9. Facts'
    <2>1. \A q \in collections' : \E p \in collections : p.id = q.id /\ p.slug = q.slug
      BY <1>3, <1>4
    <2>2. \A f \in fields' : \E g \in fields : g.id = f.id /\ SameColumn(f, g)
      BY <1>2 DEF SameColumn
    <2>3. \A p, q \in collections' : p.id = q.id => p = q
      BY <1>5 DEF DistinctIds
    <2>4. ReloadCollection(id).phase = "reload"
      BY DEF ReloadCollection
    <2> QED BY <1>0, <1>1, <1>2, <1>7, <2>1, <2>2, <2>3, <2>4, AfterTx DEF CatalogInv
  <1> QED BY <1>6, <1>7, <1>8, <1>9 DEF CatalogAfter, CatalogStep

LEMMA DropCollectionTxCatalog ==
    ASSUME TypeInv, TypeInv', CatalogInv, NEW c \in Clients, DropCollectionTx(c)
    PROVE  CatalogAfter
  <1>0. HistoryLearnt
    BY TransactionLearns DEF Transaction
  <1>1. PICK col \in Snapshot :
          /\ req[c].phase = "tx" /\ req[c].op = "drop_collection" /\ req[c].args.col = col
          /\ \E r \in collections : r.id = col.id
          /\ DeleteCollectionRow(col.id)
          /\ db' = Exec(db, DropTable(col.slug))
          /\ Goto(c, RemoveCollection(col.id))
    BY TxArgs DEF DropCollectionTx, InTx, Args, TypeInv, TypeOK
  <1>2. UNCHANGED <<issued, byID>>
    BY DEF DropCollectionTx, cache
  <1>3. PICK row \in collections : row.id = col.id
    BY <1>1
  <1>4. row.slug = col.slug /\ row.id \in CollectionIds /\ row.slug \in Slugs
    <2>1. row.id \in CollectionIds /\ row.slug \in Slugs /\ col.slug \in Slugs
      BY DEF TypeInv, TypeOK, CollectionRow, Snapshot
    <2>2. Known(row.id, row.slug) /\ Known(row.id, col.slug)
      BY <1>1, <1>3 DEF Known, Stored, Carries
    <2> QED BY <2>1, <2>2 DEF CatalogInv, Facts, SlugsFixed
  <1>5. collections' = collections \ {row} /\ fields' = {f \in fields : f.coll # row.id}
    BY <1>1, <1>3 DEF DeleteCollectionRow, CatalogInv, MetaMatchesTables
  <1>6. FieldsKept(row.id)
    BY <1>5 DEF FieldsKept, StoredFieldSlugs, FieldsOf
  <1>7. db.tables' = db.tables \ {row.slug} /\ ColumnsKept(row.slug) /\ ColumnsHaveTable'
    BY <1>1, <1>4, DropTableEffect DEF CatalogInv
  <1>8. CollectionRemoved(row)
    BY <1>5, <1>6, <1>7 DEF CollectionRemoved, Kept
  <1>9. FieldKeys'
    BY <1>5 DEF FieldKeys, CatalogInv, MetaMatchesTables
  <1>10. FieldsHaveCollection'
    BY <1>5 DEF FieldsHaveCollection, CatalogInv
  <1>11. Facts'
    <2>1. \A f \in fields' : \E g \in fields : g.id = f.id /\ SameColumn(f, g)
      BY <1>5 DEF SameColumn
    <2>2. \A p, q \in collections' : p.id = q.id => p = q
      BY <1>5 DEF CatalogInv, MetaMatchesTables
    <2>3. \A q \in collections' : \E p \in collections : p.id = q.id /\ p.slug = q.slug
      BY <1>5
    <2>4. RemoveCollection(col.id).phase = "remove"
      BY DEF RemoveCollection
    <2> QED BY <1>0, <1>1, <1>2, <1>9, <2>1, <2>2, <2>3, <2>4, AfterTx DEF CatalogInv
  <1> QED BY <1>7, <1>8, <1>9, <1>10, <1>11 DEF CatalogAfter, CatalogStep

(***************************************************************************)
(* Field transactions: the collection they name is stored, under the slug   *)
(* the preflight found in the cache.                                        *)
(***************************************************************************)
LEMMA CarriedRow ==
    ASSUME TypeInv, CatalogInv, NEW c \in Clients, NEW s \in Slugs, NEW row \in collections,
           Carries(req[c], row.id, s)
    PROVE  row.slug = s
  <1>1. row.id \in CollectionIds /\ row.slug \in Slugs
    BY DEF TypeInv, TypeOK, CollectionRow
  <1>2. Known(row.id, row.slug) /\ Known(row.id, s)
    BY DEF Known, Stored
  <1> QED BY <1>1, <1>2 DEF CatalogInv, Facts, SlugsFixed

\* Collections, cache and the field rows' identities stay.
LEMMA AfterFieldTx ==
    ASSUME TypeInv, TypeInv', CatalogInv, NEW c \in Clients, NEW id,
           Goto(c, ReloadCollection(id)) \/ Goto(c, ReloadProcess(id)),
           UNCHANGED <<collections, byID>>, issued \subseteq issued', HistoryLearnt,
           \A f \in fields' :
              \/ \E g \in fields : g.id = f.id /\ SameColumn(f, g)
              \/ f.id \in issued' \ issued /\ \E r \in collections : r.id = f.coll,
           FieldKeys'
    PROVE  Facts' /\ FieldsHaveCollection'
  <1>1. FieldsHaveCollection'
    BY DEF FieldsHaveCollection, SameColumn, CatalogInv
  <1>2. \A q \in collections' : \E p \in collections : p.id = q.id /\ p.slug = q.slug
    OBVIOUS
  <1>3. \A p, q \in collections' : p.id = q.id => p = q
    BY DEF CatalogInv, MetaMatchesTables
  <1>4. PICK r : Goto(c, r) /\ r.phase \in {"reload", "reload_process"}
    BY DEF ReloadCollection, ReloadProcess
  <1>5. Facts'
    BY <1>2, <1>3, <1>4, AfterTx DEF CatalogInv
  <1> QED BY <1>1, <1>5

\* The catalog stays when tables and stored columns do.
LEMMA OnlyFieldRows ==
    ASSUME CatalogInv, UNCHANGED <<collections, db>>,
           \A id \in CollectionIds : StoredFieldSlugs(id)' = StoredFieldSlugs(id)
    PROVE  SameCatalog /\ ColumnsHaveTable'
  <1>1. \A t \in Slugs : UserColumns(t)' = UserColumns(t)
    BY DEF UserColumns, ColumnsOf
  <1>2. DistinctIds(collections')
    BY DEF DistinctIds, CatalogInv, MetaMatchesTables
  <1>3. ColumnsHaveTable'
    BY DEF ColumnsHaveTable, CatalogInv
  <1> QED BY <1>1, <1>2, <1>3 DEF SameCatalog

LEMMA AddFieldTxCatalog ==
    ASSUME TypeInv, TypeInv', CatalogInv, NEW c \in Clients, AddFieldTx(c)
    PROVE  CatalogAfter
  <1>0. HistoryLearnt
    BY TransactionLearns DEF Transaction
  <1>1. PICK a \in [id : CollectionIds, slug : Slugs, draft : Drafts], fid \in FieldIds \ issued :
          LET f   == NewField(fid, a.id, a.draft)
              ddl == GenerateAddColumn(a.slug, f)
          IN  /\ req[c].phase = "tx" /\ req[c].op = "add_field" /\ req[c].args = a
              /\ \E r \in collections : r.id = a.id
              /\ \A g \in FieldsOf(a.id) : g.slug # f.slug
              /\ CanExec(db, ddl.up)
              /\ fields' = fields \cup {f}
              /\ db' = Exec(db, ddl.up)
              /\ issued' = issued \cup {fid}
              /\ Goto(c, ReloadCollection(a.id))
    BY TxArgs DEF AddFieldTx, InTx, Args, TypeInv, TypeOK, References
  <1>2. PICK f \in Field : f = NewField(fid, a.id, a.draft)
    BY DEF NewField, Field, Drafts, Draft
  <1>3. f.id = fid /\ f.coll = a.id /\ f.slug \in FieldSlugs
    BY <1>2 DEF NewField, Field
  <1>4. PICK row \in collections : row.id = a.id
    BY <1>1
  <1>5. row.slug = a.slug /\ row.id \in CollectionIds /\ row.slug \in Slugs
    BY <1>1, <1>4, CarriedRow DEF Carries
  <1>6. UNCHANGED <<collections, byID>>
    BY DEF AddFieldTx, cache
  <1>7. \A g \in fields : g.id # fid
    BY DEF CatalogInv, Facts, FieldsFixed, Seen, TypeInv, TypeOK
  <1>8. \A g \in fields : g.coll = f.coll => g.slug # f.slug
    BY <1>1, <1>2, <1>3 DEF FieldsOf
  <1>9. FieldKeys'
    BY <1>1, <1>2, <1>3, <1>7, <1>8 DEF FieldKeys, CatalogInv, MetaMatchesTables
  <1>10. Facts' /\ FieldsHaveCollection'
    <2>1. \A g \in fields' :
            \/ \E h \in fields : h.id = g.id /\ SameColumn(g, h)
            \/ g.id \in issued' \ issued /\ \E r \in collections : r.id = g.coll
      BY <1>1, <1>2, <1>3 DEF SameColumn
    <2> QED BY <1>0, <1>1, <1>6, <1>9, <2>1, AfterFieldTx
  <1>11. /\ StoredFieldSlugs(row.id)' = StoredFieldSlugs(row.id) \cup
                (IF f.type \in NoColumnTypes THEN {} ELSE {f.slug})
         /\ FieldsKept(row.id)
    <2> DEFINE fs == {f}
               columns == {g.slug : g \in {h \in fs : h.type \notin NoColumnTypes}}
    <2>1. fields' = fields \cup fs /\ \A g \in fs : g.coll = row.id
      BY <1>1, <1>2, <1>3, <1>4
    <2>2. columns = IF f.type \in NoColumnTypes THEN {} ELSE {f.slug}
      OBVIOUS
    <2> HIDE DEF fs
    <2>3. StoredFieldSlugs(row.id)' = StoredFieldSlugs(row.id) \cup columns
          /\ FieldsKept(row.id)
      BY <2>1, FieldsAdded
    <2> HIDE DEF columns
    <2> QED BY <2>2, <2>3
  <1>12. f.slug \notin StoredFieldSlugs(row.id)
    BY <1>3, <1>4, <1>8 DEF StoredFieldSlugs, FieldsOf
  <1>13. CASE f.type \in NoColumnTypes
    <2>1. db' = db
      BY <1>1, <1>2, <1>13 DEF GenerateAddColumn, NoDDL, Exec
    <2>2. \A id \in CollectionIds : StoredFieldSlugs(id)' = StoredFieldSlugs(id)
      BY <1>11, <1>13 DEF FieldsKept
    <2>3. SameCatalog /\ ColumnsHaveTable'
      BY <1>6, <2>1, <2>2, OnlyFieldRows
    <2> QED BY <1>9, <1>10, <2>3 DEF CatalogAfter, CatalogStep
  <1>14. CASE f.type \notin NoColumnTypes
    <2>1. CanExec(db, AddColumn(row.slug, DefOf(f)))
          /\ db' = Exec(db, AddColumn(row.slug, DefOf(f)))
      BY <1>1, <1>2, <1>5, <1>14 DEF GenerateAddColumn
    <2>2. DefOf(f) \in ColumnDef /\ DefOf(f).slug = f.slug
      BY <1>14 DEF DefOf, ColumnDef, Field, FieldTypes
    <2>3. /\ db.tables' = db.tables /\ ColumnsKept(row.slug) /\ ColumnsHaveTable'
          /\ UserColumns(row.slug)' = UserColumns(row.slug) \cup ({f.slug} \ {StatusSlug})
      BY <1>5, <2>1, <2>2, AddColumnEffect DEF CatalogInv, TypeInv, TypeOK
    <2>4. UserColumns(row.slug) = StoredFieldSlugs(row.id) /\ f.slug # StatusSlug
      BY <1>3, SlugsAssumption DEF CatalogInv, MetaMatchesTables
    <2>5. ColumnsSet(row, StoredFieldSlugs(row.id) \cup {f.slug})
      BY <1>6, <1>11, <1>14, <2>3, <2>4 DEF ColumnsSet, Kept
    <2> QED BY <1>3, <1>9, <1>10, <1>12, <2>3, <2>5 DEF CatalogAfter, CatalogStep
  <1> QED BY <1>13, <1>14

LEMMA AlterFieldTxCatalog ==
    ASSUME TypeInv, TypeInv', CatalogInv, NEW c \in Clients, AlterFieldTx(c)
    PROVE  CatalogAfter
  <1>0. HistoryLearnt
    BY TransactionLearns DEF Transaction
  <1>1. PICK old \in Field, slug \in Slugs, chg \in Changes :
          /\ req[c].phase = "tx" /\ req[c].op = "alter_field" /\ req[c].args.old = old
          /\ AllowedChange(old.type, chg.type)
          /\ UpdateFieldRow(old.id, chg)
          /\ db' = Exec(db, GenerateAlterColumn(slug, old, chg).up)
          /\ Goto(c, ReloadCollection(old.coll))
    BY TxArgs DEF AlterFieldTx, InTx, Args, TypeInv, TypeOK
  <1>2. UNCHANGED <<collections, issued, byID>>
    BY DEF AlterFieldTx, cache
  <1> DEFINE After(f) == IF f.id # old.id THEN f ELSE
                 [f EXCEPT !.type = IF chg.type = Keep THEN @ ELSE chg.type,
                           !.required = IF chg.required = Keep THEN @ ELSE chg.required]
  <1>3. fields' = {After(f) : f \in fields}
    BY <1>1 DEF UpdateFieldRow
  <1>4. ASSUME NEW f \in fields
        PROVE  After(f).id = f.id /\ SameColumn(After(f), f)
    <2>1. f \in Field
      BY DEF TypeInv, TypeOK
    <2>2. CASE f.id # old.id
      BY <2>2 DEF SameColumn
    <2>3. CASE f.id = old.id
      <3>1. SameColumn(f, old)
        BY <1>1, <2>1, <2>3 DEF Seen, CarriesField, CatalogInv, Facts, FieldsFixed
      <3>2. /\ After(f).id = f.id /\ After(f).coll = f.coll /\ After(f).slug = f.slug
            /\ After(f).type = IF chg.type = Keep THEN f.type ELSE chg.type
        BY <2>1, <2>3 DEF Field
      <3>3. chg.type = Keep \/ (chg.type \in NoColumnTypes <=> old.type \in NoColumnTypes)
        BY <1>1, TypesAssumption DEF AllowedChange
      <3> QED BY <3>1, <3>2, <3>3 DEF SameColumn
    <2> QED BY <2>2, <2>3
  <1> HIDE DEF After
  <1>5. /\ \A f \in fields : \E g \in fields' : SameColumn(g, f)
        /\ \A g \in fields' : \E f \in fields : f.id = g.id /\ SameColumn(g, f)
    BY <1>3, <1>4
  <1>6. FieldKeys'
    <2>1. \A f, g \in fields : f.id = g.id \/ (f.coll = g.coll /\ f.slug = g.slug) => f = g
      BY DEF CatalogInv, MetaMatchesTables
    <2> QED BY <1>3, <1>4, <2>1 DEF FieldKeys, SameColumn
  <1>7. Facts' /\ FieldsHaveCollection'
    BY <1>0, <1>1, <1>2, <1>5, <1>6, AfterFieldTx
  <1>8. \A id \in CollectionIds : StoredFieldSlugs(id)' = StoredFieldSlugs(id)
    BY <1>5, FieldsRetyped
  <1>9. /\ db.tables' = db.tables /\ ColumnsHaveTable'
        /\ \A t \in Slugs : UserColumns(t)' = UserColumns(t)
    <2>1. CASE GenerateAlterColumn(slug, old, chg).up = NoDDL
      <3>1. db' = db
        BY <1>1, <2>1 DEF NoDDL, Exec
      <3> QED BY <3>1 DEF UserColumns, ColumnsOf, ColumnsHaveTable, CatalogInv
    <2>2. CASE GenerateAlterColumn(slug, old, chg).up.kind = "alter_column"
      BY <1>1, <2>2, AlterColumnEffect DEF CatalogInv, TypeInv, TypeOK
    <2> QED BY <2>1, <2>2 DEF GenerateAlterColumn, AlterColumn
  <1>10. SameCatalog
    BY <1>2, <1>8, <1>9 DEF SameCatalog, DistinctIds, CatalogInv, MetaMatchesTables
  <1> QED BY <1>6, <1>7, <1>9, <1>10 DEF CatalogAfter, CatalogStep

LEMMA DropFieldTxCatalog ==
    ASSUME TypeInv, TypeInv', CatalogInv, NEW c \in Clients, DropFieldTx(c)
    PROVE  CatalogAfter
  <1>0. HistoryLearnt
    BY TransactionLearns DEF Transaction
  <1>1. PICK read \in Field, slug \in Slugs :
          /\ req[c].phase = "tx" /\ req[c].op = "drop_field"
          /\ req[c].args.field = read /\ req[c].args.slug = slug
          /\ db' = Exec(db, GenerateDropColumn(slug, read).up)
          /\ DeleteFieldRow(read.id)
          /\ Goto(c, ReloadCollection(read.coll))
    BY TxArgs DEF DropFieldTx, InTx, Args, TypeInv, TypeOK
  <1>2. PICK f \in fields : f.id = read.id
    BY <1>1 DEF DeleteFieldRow
  <1>3. f \in Field /\ SameColumn(f, read)
    BY <1>1, <1>2 DEF Seen, CarriesField, CatalogInv, Facts, FieldsFixed, TypeInv, TypeOK
  <1>4. PICK row \in collections : row.id = f.coll
    BY DEF CatalogInv, FieldsHaveCollection
  <1>5. row.slug = slug /\ row.id \in CollectionIds /\ row.slug \in Slugs
    <2>1. row.id = read.coll
      BY <1>3, <1>4 DEF SameColumn
    <2>2. Carries(req[c], row.id, slug)
      BY <1>1, <2>1 DEF Carries
    <2>3. row.slug = slug
      BY <2>2, CarriedRow
    <2> QED BY <2>3 DEF TypeInv, TypeOK, CollectionRow
  <1>6. UNCHANGED <<collections, issued, byID>>
    BY DEF DropFieldTx, cache
  <1>7. fields' = {g \in fields : g.id # f.id}
    BY <1>1, <1>2 DEF DeleteFieldRow
  <1>8. FieldKeys /\ FieldKeys'
    BY <1>7 DEF FieldKeys, CatalogInv, MetaMatchesTables
  <1>9. Facts' /\ FieldsHaveCollection'
    <2>1. \A g \in fields' : \E h \in fields : h.id = g.id /\ SameColumn(g, h)
      BY <1>7 DEF SameColumn
    <2> QED BY <1>0, <1>1, <1>6, <1>8, <2>1, AfterFieldTx
  <1>10. /\ StoredFieldSlugs(row.id)' =
               IF f.type \in NoColumnTypes THEN StoredFieldSlugs(row.id)
               ELSE StoredFieldSlugs(row.id) \ {f.slug}
         /\ FieldsKept(row.id)
    BY <1>4, <1>7, <1>8, FieldRemoved
  <1>11. CASE f.type \in NoColumnTypes
    <2>1. db' = db
      BY <1>1, <1>3, <1>11 DEF GenerateDropColumn, NoDDL, Exec, SameColumn
    <2>2. \A id \in CollectionIds : StoredFieldSlugs(id)' = StoredFieldSlugs(id)
      BY <1>10, <1>11 DEF FieldsKept
    <2>3. SameCatalog /\ ColumnsHaveTable'
      BY <1>6, <2>1, <2>2, OnlyFieldRows
    <2> QED BY <1>8, <1>9, <2>3 DEF CatalogAfter, CatalogStep
  <1>12. CASE f.type \notin NoColumnTypes
    <2>1. db' = Exec(db, DropColumn(row.slug, f.slug))
      BY <1>1, <1>3, <1>5, <1>12 DEF GenerateDropColumn, SameColumn
    <2>2. /\ db.tables' = db.tables /\ ColumnsKept(row.slug) /\ ColumnsHaveTable'
          /\ UserColumns(row.slug)' = UserColumns(row.slug) \ {f.slug}
      BY <1>5, <2>1, DropColumnEffect DEF CatalogInv, TypeInv, TypeOK
    <2>3. UserColumns(row.slug) = StoredFieldSlugs(row.id)
      BY DEF CatalogInv, MetaMatchesTables
    <2>4. ColumnsSet(row, StoredFieldSlugs(row.id) \ {f.slug})
      BY <1>6, <1>10, <1>12, <2>2, <2>3 DEF ColumnsSet, Kept
    <2>5. f.slug \in StoredFieldSlugs(row.id) /\ f.slug \in FieldSlugs
      BY <1>3, <1>4, <1>12 DEF StoredFieldSlugs, FieldsOf, Field
    <2> QED BY <1>8, <1>9, <2>2, <2>4, <2>5 DEF CatalogAfter, CatalogStep
  <1> QED BY <1>11, <1>12

\* Switching a process adds or drops _status, which is no user column.
LEMMA SaveProcessTxCatalog ==
    ASSUME TypeInv, TypeInv', CatalogInv, NEW c \in Clients, SaveProcessTx(c)
    PROVE  CatalogAfter
  <1>0. HistoryLearnt
    BY TransactionLearns DEF Transaction
  <1>1. PICK id \in CollectionIds, slug \in Slugs :
          /\ \/ db' = db
             \/ /\ CanExec(db, GenerateAddStatusColumn(slug).up)
                /\ db' = Exec(db, GenerateAddStatusColumn(slug).up)
             \/ db' = Exec(db, GenerateDropStatusColumn(slug).up)
          /\ Goto(c, ReloadProcess(id))
    BY TxArgs DEF SaveProcessTx, InTx, Args, TypeInv, TypeOK
  <1>2. UNCHANGED <<collections, fields, issued, byID>>
    BY DEF SaveProcessTx, cache
  <1>5. StatusSlug \notin UserColumns(slug)
    BY DEF UserColumns
  <1>6. /\ db.tables' = db.tables /\ ColumnsHaveTable'
        /\ \A t \in Slugs : UserColumns(t)' = UserColumns(t)
    <2>1. CASE db' = db
      BY <2>1 DEF UserColumns, ColumnsOf, ColumnsHaveTable, CatalogInv
    <2>2. CASE /\ CanExec(db, GenerateAddStatusColumn(slug).up)
               /\ db' = Exec(db, GenerateAddStatusColumn(slug).up)
      <3>1. StatusDef \in ColumnDef /\ StatusDef.slug = StatusSlug
        BY DEF StatusDef, ColumnDef
      <3>2. CanExec(db, AddColumn(slug, StatusDef))
            /\ db' = Exec(db, AddColumn(slug, StatusDef))
        BY <2>2 DEF GenerateAddStatusColumn
      <3>3. /\ db.tables' = db.tables /\ ColumnsKept(slug) /\ ColumnsHaveTable'
            /\ UserColumns(slug)' = UserColumns(slug) \cup ({StatusSlug} \ {StatusSlug})
        BY <3>1, <3>2, AddColumnEffect DEF CatalogInv, TypeInv, TypeOK
      <3> QED BY <3>3 DEF ColumnsKept
    <2>3. CASE db' = Exec(db, GenerateDropStatusColumn(slug).up)
      <3>1. db' = Exec(db, DropColumn(slug, StatusSlug))
        BY <2>3 DEF GenerateDropStatusColumn
      <3>2. /\ db.tables' = db.tables /\ ColumnsKept(slug) /\ ColumnsHaveTable'
            /\ UserColumns(slug)' = UserColumns(slug) \ {StatusSlug}
        BY <3>1, DropColumnEffect DEF CatalogInv, TypeInv, TypeOK
      <3> QED BY <1>5, <3>2 DEF ColumnsKept
    <2> QED BY <1>1, <2>1, <2>2, <2>3
  <1>7. FieldKeys'
    BY <1>2 DEF FieldKeys, CatalogInv, MetaMatchesTables
  <1>8. Facts' /\ FieldsHaveCollection'
    <2>1. \A g \in fields' : \E h \in fields : h.id = g.id /\ SameColumn(g, h)
      BY <1>2 DEF SameColumn
    <2> QED BY <1>0, <1>1, <1>2, <1>7, <2>1, AfterFieldTx
  <1>9. \A k \in CollectionIds : StoredFieldSlugs(k)' = StoredFieldSlugs(k)
    BY <1>2 DEF StoredFieldSlugs, FieldsOf
  <1>10. SameCatalog
    BY <1>2, <1>6, <1>9 DEF SameCatalog, DistinctIds, CatalogInv, MetaMatchesTables
  <1> QED BY <1>6, <1>7, <1>8, <1>10 DEF CatalogAfter, CatalogStep

(***************************************************************************)
(* Rollback.  The record keeps the slug of its collection and the fields it *)
(* dropped or added as they were: whatever has happened since, the down DDL *)
(* and the restored rows speak of the same column, if every field has one.  *)
(* (A field without a column may take the place of a dropped one; its slug  *)
(* is then taken in the metadata and free in the table.)                    *)
(***************************************************************************)
AllFieldsStored == NoColumnTypes = {}

\* The transaction undoes record m.
Undoes(c, m) ==
    /\ m \in History
    /\ CanExec(db, m.down) /\ db' = Exec(db, m.down)
    /\ RestoreMeta(m)
    /\ Goto(c, Load) /\ UNCHANGED <<issued, byID>> /\ HistoryLearnt

LEMMA RollbackUndoes ==
    ASSUME TypeInv, CatalogInv, NEW c \in Clients, RollbackTx(c)
    PROVE  \E m \in MigrationRow : Undoes(c, m) /\ Reverts(m)
  <1> DEFINE m == migrations[Args(c).mig]
  <1>1. Args(c).mig \in 1..Len(migrations)
    BY DEF RollbackTx, TypeInv, RollbackNamesRecord
  <1>2. m \in MigrationRow /\ m \in History
    BY <1>1 DEF TypeInv, TypeOK, History
  <1>3. HistoryLearnt
    BY TransactionLearns DEF Transaction
  <1>4. /\ CanExec(db, m.down) /\ db' = Exec(db, m.down)
        /\ RestoreMeta(m) /\ Goto(c, Load) /\ UNCHANGED <<issued, byID>>
    BY DEF RollbackTx, cache
  <1>5. Reverts(m)
    BY <1>2 DEF CatalogInv, HistoryReverts
  <1> HIDE DEF m
  <1> QED BY <1>2, <1>3, <1>4, <1>5 DEF Undoes

\* The table a record names is that of its collection.
LEMMA RememberedRow ==
    ASSUME TypeInv, CatalogInv, NEW m \in History, m.down # NoDDL,
           m.down.table \in Slugs, NEW row \in collections, row.id = m.coll
    PROVE  row.slug = m.down.table
  <1>1. row.id \in CollectionIds /\ row.slug \in Slugs
    BY DEF TypeInv, TypeOK, CollectionRow
  <1>2. Known(row.id, row.slug) /\ Known(row.id, m.down.table)
    BY DEF Known, Stored, Remembers
  <1> QED BY <1>1, <1>2 DEF CatalogInv, Facts, SlugsFixed

\* What the store holds afterwards has been known or seen before.
LEMMA AfterRollback ==
    ASSUME TypeInv, TypeInv', CatalogInv, NEW c \in Clients, NEW m, Undoes(c, m),
           \A q \in collections' : Known(q.id, q.slug),
           \A p, q \in collections' : p.id = q.id => p = q,
           \A f \in fields' :
              Seen(f) \/ \E g \in fields : g.id = f.id /\ SameColumn(f, g),
           FieldKeys'
    PROVE  Facts'
  <1>1. Goto(c, Load) /\ Load.phase = "load" /\ UNCHANGED <<issued, byID>> /\ HistoryLearnt
    BY DEF Undoes, Load
  <1> QED BY <1>1, AfterTx DEF CatalogInv

LEMMA StoredKnown ==
    /\ \A r \in collections : Known(r.id, r.slug)
    /\ \A f \in fields : Seen(f)
  BY DEF Known, Stored, Seen

LEMMA UndoCreateCollection ==
    ASSUME TypeInv, TypeInv', CatalogInv, NEW c \in Clients, NEW m \in MigrationRow,
           Undoes(c, m), Reverts(m), m.op = "create_collection"
    PROVE  CatalogAfter
  <1> DEFINE t == m.down.table
  <1>1. m.down = DropTable(t) /\ m.down # NoDDL /\ t \in Slugs
    <2>1. m.down = DropTable(t)
      BY DEF Reverts
    <2>2. m.down.kind = "drop_table" /\ m.down \in Statement
      BY <2>1, RecordedTypes DEF DropTable
    <2> QED BY <2>1, <2>2 DEF Statement, NoDDL
  <1>2. /\ \E r \in collections : r.id = m.coll
        /\ DeleteCollectionRow(m.coll)
        /\ db' = Exec(db, DropTable(t))
    BY <1>1 DEF Undoes, RestoreMeta
  <1>3. PICK row \in collections : row.id = m.coll
    BY <1>2
  <1>4. row.slug = t /\ row.id \in CollectionIds /\ row.slug \in Slugs
    BY <1>1, <1>3, RememberedRow DEF Undoes, TypeInv, TypeOK, CollectionRow
  <1>5. collections' = collections \ {row} /\ fields' = {f \in fields : f.coll # row.id}
    BY <1>2, <1>3 DEF DeleteCollectionRow, CatalogInv, MetaMatchesTables
  <1>6. FieldsKept(row.id)
    BY <1>5 DEF FieldsKept, StoredFieldSlugs, FieldsOf
  <1>7. db.tables' = db.tables \ {row.slug} /\ ColumnsKept(row.slug) /\ ColumnsHaveTable'
    BY <1>2, <1>4, DropTableEffect DEF CatalogInv
  <1>8. CollectionRemoved(row)
    BY <1>5, <1>6, <1>7 DEF CollectionRemoved, Kept
  <1>9. FieldKeys' /\ FieldsHaveCollection'
    BY <1>5 DEF FieldKeys, FieldsHaveCollection, CatalogInv, MetaMatchesTables
  <1>10. Facts'
    <2>1. \A p, q \in collections' : p.id = q.id => p = q
      BY <1>5 DEF CatalogInv, MetaMatchesTables
    <2>2. (\A q \in collections' : Known(q.id, q.slug)) /\ \A f \in fields' : Seen(f)
      BY <1>5, StoredKnown
    <2> QED BY <1>9, <2>1, <2>2, AfterRollback
  <1> QED BY <1>7, <1>8, <1>9, <1>10 DEF CatalogAfter, CatalogStep

\* The dropped collection comes back with the fields it was dropped with: none
\* of them, nor its slug, can have been taken, for its table could not be
\* created then.
LEMMA UndoDropCollection ==
    ASSUME TypeInv, TypeInv', CatalogInv, NEW c \in Clients, NEW m \in MigrationRow,
           Undoes(c, m), Reverts(m), m.op = "drop_collection"
    PROVE  CatalogAfter
  <1>1. PICK col \in Snapshot : col = m.payload
    BY RecordedTypes
  <1>2. PICK row \in CollectionRow :
          row = [id |-> col.id, slug |-> col.slug, label |-> col.label]
    BY DEF Snapshot, CollectionRow
  <1>3. /\ row.id = col.id /\ row.slug = col.slug
        /\ row.id \in CollectionIds /\ row.slug \in Slugs /\ col.fields \in SUBSET Field
    BY <1>2 DEF CollectionRow, Snapshot
  <1>4. /\ m.coll = col.id /\ m.down # NoDDL /\ m.down.table = col.slug
        /\ CanExec(db, CreateTable(col.slug, StoredDefs(col.fields)))
        /\ db' = Exec(db, CreateTable(col.slug, StoredDefs(col.fields)))
    <2>1. m.coll = col.id /\ m.down = CreateTable(col.slug, StoredDefs(col.fields))
      BY <1>1 DEF Reverts
    <2> QED BY <2>1 DEF Undoes, CreateTable, NoDDL
  <1>5. StoredDefs(col.fields) \in SUBSET ColumnDef
    BY <1>3, FieldDefs
  <1>6. /\ col.slug \notin db.tables
        /\ db.tables' = db.tables \cup {col.slug}
        /\ UserColumns(col.slug)' = {d.slug : d \in StoredDefs(col.fields)} \ {StatusSlug}
        /\ ColumnsKept(col.slug) /\ ColumnsHaveTable'
    BY <1>3, <1>4, <1>5, CreateTableEffect DEF CatalogInv
  <1>7. \A r \in collections : r.id # col.id /\ r.slug # col.slug
    <2>1. \A r \in collections : r.slug # col.slug
      BY <1>6 DEF CatalogInv, MetaMatchesTables
    <2>2. \A r \in collections : r.id = m.coll => r.slug = m.down.table
      BY <1>3, <1>4, RememberedRow DEF Undoes
    <2> QED BY <1>4, <2>1, <2>2
  <1>8. Held(col) /\ Whole(col) /\ \A f \in col.fields : Seen(f)
    <2>1. Held(col)
      BY <1>1 DEF Undoes, Archived, Held
    <2> QED BY <2>1 DEF CatalogInv, Facts, HeldWhole, Seen
  <1>9. \A g \in fields : g.coll # col.id
    BY <1>7 DEF CatalogInv, FieldsHaveCollection
  <1>10. \A f \in col.fields : \A g \in fields : g.id # f.id
    <2> SUFFICES ASSUME NEW f \in col.fields, NEW g \in fields, g.id = f.id
                 PROVE  FALSE
      OBVIOUS
    <2>1. SameColumn(f, g)
      BY <1>3, <1>8, StoredKnown DEF CatalogInv, Facts, FieldsFixed, TypeInv, TypeOK
    <2> QED BY <1>8, <1>9, <2>1 DEF SameColumn, Whole
  <1>11. collections' = collections \cup {row} /\ fields' = fields \cup col.fields
    <2>1. InsertedFields(col.fields) = col.fields
      BY <1>8, <1>9, <1>10 DEF InsertedFields, Whole
    <2>2. InsertedCollection(col) = {row}
      BY <1>2, <1>3, <1>7 DEF InsertedCollection
    <2> QED BY <1>1, <2>1, <2>2 DEF Undoes, RestoreMeta
  <1>12. FieldKeys'
    BY <1>8, <1>9, <1>10, <1>11 DEF FieldKeys, Whole, CatalogInv, MetaMatchesTables
  <1>13. FieldsHaveCollection'
    BY <1>3, <1>8, <1>11 DEF FieldsHaveCollection, Whole, CatalogInv
  <1>14. Facts'
    <2>1. Known(row.id, row.slug)
      BY <1>3, <1>4 DEF Known, Remembers, Undoes
    <2>2. \A q \in collections' : Known(q.id, q.slug)
      BY <1>11, <2>1, StoredKnown
    <2>3. \A f \in fields' : Seen(f)
      BY <1>8, <1>11, StoredKnown
    <2>4. \A p, q \in collections' : p.id = q.id => p = q
      BY <1>3, <1>7, <1>11 DEF CatalogInv, MetaMatchesTables
    <2> QED BY <1>12, <2>2, <2>3, <2>4, AfterRollback
  <1>15. PICK columns \in SUBSET FieldSlugs :
            columns = {f.slug : f \in {g \in col.fields : g.type \notin NoColumnTypes}}
    BY <1>3 DEF Field
  <1>16. StoredFieldSlugs(col.id)' = columns /\ FieldsKept(col.id)
    <2>1. /\ StoredFieldSlugs(col.id)' = StoredFieldSlugs(col.id) \cup columns
          /\ FieldsKept(col.id)
      BY <1>8, <1>11, <1>15, FieldsAdded DEF Whole
    <2>2. StoredFieldSlugs(col.id) = {}
      BY <1>9 DEF StoredFieldSlugs, FieldsOf
    <2> QED BY <2>1, <2>2
  <1>17. UserColumns(col.slug)' = columns
    <2>1. {d.slug : d \in StoredDefs(col.fields)} = columns
      BY <1>15, DefinedColumns
    <2>2. StatusSlug \notin columns
      BY SlugsAssumption
    <2> QED BY <1>6, <2>1, <2>2
  <1>18. CollectionAdded(row, columns)
    BY <1>3, <1>6, <1>7, <1>11, <1>16, <1>17 DEF CollectionAdded, Kept
  <1> QED
    BY <1>6, <1>12, <1>13, <1>14, <1>18 DEF CatalogAfter, CatalogStep

LEMMA UndoAddField ==
    ASSUME AllFieldsStored, TypeInv, TypeInv', CatalogInv, NEW c \in Clients,
           NEW m \in MigrationRow, Undoes(c, m), Reverts(m), m.op = "add_field"
    PROVE  CatalogAfter
  <1> DEFINE t == m.down.table
  <1>1. PICK old \in Field : old = m.payload
    BY RecordedTypes
  <1>2. /\ m.coll = old.coll /\ m.down = DropColumn(t, old.slug)
        /\ m.down # NoDDL /\ t \in Slugs
    <2>1. m.coll = old.coll /\ m.down = DropColumn(t, old.slug)
      BY <1>1 DEF Reverts, AllFieldsStored
    <2>2. m.down.kind = "drop_column" /\ m.down \in Statement
      BY <2>1, RecordedTypes DEF DropColumn
    <2> QED BY <2>1, <2>2 DEF Statement, NoDDL
  <1>3. /\ db' = Exec(db, DropColumn(t, old.slug))
        /\ DeleteFieldRow(old.id) /\ UNCHANGED collections
    BY <1>1, <1>2 DEF Undoes, RestoreMeta
  <1>4. PICK f \in fields : f.id = old.id
    BY <1>3 DEF DeleteFieldRow
  <1>5. f \in Field /\ SameColumn(f, old)
    <2>1. Seen(old) /\ Seen(f)
      BY <1>1 DEF Undoes, RecordedField, Seen
    <2> QED BY <1>4, <2>1 DEF CatalogInv, Facts, FieldsFixed, TypeInv, TypeOK
  <1>6. PICK row \in collections : row.id = f.coll
    BY DEF CatalogInv, FieldsHaveCollection
  <1>7. row.slug = t /\ row.id \in CollectionIds /\ row.slug \in Slugs
    <2>1. row.id = m.coll
      BY <1>2, <1>5, <1>6 DEF SameColumn
    <2> QED BY <1>2, <2>1, RememberedRow DEF Undoes, TypeInv, TypeOK, CollectionRow
  <1>8. fields' = {g \in fields : g.id # f.id}
    BY <1>3, <1>4 DEF DeleteFieldRow
  <1>9. FieldKeys /\ FieldKeys' /\ FieldsHaveCollection'
    BY <1>3, <1>8 DEF FieldKeys, FieldsHaveCollection, CatalogInv, MetaMatchesTables
  <1>10. Facts'
    <2>1. \A p, q \in collections' : p.id = q.id => p = q
      BY <1>3 DEF CatalogInv, MetaMatchesTables
    <2>2. (\A q \in collections' : Known(q.id, q.slug)) /\ \A g \in fields' : Seen(g)
      BY <1>3, <1>8, StoredKnown
    <2> QED BY <1>9, <2>1, <2>2, AfterRollback
  <1>11. /\ StoredFieldSlugs(row.id)' = StoredFieldSlugs(row.id) \ {f.slug}
         /\ FieldsKept(row.id)
    BY <1>6, <1>8, <1>9, FieldRemoved DEF AllFieldsStored
  <1>12. /\ db.tables' = db.tables /\ ColumnsKept(row.slug) /\ ColumnsHaveTable'
         /\ UserColumns(row.slug)' = UserColumns(row.slug) \ {f.slug}
    <2>1. db' = Exec(db, DropColumn(row.slug, f.slug))
      BY <1>3, <1>5, <1>7 DEF SameColumn
    <2> QED BY <1>7, <2>1, DropColumnEffect DEF CatalogInv, TypeInv, TypeOK
  <1>13. UserColumns(row.slug) = StoredFieldSlugs(row.id)
    BY DEF CatalogInv, MetaMatchesTables
  <1>14. ColumnsSet(row, StoredFieldSlugs(row.id) \ {f.slug})
    BY <1>3, <1>11, <1>12, <1>13 DEF ColumnsSet, Kept
  <1>15. f.slug \in StoredFieldSlugs(row.id) /\ f.slug \in FieldSlugs
    BY <1>5, <1>6 DEF AllFieldsStored, StoredFieldSlugs, FieldsOf, Field
  <1> QED BY <1>9, <1>10, <1>12, <1>14, <1>15 DEF CatalogAfter, CatalogStep

\* A dropped field comes back only where neither a row nor a column has its
\* slug; PostgreSQL refuses the column otherwise.
LEMMA UndoDropField ==
    ASSUME AllFieldsStored, TypeInv, TypeInv', CatalogInv, NEW c \in Clients,
           NEW m \in MigrationRow, Undoes(c, m), Reverts(m), m.op = "drop_field"
    PROVE  CatalogAfter
  <1> DEFINE t == m.down.table
  <1>1. PICK f \in Field : f = m.payload
    BY RecordedTypes
  <1>2. PICK def \in ColumnDef : def = [slug |-> f.slug, type |-> f.type, notNull |-> FALSE]
    BY DEF AllFieldsStored, ColumnDef, Field, FieldTypes
  <1>3. /\ m.coll = f.coll /\ m.down = AddColumn(t, def)
        /\ m.down # NoDDL /\ t \in Slugs
    <2>1. m.coll = f.coll /\ m.down = AddColumn(t, def)
      BY <1>1, <1>2 DEF Reverts, AllFieldsStored
    <2>2. m.down.kind = "add_column" /\ m.down \in Statement
      BY <2>1, RecordedTypes DEF AddColumn
    <2> QED BY <2>1, <2>2 DEF Statement, NoDDL
  <1>4. /\ CanExec(db, AddColumn(t, def)) /\ db' = Exec(db, AddColumn(t, def))
        /\ \A g \in InsertedFields({f}) : \E r \in collections : r.id = g.coll
        /\ fields' = fields \cup InsertedFields({f}) /\ UNCHANGED collections
    BY <1>1, <1>3 DEF Undoes, RestoreMeta
  <1>5. Seen(f)
    BY <1>1 DEF Undoes, RecordedField, Seen
  <1>6. ASSUME NEW row \in collections, row.id = f.coll
        PROVE  row.slug = t /\ row.id \in CollectionIds /\ row.slug \in Slugs
    BY <1>3, <1>6, RememberedRow DEF Undoes, TypeInv, TypeOK, CollectionRow
  <1>7. \A g \in fields : g.coll # f.coll \/ g.slug # f.slug
    <2> SUFFICES ASSUME NEW g \in fields, g.coll = f.coll, g.slug = f.slug
                 PROVE  FALSE
      OBVIOUS
    <2>1. PICK row \in collections : row.id = g.coll
      BY DEF CatalogInv, FieldsHaveCollection
    <2>2. row.slug = t
      BY <1>6, <2>1
    <2>3. f.slug \in UserColumns(t)
      <3>1. f.slug \in StoredFieldSlugs(row.id)
        BY <2>1 DEF StoredFieldSlugs, FieldsOf, AllFieldsStored
      <3> QED BY <2>2, <3>1 DEF CatalogInv, MetaMatchesTables
    <2>4. HasColumn(db, t, f.slug)
      BY <2>3 DEF UserColumns, ColumnsOf, HasColumn
    <2>5. ~HasColumn(db, t, f.slug)
      BY <1>2, <1>4 DEF CanExec, AddColumn
    <2> QED BY <2>4, <2>5
  <1>8. \A g \in fields : g.id # f.id
    <2> SUFFICES ASSUME NEW g \in fields, g.id = f.id
                 PROVE  FALSE
      OBVIOUS
    <2>1. SameColumn(f, g)
      BY <1>5, StoredKnown DEF CatalogInv, Facts, FieldsFixed, TypeInv, TypeOK
    <2> QED BY <1>7, <2>1 DEF SameColumn
  <1>9. InsertedFields({f}) = {f}
    BY <1>7, <1>8 DEF InsertedFields
  <1>10. PICK row \in collections : row.id = f.coll
    BY <1>4, <1>9
  <1>11. row.slug = t /\ row.id \in CollectionIds /\ row.slug \in Slugs
    BY <1>6, <1>10
  <1>12. fields' = fields \cup {f}
    BY <1>4, <1>9
  <1>13. FieldKeys' /\ FieldsHaveCollection'
    BY <1>4, <1>7, <1>8, <1>10, <1>12
    DEF FieldKeys, FieldsHaveCollection, CatalogInv, MetaMatchesTables
  <1>14. Facts'
    <2>1. \A p, q \in collections' : p.id = q.id => p = q
      BY <1>4 DEF CatalogInv, MetaMatchesTables
    <2>2. (\A q \in collections' : Known(q.id, q.slug)) /\ \A g \in fields' : Seen(g)
      BY <1>4, <1>5, <1>12, StoredKnown
    <2> QED BY <1>13, <2>1, <2>2, AfterRollback
  <1>15. /\ StoredFieldSlugs(row.id)' = StoredFieldSlugs(row.id) \cup {f.slug}
         /\ FieldsKept(row.id)
    <2> DEFINE fs == {f}
               columns == {g.slug : g \in {h \in fs : h.type \notin NoColumnTypes}}
    <2>1. fields' = fields \cup fs /\ \A g \in fs : g.coll = row.id
      BY <1>10, <1>12
    <2>2. columns = {f.slug}
      BY DEF AllFieldsStored
    <2> HIDE DEF fs
    <2>3. StoredFieldSlugs(row.id)' = StoredFieldSlugs(row.id) \cup columns
          /\ FieldsKept(row.id)
      BY <2>1, FieldsAdded
    <2> HIDE DEF columns
    <2> QED BY <2>2, <2>3
  <1>16. /\ db.tables' = db.tables /\ ColumnsKept(row.slug) /\ ColumnsHaveTable'
         /\ UserColumns(row.slug)' = UserColumns(row.slug) \cup ({def.slug} \ {StatusSlug})
    BY <1>4, <1>11, AddColumnEffect DEF CatalogInv, TypeInv, TypeOK
  <1>17. /\ UserColumns(row.slug) = StoredFieldSlugs(row.id)
         /\ def.slug = f.slug /\ f.slug # StatusSlug /\ f.slug \in FieldSlugs
    BY <1>2, SlugsAssumption DEF CatalogInv, MetaMatchesTables, Field
  <1>18. ColumnsSet(row, StoredFieldSlugs(row.id) \cup {f.slug})
    BY <1>4, <1>15, <1>16, <1>17 DEF ColumnsSet, Kept
  <1>19. f.slug \notin StoredFieldSlugs(row.id)
    BY <1>7, <1>10 DEF StoredFieldSlugs, FieldsOf
  <1> QED BY <1>13, <1>14, <1>16, <1>17, <1>18, <1>19 DEF CatalogAfter, CatalogStep

LEMMA UndoAlterField ==
    ASSUME AllFieldsStored, TypeInv, TypeInv', CatalogInv, NEW c \in Clients,
           NEW m \in MigrationRow, Undoes(c, m), Reverts(m), m.op = "alter_field"
    PROVE  CatalogAfter
  <1> DEFINE old == m.payload
             After(f) == IF f.id # old.id THEN f ELSE
                 [f EXCEPT !.type = IF old.type = Keep THEN @ ELSE old.type,
                           !.required = IF old.required = Keep THEN @ ELSE old.required]
  <1>1. UNCHANGED collections /\ fields' = {After(f) : f \in fields}
    BY DEF Undoes, RestoreMeta, UpdateFieldRow
  <1>2. \A f \in fields : After(f).id = f.id /\ SameColumn(After(f), f)
    BY DEF AllFieldsStored, SameColumn, TypeInv, TypeOK, Field
  <1> HIDE DEF After
  <1>3. /\ \A f \in fields : \E g \in fields' : SameColumn(g, f)
        /\ \A g \in fields' : \E f \in fields : f.id = g.id /\ SameColumn(g, f)
    BY <1>1, <1>2
  <1>4. FieldKeys'
    <2>1. \A f, g \in fields : f.id = g.id \/ (f.coll = g.coll /\ f.slug = g.slug) => f = g
      BY DEF CatalogInv, MetaMatchesTables
    <2> QED BY <1>1, <1>2, <2>1 DEF FieldKeys, SameColumn
  <1>5. FieldsHaveCollection'
    <2>1. FieldsHaveCollection
      BY DEF CatalogInv
    <2>2. \A g \in fields' : \E f \in fields : g.coll = f.coll
      BY <1>3 DEF SameColumn
    <2> QED BY <1>1, <2>1, <2>2 DEF FieldsHaveCollection
  <1>6. Facts'
    <2>1. \A p, q \in collections' : p.id = q.id => p = q
      BY <1>1 DEF CatalogInv, MetaMatchesTables
    <2>2. \A q \in collections' : Known(q.id, q.slug)
      BY <1>1, StoredKnown
    <2> QED BY <1>3, <1>4, <2>1, <2>2, AfterRollback
  <1>7. \A id \in CollectionIds : StoredFieldSlugs(id)' = StoredFieldSlugs(id)
    BY <1>3, FieldsRetyped
  <1>8. /\ db.tables' = db.tables /\ ColumnsHaveTable'
        /\ \A u \in Slugs : UserColumns(u)' = UserColumns(u)
    <2>1. CASE m.down = NoDDL
      <3>1. db' = db
        BY <2>1 DEF Undoes, NoDDL, Exec
      <3> QED BY <3>1 DEF UserColumns, ColumnsOf, ColumnsHaveTable, CatalogInv
    <2>2. CASE m.down.kind = "alter_column"
      BY <2>2, AlterColumnEffect DEF Undoes, CatalogInv, TypeInv, TypeOK
    <2> QED BY <2>1, <2>2 DEF Reverts
  <1>9. SameCatalog
    BY <1>1, <1>7, <1>8 DEF SameCatalog, DistinctIds, CatalogInv, MetaMatchesTables
  <1> QED BY <1>4, <1>5, <1>6, <1>8, <1>9 DEF CatalogAfter, CatalogStep

\* restoreMeta has no case for what is left: a label, or a process that was
\* switched on or off.
LEMMA UndoOther ==
    ASSUME TypeInv, TypeInv', CatalogInv, NEW c \in Clients, NEW m \in MigrationRow,
           Undoes(c, m), Reverts(m),
           m.op \in {"update_collection_meta", "enable_process", "disable_process"}
    PROVE  CatalogAfter
  <1> DEFINE t == m.down.table
  <1>1. UNCHANGED <<collections, fields>>
    BY DEF Undoes, RestoreMeta, meta
  <1>2. \A u : StatusSlug \notin UserColumns(u)
    BY DEF UserColumns
  <1>3. m.down \in Statement /\ db' = Exec(db, m.down) /\ CanExec(db, m.down)
    BY RecordedTypes DEF Undoes
  <1>4. /\ db.tables' = db.tables /\ ColumnsHaveTable'
        /\ \A u \in Slugs : UserColumns(u)' = UserColumns(u)
    <2>1. CASE m.down = NoDDL
      <3>1. db' = db
        BY <1>3, <2>1 DEF NoDDL, Exec
      <3> QED BY <3>1 DEF UserColumns, ColumnsOf, ColumnsHaveTable, CatalogInv
    <2>2. CASE m.down = DropColumn(t, StatusSlug)
      <3>1. t \in Slugs
        BY <1>3, <2>2 DEF Statement, DropColumn, NoDDL
      <3>2. /\ db.tables' = db.tables /\ ColumnsKept(t) /\ ColumnsHaveTable'
            /\ UserColumns(t)' = UserColumns(t) \ {StatusSlug}
        BY <1>3, <2>2, <3>1, DropColumnEffect DEF CatalogInv, TypeInv, TypeOK
      <3> QED BY <1>2, <3>2 DEF ColumnsKept
    <2>3. CASE m.down = AddColumn(t, StatusDef)
      <3>1. t \in Slugs
        BY <1>3, <2>3 DEF Statement, AddColumn, NoDDL
      <3>2. StatusDef \in ColumnDef /\ StatusDef.slug = StatusSlug
        BY DEF StatusDef, ColumnDef
      <3>3. /\ db.tables' = db.tables /\ ColumnsKept(t) /\ ColumnsHaveTable'
            /\ UserColumns(t)' = UserColumns(t) \cup ({StatusSlug} \ {StatusSlug})
        BY <1>3, <2>3, <3>1, <3>2, AddColumnEffect DEF CatalogInv, TypeInv, TypeOK
      <3> QED BY <3>3 DEF ColumnsKept
    <2> QED BY <2>1, <2>2, <2>3 DEF Reverts
  <1>5. FieldKeys' /\ FieldsHaveCollection'
    BY <1>1 DEF FieldKeys, FieldsHaveCollection, CatalogInv, MetaMatchesTables
  <1>6. Facts'
    <2>1. \A p, q \in collections' : p.id = q.id => p = q
      BY <1>1 DEF CatalogInv, MetaMatchesTables
    <2>2. (\A q \in collections' : Known(q.id, q.slug)) /\ \A g \in fields' : Seen(g)
      BY <1>1, StoredKnown
    <2> QED BY <1>5, <2>1, <2>2, AfterRollback
  <1>7. \A id \in CollectionIds : StoredFieldSlugs(id)' = StoredFieldSlugs(id)
    BY <1>1 DEF StoredFieldSlugs, FieldsOf
  <1>8. SameCatalog
    BY <1>1, <1>4, <1>7 DEF SameCatalog, DistinctIds, CatalogInv, MetaMatchesTables
  <1> QED BY <1>4, <1>5, <1>6, <1>8 DEF CatalogAfter, CatalogStep

LEMMA RollbackTxCatalog ==
    ASSUME AllFieldsStored, TypeInv, TypeInv', CatalogInv, NEW c \in Clients, RollbackTx(c)
    PROVE  CatalogAfter
  <1>1. PICK m \in MigrationRow : Undoes(c, m) /\ Reverts(m)
    BY RollbackUndoes
  <1>2. m.op \in {"create_collection", "drop_collection", "add_field", "alter_field",
                   "drop_field", "update_collection_meta", "enable_process",
                   "disable_process"}
    BY DEF MigrationRow, Recorded
  <1> QED
    BY <1>1, <1>2, UndoCreateCollection, UndoDropCollection, UndoAddField,
       UndoDropField, UndoAlterField, UndoOther

(***************************************************************************)
(* The theorems.                                                           *)
(***************************************************************************)
NoRollbacks == "rollback" \notin Ops

\* Either no call rolls back, or every field has a column of its own.
Reversible == NoRollbacks \/ AllFieldsStored

LEMMA TransactionCatalog ==
    ASSUME Reversible, TypeInv, TypeInv', CatalogInv, NEW c \in Clients, Transaction(c)
    PROVE  CatalogAfter
  <1>1. CASE RollbackTx(c)
    <2>1. AllFieldsStored
      BY <1>1 DEF Reversible, RollbackTx, InTx, NoRollbacks, CatalogInv, Facts, CallsAllowed
    <2> QED BY <1>1, <2>1, RollbackTxCatalog
  <1> QED
    BY <1>1, CreateCollectionTxCatalog, UpdateCollectionTxCatalog, DropCollectionTxCatalog,
       AddFieldTxCatalog, AlterFieldTxCatalog, DropFieldTxCatalog, SaveProcessTxCatalog
    DEF Transaction

\* Every other step leaves the rows and the tables alone.
OutsideTransactions == UNCHANGED <<collections, fields, db, migrations>>

LEMMA OtherSteps ==
    ASSUME TypeInv, TypeInv', Facts, FieldKeys, [Next]_vars, \A c \in Clients : ~Transaction(c)
    PROVE  Facts' /\ OutsideTransactions
  <1>1. ASSUME NEW c \in Clients, Preflight(c)
        PROVE  Facts' /\ OutsideTransactions
    <2>1. Facts'
      BY <1>1, PreflightFacts
    <2>2. OutsideTransactions
      BY <1>1 DEF OutsideTransactions, Preflight, BeginCreateCollection,
         BeginUpdateCollection, BeginDropCollection, BeginAddField, BeginAlterField,
         BeginDropField, BeginSaveProcess, BeginRollback, Begin, meta
    <2> QED BY <2>1, <2>2
  <1>2. ASSUME NEW c \in Clients, TxAborts(c)
        PROVE  Facts' /\ OutsideTransactions
    <2>1. /\ Idle.phase # "tx" /\ \A id, s : ~Carries(Idle, id, s)
          /\ \A col : ~Holds(Idle, col)
      BY DEF Idle, Carries, Holds
    <2>2. UNCHANGED <<meta, issued, byID, migrations>> /\ Goto(c, Idle)
      BY <1>2 DEF TxAborts, cache
    <2>3. \A id \in CollectionIds : byID'[id] # Absent =>
            byID'[id].id = id /\ Known(id, byID'[id].slug) /\ Held(byID'[id])
      BY <2>2 DEF Facts, CacheKeyed, Known, InCache, Held
    <2> QED BY <1>2, <2>1, <2>2, <2>3, Refreshed DEF TxAborts, OutsideTransactions, meta
  <1>3. ASSUME NEW c \in Clients, Refresh(c) \/ RefreshFails(c)
        PROVE  Facts' /\ OutsideTransactions
    <2>1. Facts'
      BY <1>3, RefreshFacts
    <2>2. OutsideTransactions
      BY <1>3 DEF OutsideTransactions, meta, Refresh, RefreshFails, ReloadRead,
         ReloadReadFields, InstallCollection, RemoveFromCache, ReloadProcessRead,
         InstallProcessEntry, LoadCollections, LoadFieldsOf, LoadProcessOf, LoadInstall
    <2> QED BY <2>1, <2>2
  <1>4. CASE Restart
    BY <1>4, RestartFacts DEF Restart, OutsideTransactions, meta
  <1>5. CASE UNCHANGED vars
    <2>1. /\ collections' = collections /\ fields' = fields /\ db' = db
          /\ issued' = issued /\ byID' = byID /\ req' = req
          /\ migrations' = migrations
      BY <1>5 DEF vars, meta, cache
    <2>2. SlugsFixed' /\ CacheKeyed'
      <3>1. \A id, t : Known(id, t)' <=> Known(id, t)
        BY <2>1, HistoryKept, Zenon DEF Known, Stored, InCache
      <3> QED  BY <2>1, <3>1, Zenon DEF Facts, SlugsFixed, CacheKeyed
    <2>5. \A col : Held(col)' <=> Held(col)
      BY <2>1, HistoryKept, Zenon DEF Held
    <2>6. HeldWhole'
      BY <2>5, Zenon DEF Facts, HeldWhole
    <2>3. FieldsFixed'
      <3>1. \A f : Seen(f)' <=> Seen(f)
        BY <2>1, <2>5, HistoryKept, Zenon DEF Seen
      <3> QED  BY <2>1, <3>1, Zenon DEF Facts, FieldsFixed
    <2>4. CallsAllowed'
      BY <2>1, Zenon DEF Facts, CallsAllowed
    <2> QED BY <2>1, <2>2, <2>3, <2>4, <2>6 DEF Facts, OutsideTransactions
  <1> QED BY <1>1, <1>2, <1>3, <1>4, <1>5 DEF Next

LEMMA CatalogInvStep ==
    Reversible /\ TypeInv /\ TypeInv' /\ CatalogInv /\ [Next]_vars => CatalogInv'
  <1> SUFFICES ASSUME Reversible, TypeInv, TypeInv', CatalogInv, [Next]_vars
               PROVE  CatalogInv'
    OBVIOUS
  <1>1. ASSUME NEW c \in Clients, Transaction(c) PROVE CatalogInv'
    <2>1. CatalogAfter
      BY <1>1, TransactionCatalog
    <2>2. Matched
      BY DEF Matched, CatalogInv, MetaMatchesTables
    <2>3. Matched'
      BY <2>1, <2>2, CatalogStepMatched DEF CatalogAfter
    <2>4. HistoryReverts'
      BY <1>1, TransactionReverts DEF CatalogInv
    <2> QED
      BY <2>1, <2>3, <2>4 DEF CatalogAfter, Matched, FieldKeys, CatalogInv, MetaMatchesTables
  <1>2. CASE \A c \in Clients : ~Transaction(c)
    <2>1. Facts' /\ OutsideTransactions
      BY <1>2, OtherSteps DEF CatalogInv, MetaMatchesTables, FieldKeys
    <2>4. HistoryReverts'
      BY <2>1 DEF OutsideTransactions, HistoryReverts, History, CatalogInv
    <2>2. FieldsHaveCollection' /\ ColumnsHaveTable'
      BY <2>1 DEF OutsideTransactions, FieldsHaveCollection, ColumnsHaveTable, CatalogInv
    <2>3. MetaMatchesTables'
      BY <2>1 DEF OutsideTransactions, MetaMatchesTables, CatalogInv, UserColumns,
         ColumnsOf, StoredFieldSlugs, FieldsOf
    <2> QED BY <2>1, <2>2, <2>3, <2>4 DEF CatalogInv
  <1> QED BY <1>1, <1>2

\* The data tables are exactly the collections and their columns exactly the
\* stored fields, identities and slugs are unique, in every reachable state of
\* any number of overlapping calls with stale preflights, failing
\* transactions, failing refreshes and restarts (engine.go: "either the full
\* schema change succeeds, or nothing changes").  Calls may also roll back any
\* migration, in any order and twice if they race, when every field has a
\* column: what the record kept still fits the table it is applied to.
THEOREM CatalogCorrect ==
    ASSUME Reversible PROVE Spec => []MetaMatchesTables
  <1>1. Spec => []TypeInv
    BY TypeInvariant
  <1>2. Init => CatalogInv
    BY InitCatalog
  <1>3. TypeInv /\ TypeInv' /\ CatalogInv /\ [Next]_vars => CatalogInv'
    BY CatalogInvStep
  <1>4. CatalogInv => MetaMatchesTables
    BY DEF CatalogInv
  <1> QED BY <1>1, <1>2, <1>3, <1>4, PTL DEF Spec

(***************************************************************************)
(* The engine implements the atomic catalog: every transaction is one step  *)
(* of SchemaCatalog or a stutter, every other step a stutter.               *)
(***************************************************************************)
AppOf(r) == [id |-> r.id, slug |-> r.slug, columns |-> StoredFieldSlugs(r.id)]
TableOf(t) == [slug |-> t, columns |-> UserColumns(t)]
Apps == {AppOf(r) : r \in collections}
Tables == {TableOf(t) : t \in db.tables}

LEMMA Refinement ==
    /\ Catalog!Init <=> Apps = {} /\ Tables = {}
    /\ [Catalog!Next]_(Catalog!catalogVars) <=>
         \/ Catalog!CreateApp \/ Catalog!DropApp
         \/ Catalog!AddColumnTo \/ Catalog!RemoveColumnFrom
         \/ Apps' = Apps /\ Tables' = Tables
  BY DEF Catalog!Init, Catalog!Next, Catalog!catalogVars, Apps, Tables, AppOf, TableOf

\* What a transaction leaves alone is the same app or table.
LEMMA KeptAppsAndTables ==
    ASSUME TypeInv, NEW row, Kept(row)
    PROVE  /\ \A r \in collections : r.id # row.id => AppOf(r)' = AppOf(r)
           /\ \A t \in Slugs : t # row.slug => TableOf(t)' = TableOf(t)
  <1>1. \A r \in collections : r.id \in CollectionIds
    BY DEF TypeInv, TypeOK, CollectionRow
  <1>2. \A r \in collections : r.id # row.id => AppOf(r)' = AppOf(r)
    BY <1>1 DEF Kept, FieldsKept, AppOf
  <1>3. \A t \in Slugs : t # row.slug => TableOf(t)' = TableOf(t)
    BY DEF Kept, ColumnsKept, TableOf
  <1> QED BY <1>2, <1>3

\* The catalog's actions, over the engine's state.
LEMMA RefinedActions ==
    /\ Catalog!CreateApp <=>
         \E a \in [id : CollectionIds, slug : Slugs, columns : SUBSET FieldSlugs] :
            /\ \A b \in Apps : b.id # a.id /\ b.slug # a.slug
            /\ Apps' = Apps \cup {a}
            /\ Tables' = Tables \cup {[slug |-> a.slug, columns |-> a.columns]}
    /\ Catalog!DropApp <=>
         \E a \in Apps :
            /\ Apps' = Apps \ {a}
            /\ Tables' = Tables \ {[slug |-> a.slug, columns |-> a.columns]}
    /\ Catalog!AddColumnTo <=>
         \E a \in Apps : \E s \in FieldSlugs \ a.columns :
            LET b == [a EXCEPT !.columns = @ \cup {s}] IN
            /\ Apps' = (Apps \ {a}) \cup {b}
            /\ Tables' = (Tables \ {[slug |-> a.slug, columns |-> a.columns]})
                           \cup {[slug |-> b.slug, columns |-> b.columns]}
    /\ Catalog!RemoveColumnFrom <=>
         \E a \in Apps : \E s \in a.columns :
            LET b == [a EXCEPT !.columns = @ \ {s}] IN
            /\ Apps' = (Apps \ {a}) \cup {b}
            /\ Tables' = (Tables \ {[slug |-> a.slug, columns |-> a.columns]})
                           \cup {[slug |-> b.slug, columns |-> b.columns]}
  BY DEF Catalog!CreateApp, Catalog!DropApp, Catalog!AddColumnTo, Catalog!RemoveColumnFrom,
         Catalog!Replace, Catalog!App, Catalog!Table, Apps, Tables, AppOf, TableOf

LEMMA AddedRefines ==
    ASSUME TypeInv, Matched, NEW row \in CollectionRow, NEW columns \in SUBSET FieldSlugs,
           CollectionAdded(row, columns)
    PROVE  Catalog!CreateApp
  <1> DEFINE a == [id |-> row.id, slug |-> row.slug, columns |-> columns]
             t == [slug |-> row.slug, columns |-> columns]
  <1>1. /\ \A r \in collections : r.id # row.id /\ r.slug # row.slug /\ r.slug \in Slugs
        /\ collections' = collections \cup {row}
        /\ db.tables' = db.tables \cup {row.slug}
        /\ Kept(row)
    BY DEF CollectionAdded, TypeInv, TypeOK, CollectionRow
  <1>2. AppOf(row)' = a /\ TableOf(row.slug)' = t
    BY DEF CollectionAdded, AppOf, TableOf
  <1>3. \A r \in collections : AppOf(r)' = AppOf(r)
    BY <1>1, KeptAppsAndTables
  <1>4. \A s \in db.tables : TableOf(s)' = TableOf(s)
    BY <1>1, KeptAppsAndTables DEF Matched
  <1> HIDE DEF a, t
  <1>5. Apps' = Apps \cup {a}
    <2>1. Apps' = {AppOf(r)' : r \in collections'}
      BY DEF Apps
    <2> QED BY <1>1, <1>2, <1>3, <2>1 DEF Apps
  <1>6. Tables' = Tables \cup {t}
    <2>1. Tables' = {TableOf(s)' : s \in db.tables'}
      BY DEF Tables
    <2> QED BY <1>1, <1>2, <1>4, <2>1 DEF Tables
  <1>7. \A b \in Apps : b.id # row.id /\ b.slug # row.slug
    BY <1>1 DEF Apps, AppOf
  <1>8. /\ a \in [id : CollectionIds, slug : Slugs, columns : SUBSET FieldSlugs]
        /\ a.id = row.id /\ a.slug = row.slug
        /\ t = [slug |-> a.slug, columns |-> a.columns]
    BY DEF a, t, CollectionRow
  <1> QED BY <1>5, <1>6, <1>7, <1>8, RefinedActions

LEMMA RemovedRefines ==
    ASSUME TypeInv, Matched, NEW row \in collections, CollectionRemoved(row)
    PROVE  Catalog!DropApp
  <1> DEFINE a == AppOf(row)
             t == TableOf(row.slug)
  <1>1. /\ collections' = collections \ {row} /\ db.tables' = db.tables \ {row.slug}
        /\ Kept(row)
        /\ \A q, r \in collections : q.id = r.id \/ q.slug = r.slug => q = r
        /\ \A s \in db.tables : s \in Slugs
    BY DEF CollectionRemoved, Matched, TypeInv, TypeOK, CollectionRow
  <1>2. /\ \A r \in collections : r # row => AppOf(r)' = AppOf(r) /\ AppOf(r) # a
        /\ \A s \in db.tables : s # row.slug => TableOf(s)' = TableOf(s) /\ TableOf(s) # t
    BY <1>1, KeptAppsAndTables DEF AppOf, TableOf
  <1>3. Apps' = Apps \ {a}
    <2>1. Apps' = {AppOf(r)' : r \in collections'}
      BY DEF Apps
    <2> HIDE DEF a
    <2>2. a = AppOf(row)
      BY DEF a
    <2> QED BY <1>1, <1>2, <2>1, <2>2 DEF Apps
  <1>4. Tables' = Tables \ {t}
    <2>1. Tables' = {TableOf(s)' : s \in db.tables'}
      BY DEF Tables
    <2> HIDE DEF t
    <2>2. t = TableOf(row.slug)
      BY DEF t
    <2> QED BY <1>1, <1>2, <2>1, <2>2 DEF Tables
  <1>5. a \in Apps /\ t = [slug |-> a.slug, columns |-> a.columns]
    BY DEF Apps, AppOf, TableOf, Matched
  <1> QED BY <1>3, <1>4, <1>5, RefinedActions

\* One app is replaced, with its table.
LEMMA ColumnsRefine ==
    ASSUME TypeInv, Matched, NEW row \in collections, NEW columns, ColumnsSet(row, columns)
    PROVE  LET a == AppOf(row)
               b == [a EXCEPT !.columns = columns]
           IN  /\ a \in Apps /\ a.columns = StoredFieldSlugs(row.id)
               /\ Apps' = (Apps \ {a}) \cup {b}
               /\ Tables' = (Tables \ {[slug |-> a.slug, columns |-> a.columns]})
                              \cup {[slug |-> b.slug, columns |-> b.columns]}
  <1> DEFINE a == AppOf(row)
             b == [a EXCEPT !.columns = columns]
             t == [slug |-> a.slug, columns |-> a.columns]
             u == [slug |-> b.slug, columns |-> b.columns]
  <1>1. /\ UNCHANGED collections /\ db.tables' = db.tables /\ Kept(row)
        /\ \A q, r \in collections : q.id = r.id \/ q.slug = r.slug => q = r
        /\ \A s \in db.tables : s \in Slugs
        /\ row.slug \in db.tables
    BY DEF ColumnsSet, Matched, TypeInv, TypeOK, CollectionRow
  <1>2. AppOf(row)' = b /\ TableOf(row.slug)' = u
    BY DEF ColumnsSet, AppOf, TableOf
  <1>3. /\ \A r \in collections : r # row => AppOf(r)' = AppOf(r) /\ AppOf(r) # a
        /\ \A s \in db.tables : s # row.slug => TableOf(s)' = TableOf(s) /\ TableOf(s) # t
    BY <1>1, KeptAppsAndTables DEF AppOf, TableOf
  <1>4. AppOf(row) = a /\ TableOf(row.slug) = t /\ a.columns = StoredFieldSlugs(row.id)
    BY DEF AppOf, TableOf, Matched
  <1> HIDE DEF a, b, t, u
  <1>5. Apps' = (Apps \ {a}) \cup {b}
    <2>1. Apps' = {AppOf(r)' : r \in collections'}
      BY DEF Apps
    <2> QED BY <1>1, <1>2, <1>3, <1>4, <2>1 DEF Apps
  <1>6. Tables' = (Tables \ {t}) \cup {u}
    <2>1. Tables' = {TableOf(s)' : s \in db.tables'}
      BY DEF Tables
    <2> QED BY <1>1, <1>2, <1>3, <1>4, <2>1 DEF Tables
  <1>7. a \in Apps
    BY <1>4 DEF Apps
  <1> QED BY <1>4, <1>5, <1>6, <1>7 DEF a, b, t, u

LEMMA StepRefines ==
    ASSUME TypeInv, Matched, CatalogStep
    PROVE  [Catalog!Next]_(Catalog!catalogVars)
  <1>1. ASSUME NEW row \in CollectionRow, NEW columns \in SUBSET FieldSlugs,
               CollectionAdded(row, columns)
        PROVE  Catalog!CreateApp
    BY <1>1, AddedRefines
  <1>2. ASSUME NEW row \in collections, CollectionRemoved(row)
        PROVE  Catalog!DropApp
    BY <1>2, RemovedRefines
  <1>3. ASSUME NEW row \in collections, NEW s \in FieldSlugs,
               s \notin StoredFieldSlugs(row.id),
               ColumnsSet(row, StoredFieldSlugs(row.id) \cup {s})
        PROVE  Catalog!AddColumnTo
    <2> DEFINE a == AppOf(row)
               b == [a EXCEPT !.columns = StoredFieldSlugs(row.id) \cup {s}]
    <2>1. /\ a \in Apps /\ a.columns = StoredFieldSlugs(row.id)
          /\ Apps' = (Apps \ {a}) \cup {b}
          /\ Tables' = (Tables \ {[slug |-> a.slug, columns |-> a.columns]})
                         \cup {[slug |-> b.slug, columns |-> b.columns]}
      BY <1>3, ColumnsRefine
    <2>2. b = [a EXCEPT !.columns = @ \cup {s}]
      BY <2>1
    <2> HIDE DEF a, b
    <2> QED BY <1>3, <2>1, <2>2, RefinedActions
  <1>4. ASSUME NEW row \in collections, NEW s \in FieldSlugs,
               s \in StoredFieldSlugs(row.id),
               ColumnsSet(row, StoredFieldSlugs(row.id) \ {s})
        PROVE  Catalog!RemoveColumnFrom
    <2> DEFINE a == AppOf(row)
               b == [a EXCEPT !.columns = StoredFieldSlugs(row.id) \ {s}]
    <2>1. /\ a \in Apps /\ a.columns = StoredFieldSlugs(row.id)
          /\ Apps' = (Apps \ {a}) \cup {b}
          /\ Tables' = (Tables \ {[slug |-> a.slug, columns |-> a.columns]})
                         \cup {[slug |-> b.slug, columns |-> b.columns]}
      BY <1>4, ColumnsRefine
    <2>2. b = [a EXCEPT !.columns = @ \ {s}]
      BY <2>1
    <2> HIDE DEF a, b
    <2> QED BY <1>4, <2>1, <2>2, RefinedActions
  <1>5. CASE SameCatalog
    <2>1. /\ \A r \in collections : r.id \in CollectionIds
          /\ \A t \in db.tables : t \in Slugs
      BY DEF Matched, TypeInv, TypeOK, CollectionRow
    <2>2. Tables' = Tables
      <3>1. \A t \in db.tables : TableOf(t)' = TableOf(t)
        BY <1>5, <2>1 DEF SameCatalog, TableOf
      <3>2. Tables' = {TableOf(t)' : t \in db.tables'}
        BY DEF Tables
      <3> QED BY <1>5, <3>1, <3>2 DEF SameCatalog, Tables
    <2>3. Apps' = Apps
      <3>1. \A q \in collections, r \in collections' :
              q.id = r.id /\ q.slug = r.slug => AppOf(r)' = AppOf(q)
        BY <1>5, <2>1 DEF SameCatalog, AppOf
      <3>2. Apps' = {AppOf(r)' : r \in collections'}
        BY DEF Apps
      <3> QED BY <1>5, <3>1, <3>2 DEF SameCatalog, Apps
    <2> QED BY <2>2, <2>3, Refinement
  <1> QED BY <1>1, <1>2, <1>3, <1>4, <1>5, Refinement DEF CatalogStep

LEMMA NextRefines ==
    Reversible /\ TypeInv /\ TypeInv' /\ CatalogInv /\ [Next]_vars
      => [Catalog!Next]_(Catalog!catalogVars)
  <1> SUFFICES ASSUME Reversible, TypeInv, TypeInv', CatalogInv, [Next]_vars
               PROVE  [Catalog!Next]_(Catalog!catalogVars)
    OBVIOUS
  <1>1. ASSUME NEW c \in Clients, Transaction(c)
        PROVE  [Catalog!Next]_(Catalog!catalogVars)
    <2>1. CatalogStep
      BY <1>1, TransactionCatalog DEF CatalogAfter
    <2>2. Matched
      BY DEF Matched, CatalogInv, MetaMatchesTables
    <2> QED BY <2>1, <2>2, StepRefines
  <1>2. CASE \A c \in Clients : ~Transaction(c)
    <2>1. OutsideTransactions
      BY <1>2, OtherSteps DEF CatalogInv, MetaMatchesTables, FieldKeys
    <2>2. Apps' = Apps /\ Tables' = Tables
      BY <2>1 DEF OutsideTransactions, Apps, Tables, AppOf, TableOf, StoredFieldSlugs,
         FieldsOf, UserColumns, ColumnsOf
    <2> QED BY <2>2, Refinement
  <1> QED BY <1>1, <1>2

\* The engine implements the atomic catalog for every set of callers,
\* identities, slugs and field types, without rollbacks or with them when every
\* field has a column: whatever calls overlap, each transaction, a rollback's
\* too, creates or drops one collection with its table, adds or removes one
\* column of one collection and of its table, or changes neither; and no
\* preflight, refresh, failure or restart changes either.
THEOREM CatalogImplemented ==
    ASSUME Reversible PROVE Spec => ImplementsCatalog
  <1>1. Spec => []TypeInv
    BY TypeInvariant
  <1>2. Init => CatalogInv /\ Catalog!Init
    <2>1. Init => CatalogInv
      BY InitCatalog
    <2>2. Init => Apps = {} /\ Tables = {}
      BY DEF Init, EmptyDatabase, Apps, Tables
    <2> QED BY <2>1, <2>2, Refinement
  <1>3. TypeInv /\ TypeInv' /\ CatalogInv /\ [Next]_vars =>
          CatalogInv' /\ [Catalog!Next]_(Catalog!catalogVars)
    BY CatalogInvStep, NextRefines
  <1> QED BY <1>1, <1>2, <1>3, PTL DEF Spec, ImplementsCatalog, Catalog!Spec

(***************************************************************************)
(* The history.                                                            *)
(***************************************************************************)
OneCaller == \A c, d \in Clients : c = d

\* The record a rollback judged before its transaction is still applied when
\* the transaction runs: with one caller nothing comes in between.
RollbackFresh ==
    \A c \in Clients : InTx(c, "rollback") => ~migrations[Args(c).mig].rolledBack

LEMMA RollbackFreshStep ==
    OneCaller /\ TypeInv /\ RollbackFresh /\ [Next]_vars => RollbackFresh'
  <1> SUFFICES ASSUME OneCaller, TypeInv, RollbackFresh, [Next]_vars
               PROVE  RollbackFresh'
    OBVIOUS
  <1>1. ASSUME NEW c \in Clients, NEW r, Goto(c, r),
               r.phase = "tx" /\ r.op = "rollback" => ~migrations'[r.args.mig].rolledBack
        PROVE  RollbackFresh'
    BY <1>1 DEF OneCaller, RollbackFresh, InTx, Args, Goto, TypeInv, TypeOK
  <1>2. ASSUME NEW c \in Clients, NEW r, Goto(c, r), r.phase # "tx"
        PROVE  RollbackFresh'
    BY <1>1, <1>2
  <1>3. ASSUME NEW c \in Clients, NEW op, NEW args, Begin(c, op, args), op # "rollback"
        PROVE  RollbackFresh'
    BY <1>1, <1>3 DEF Begin, Goto, Tx
  <1>4. ASSUME NEW c \in Clients, Preflight(c)
        PROVE  RollbackFresh'
    <2>1. CASE BeginRollback(c)
      <3>1. PICK m \in 1..Len(migrations) :
              ~migrations[m].rolledBack /\ Begin(c, "rollback", [mig |-> m])
        BY <2>1 DEF BeginRollback
      <3> QED BY <1>1, <3>1 DEF Begin, Goto, Tx
    <2> QED
      BY <1>3, <1>4, <2>1 DEF Preflight, BeginCreateCollection, BeginUpdateCollection,
         BeginDropCollection, BeginAddField, BeginAlterField, BeginDropField,
         BeginSaveProcess
  <1>5. ASSUME NEW c \in Clients, Transaction(c) \/ TxAborts(c)
        PROVE  RollbackFresh'
    BY <1>2, <1>5 DEF Transaction, CreateCollectionTx, UpdateCollectionTx,
       DropCollectionTx, AddFieldTx, AlterFieldTx, DropFieldTx, SaveProcessTx, RollbackTx,
       TxAborts, Idle, Load, ReloadCollection, RemoveCollection, ReloadProcess
  <1>6. ASSUME NEW c \in Clients, Refresh(c) \/ RefreshFails(c)
        PROVE  RollbackFresh'
    BY <1>2, <1>6 DEF Refresh, RefreshFails, ReloadRead, ReloadReadFields,
       InstallCollection, RemoveFromCache, ReloadProcessRead, InstallProcessEntry,
       LoadCollections, LoadFieldsOf, LoadProcessOf, LoadInstall, Idle, ReloadFields,
       Install, InstallProcess, LoadFields, LoadProcesses
  <1>7. CASE Restart
    BY <1>7 DEF Restart, RollbackFresh, InTx, Idle
  <1>8. CASE UNCHANGED vars
    BY <1>8 DEF vars, RollbackFresh, InTx, Args
  <1> QED BY <1>4, <1>5, <1>6, <1>7, <1>8 DEF Next

\* What a transaction writes to the history when it changes a table.
LEMMA ChangeRecorded ==
    ASSUME TypeInv, NEW c \in Clients, Transaction(c), db' # db
    PROVE  \/ Len(migrations') = Len(migrations) + 1
           \/ /\ InTx(c, "rollback")
              /\ migrations' = [migrations EXCEPT ![Args(c).mig].rolledBack = TRUE]
  <1>1. ASSUME NEW coll, NEW op, NEW payload, NEW down, Record(coll, op, payload, down)
        PROVE  Len(migrations') = Len(migrations) + 1
    BY <1>1 DEF Record, TypeInv, TypeOK
  <1>2. CASE CreateCollectionTx(c)
    BY <1>1, <1>2 DEF CreateCollectionTx
  <1>3. CASE UpdateCollectionTx(c)
    BY <1>3 DEF UpdateCollectionTx
  <1>4. CASE DropCollectionTx(c)
    BY <1>1, <1>4 DEF DropCollectionTx
  <1>5. CASE AddFieldTx(c)
    BY <1>1, <1>5 DEF AddFieldTx
  <1>6. CASE AlterFieldTx(c)
    BY <1>1, <1>6 DEF AlterFieldTx
  <1>7. CASE DropFieldTx(c)
    BY <1>1, <1>7 DEF DropFieldTx
  <1>8. CASE SaveProcessTx(c)
    BY <1>1, <1>8 DEF SaveProcessTx
  <1>9. CASE RollbackTx(c)
    BY <1>9 DEF RollbackTx
  <1> QED
    BY <1>2, <1>3, <1>4, <1>5, <1>6, <1>7, <1>8, <1>9 DEF Transaction

\* No statement changes a table without a trace: the step adds a migration
\* record or turns one from applied to rolled back, for any number of callers
\* that roll nothing back and for one caller that does.
THEOREM ChangesRecordedCorrect ==
    ASSUME OneCaller \/ NoRollbacks PROVE Spec => SchemaChangesRecorded
  <1> DEFINE Rec == db' # db =>
                \/ Len(migrations') = Len(migrations) + 1
                \/ \E i \in 1..Len(migrations) :
                      ~migrations[i].rolledBack /\ migrations'[i].rolledBack
             Trace == NoRollbacks => CatalogInv
  <1>1. Init => (OneCaller => RollbackFresh) /\ Trace
    BY InitCatalog DEF Init, RollbackFresh, InTx, Idle
  <1>2. TypeInv /\ TypeInv' /\ (OneCaller => RollbackFresh) /\ Trace /\ [Next]_vars
          => (OneCaller => RollbackFresh)' /\ Trace'
    BY RollbackFreshStep, CatalogInvStep DEF Reversible
  <1>3. TypeInv /\ TypeInv' /\ (OneCaller => RollbackFresh) /\ Trace /\ [Next]_vars => Rec
    <2> SUFFICES ASSUME TypeInv, OneCaller => RollbackFresh, Trace, [Next]_vars, db' # db
                 PROVE  \/ Len(migrations') = Len(migrations) + 1
                        \/ \E i \in 1..Len(migrations) :
                              ~migrations[i].rolledBack /\ migrations'[i].rolledBack
      OBVIOUS
    <2>1. PICK c \in Clients : Transaction(c)
      BY DEF Next, Preflight, BeginCreateCollection, BeginUpdateCollection,
         BeginDropCollection, BeginAddField, BeginAlterField, BeginDropField,
         BeginSaveProcess, BeginRollback, Begin, TxAborts, Refresh, RefreshFails,
         ReloadRead, ReloadReadFields, InstallCollection, RemoveFromCache,
         ReloadProcessRead, InstallProcessEntry, LoadCollections, LoadFieldsOf,
         LoadProcessOf, LoadInstall, Restart, vars
    <2>2. CASE Len(migrations') = Len(migrations) + 1
      BY <2>2
    <2>3. CASE /\ InTx(c, "rollback")
               /\ migrations' = [migrations EXCEPT ![Args(c).mig].rolledBack = TRUE]
      <3>1. ~migrations[Args(c).mig].rolledBack
        BY <2>3 DEF RollbackFresh, InTx, NoRollbacks, CatalogInv, Facts, CallsAllowed
      <3>2. Args(c).mig \in 1..Len(migrations)
        BY <2>3 DEF TypeInv, RollbackNamesRecord
      <3>3. migrations'[Args(c).mig].rolledBack
        BY <2>3, <3>2 DEF TypeInv, TypeOK, MigrationRow, Recorded
      <3> QED BY <3>1, <3>2, <3>3
    <2> QED BY <2>1, <2>2, <2>3, ChangeRecorded
  <1> QED BY <1>1, <1>2, <1>3, TypeInvariant, PTL DEF Spec, SchemaChangesRecorded

-----------------------------------------------------------------------------
(***************************************************************************)
(* With one call at a time and refreshes that succeed, the cache is the     *)
(* committed metadata whenever no call is under way; until a migration is   *)
(* rolled back, the columns of the data tables are also those the field     *)
(* rows and the processes announce.                                        *)
(***************************************************************************)

\* One caller, refreshes that succeed.  Absent stands for a missing map entry,
\* so no snapshot is called that.
OneAtATime ==
    /\ Clients # {} /\ OneCaller
    /\ ~RefreshMayFail
    /\ Absent \notin Snapshot

(***************************************************************************)
(* The cache between the calls and the steps of one caller.                *)
(***************************************************************************)
SnapshotNow(r) == SnapshotOf(r, FieldsOf(r.id))

\* The id index and the slug index answer what a read of the store would.
EntryFresh(id) ==
    /\ \A r \in collections : r.id = id => byID[id] = SnapshotNow(r)
    /\ (\A r \in collections : r.id # id) => byID[id] = Absent

SlugFresh(s) ==
    /\ \A r \in collections : r.slug = s => bySlug[s] = SnapshotNow(r)
    /\ (\A r \in collections : r.slug # s) => bySlug[s] = Absent

ProcessFresh(id) ==
    /\ \A p \in processes : p.coll = id => procCache[id] = p.enabled
    /\ (\A p \in processes : p.coll # id) => procCache[id] = Absent

\* All but collection id and its slug.
FreshBut(id) ==
    /\ \A k \in CollectionIds \ {id} : EntryFresh(k)
    /\ \A s \in Slugs :
          \/ SlugFresh(s)
          \/ \E r \in collections : r.id = id /\ r.slug = s
          \/ byID[id] # Absent /\ byID[id].slug = s

ProcessesFreshBut(id) ==
    \A r \in collections : r.id # id => ProcessFresh(r.id)

IndexesFresh ==
    (\A id \in CollectionIds : EntryFresh(id)) /\ (\A s \in Slugs : SlugFresh(s))
ProcessesFresh == \A r \in collections : ProcessFresh(r.id)

\* A refresh of collection id in each of its phases.
Reloading(q) ==
    \/ /\ q.phase = "reload" /\ FreshBut(q.id)
       /\ \E r \in collections : r.id = q.id
    \/ q.phase = "reload_fields" /\ FreshBut(q.row.id) /\ q.row \in collections
    \/ /\ q.phase = "install" /\ FreshBut(q.col.id)
       /\ \E r \in collections : q.col = SnapshotNow(r)
    \/ /\ q.phase = "remove" /\ FreshBut(q.id)
       /\ \A r \in collections :
             r.id # q.id /\ (byID[q.id] # Absent => r.slug # byID[q.id].slug)

ReloadingProcess(q) ==
    /\ q.id \in issued
    /\ ProcessesFreshBut(q.id)
    /\ q.phase = "install_process" => q.proc = ReadProcess(q.id)

\* A full load: what it has read and what it is about to read are the store.
LoadingAll(q) ==
    \/ q.phase = "load"
    \/ /\ q.phase = "load_fields"
       /\ q.todo \subseteq collections
       /\ q.got \cup {SnapshotNow(r) : r \in q.todo} = {SnapshotNow(r) : r \in collections}
    \/ /\ q.phase = "load_processes"
       /\ q.cols = {SnapshotNow(r) : r \in collections}
       /\ q.procs \cup {p \in processes : p.coll \in q.todo} = processes

\* What the preflight of a call read is still so.
ReadStill(q) ==
    /\ q.op = "update_collection" => \E r \in collections : r.id = q.args.id
    /\ q.op = "alter_field" => q.args.old \in fields
    /\ q.op = "save_process" =>
         (q.args.wasEnabled <=> [coll |-> q.args.id, enabled |-> TRUE] \in processes)

CallCoherent(q) ==
    \/ q = Idle /\ IndexesFresh /\ ProcessesFresh
    \/ q.phase = "tx" /\ IndexesFresh /\ ProcessesFresh /\ ReadStill(q)
    \/ Reloading(q) /\ ProcessesFresh
    \/ /\ q.phase \in {"reload_process", "install_process"}
       /\ IndexesFresh /\ ReloadingProcess(q)
    \/ LoadingAll(q)

ProcessKeys ==
    /\ \A p, q \in processes : p.coll = q.coll => p = q
    /\ \A p \in processes : \E r \in collections : r.id = p.coll

UnissuedUncached == \A id \in CollectionIds \ issued : procCache[id] = Absent

CacheInv ==
    ProcessKeys /\ UnissuedUncached /\ \A c \in Clients : CallCoherent(req[c])

LEMMA InitCache == Init => CacheInv
  <1> SUFFICES ASSUME Init PROVE CacheInv
    OBVIOUS
  <1>1. /\ collections = {} /\ processes = {}
        /\ byID = [id \in CollectionIds |-> Absent]
        /\ bySlug = [s \in Slugs |-> Absent]
        /\ procCache = [id \in CollectionIds |-> Absent]
        /\ \A c \in Clients : req[c] = Idle
    BY DEF Init
  <1>2. IndexesFresh /\ ProcessesFresh
    BY <1>1 DEF IndexesFresh, EntryFresh, SlugFresh, ProcessesFresh
  <1> QED BY <1>1, <1>2 DEF CacheInv, ProcessKeys, UnissuedUncached, CallCoherent

(***************************************************************************)
(* Steps that leave store and cache alone.                                 *)
(***************************************************************************)
Still == UNCHANGED <<meta, cache>>

LEMMA StillFresh ==
    ASSUME Still
    PROVE  /\ IndexesFresh' <=> IndexesFresh
           /\ ProcessesFresh' <=> ProcessesFresh
           /\ \A id : FreshBut(id)' <=> FreshBut(id)
           /\ \A id : ProcessesFreshBut(id)' <=> ProcessesFreshBut(id)
           /\ ProcessKeys' <=> ProcessKeys
  <1>1. UNCHANGED <<collections, fields, processes, byID, bySlug, procCache>>
    BY DEF Still, meta, cache
  <1>2. \A r : SnapshotNow(r)' = SnapshotNow(r)
    BY <1>1 DEF SnapshotNow, SnapshotOf, FieldsOf
  <1>3. \A id : EntryFresh(id)' <=> EntryFresh(id)
    BY <1>1, <1>2 DEF EntryFresh
  <1>4. \A s : SlugFresh(s)' <=> SlugFresh(s)
    BY <1>1, <1>2 DEF SlugFresh
  <1>5. \A id : ProcessFresh(id)' <=> ProcessFresh(id)
    BY <1>1 DEF ProcessFresh
  <1>6. IndexesFresh' <=> IndexesFresh
    BY <1>3, <1>4 DEF IndexesFresh
  <1>7. ProcessesFresh' <=> ProcessesFresh
    BY <1>1, <1>5 DEF ProcessesFresh
  <1>8. \A id : FreshBut(id)' <=> FreshBut(id)
    BY <1>1, <1>3, <1>4 DEF FreshBut
  <1>9. \A id : ProcessesFreshBut(id)' <=> ProcessesFreshBut(id)
    BY <1>1, <1>5 DEF ProcessesFreshBut
  <1>10. ProcessKeys' <=> ProcessKeys
    BY <1>1 DEF ProcessKeys
  <1> QED BY <1>6, <1>7, <1>8, <1>9, <1>10

\* The only caller's next request says all there is to say.
LEMMA Alone ==
    ASSUME OneCaller, TypeInv, NEW c \in Clients, NEW r, Goto(c, r), CallCoherent(r)'
    PROVE  \A d \in Clients : CallCoherent(req[d])'
  <1> SUFFICES ASSUME NEW d \in Clients PROVE CallCoherent(req[d])'
    OBVIOUS
  <1>1. req'[d] = r
    BY DEF OneCaller, Goto, TypeInv, TypeOK
  <1>2. Reloading(r)' => Reloading(req[d])'
    BY <1>1 DEF Reloading, FreshBut
  <1>3. ReloadingProcess(r)' => ReloadingProcess(req[d])'
    BY <1>1 DEF ReloadingProcess, ProcessesFreshBut, ReadProcess
  <1>4. ReadStill(r)' => ReadStill(req[d])'
    BY <1>1 DEF ReadStill
  <1>5. LoadingAll(r)' => LoadingAll(req[d])'
    BY <1>1 DEF LoadingAll
  <1> QED BY <1>1, <1>2, <1>3, <1>4, <1>5 DEF CallCoherent

(***************************************************************************)
(* Preflights and failing transactions.                                    *)
(***************************************************************************)
LEMMA IdleIsFresh ==
    ASSUME CacheInv, NEW c \in Clients, req[c] = Idle \/ req[c].phase = "tx"
    PROVE  IndexesFresh /\ ProcessesFresh /\ (req[c].phase = "tx" => ReadStill(req[c]))
  BY DEF CacheInv, CallCoherent, Reloading, LoadingAll, Idle

LEMMA BegunCoherent ==
    ASSUME OneCaller, TypeInv, CacheInv, NEW c \in Clients, NEW op, NEW args,
           Begin(c, op, args), ReadStill(Tx(op, args))
    PROVE  \A d \in Clients : CallCoherent(req[d])'
  <1>1. /\ Goto(c, Tx(op, args)) /\ req[c] = Idle
        /\ UNCHANGED <<meta, cache>>
    BY DEF Begin, Goto
  <1>2. IndexesFresh' /\ ProcessesFresh'
    BY <1>1, IdleIsFresh, StillFresh DEF Still
  <1>3. PICK r : r = Tx(op, args)
    OBVIOUS
  <1>4. ReadStill(r)'
    BY <1>1, <1>3 DEF ReadStill, Tx, meta
  <1>5. CallCoherent(r)'
    BY <1>2, <1>3, <1>4 DEF CallCoherent, Tx
  <1> QED BY <1>1, <1>3, <1>5, Alone

LEMMA PreflightCoherent ==
    ASSUME OneCaller, TypeInv, CatalogInv, CacheInv, Absent \notin Snapshot,
           NEW c \in Clients, Preflight(c)
    PROVE  \A d \in Clients : CallCoherent(req[d])'
  <1>1. ASSUME NEW op, NEW args, Begin(c, op, args),
               op \notin {"update_collection", "alter_field", "save_process"}
        PROVE  \A d \in Clients : CallCoherent(req[d])'
    BY <1>1, BegunCoherent DEF ReadStill, Tx
  <1>2. CASE BeginUpdateCollection(c)
    <2>1. PICK r \in collections, l \in Labels \cup {Keep} :
            Begin(c, "update_collection", [id |-> r.id, label |-> l])
      BY <1>2 DEF BeginUpdateCollection
    <2>2. ReadStill(Tx("update_collection", [id |-> r.id, label |-> l]))
      BY DEF ReadStill, Tx
    <2> QED BY <2>1, <2>2, BegunCoherent
  <1>3. CASE BeginAlterField(c)
    <2>1. PICK args : args.old \in fields /\ Begin(c, "alter_field", args)
      BY <1>3 DEF BeginAlterField
    <2>2. ReadStill(Tx("alter_field", args))
      BY <2>1 DEF ReadStill, Tx
    <2> QED BY <2>1, <2>2, BegunCoherent
  <1>4. CASE BeginSaveProcess(c)
    <2>1. PICK args :
            /\ args.id \in Cached /\ (args.wasEnabled <=> procCache[args.id] = TRUE)
            /\ Begin(c, "save_process", args)
      BY <1>4 DEF BeginSaveProcess
    <2> DEFINE id == args.id
    <2>2. IndexesFresh /\ ProcessesFresh
      BY <2>1, IdleIsFresh DEF Begin
    <2>3. PICK row \in collections : row.id = id
      BY <2>1, <2>2 DEF Cached, IndexesFresh, EntryFresh
    <2>4. procCache[id] = TRUE <=> [coll |-> id, enabled |-> TRUE] \in processes
      <3>1. ProcessFresh(id)
        BY <2>2, <2>3 DEF ProcessesFresh
      <3>2. CASE \E p \in processes : p.coll = id
        <4>1. PICK p \in processes : p.coll = id
          BY <3>2
        <4>2. p = [coll |-> id, enabled |-> p.enabled] /\ p.enabled \in BOOLEAN
          BY <4>1 DEF TypeInv, TypeOK, ProcessRow
        <4>3. \A q \in processes : q.coll = id => q = p
          BY <4>1 DEF CacheInv, ProcessKeys
        <4> QED BY <3>1, <4>1, <4>2, <4>3 DEF ProcessFresh
      <3>3. CASE \A p \in processes : p.coll # id
        BY <3>1, <3>3, EngineAssumption DEF ProcessFresh
      <3> QED BY <3>2, <3>3
    <2>5. ReadStill(Tx("save_process", args))
      BY <2>1, <2>4 DEF ReadStill, Tx
    <2> QED BY <2>1, <2>5, BegunCoherent
  <1>5. CASE BeginCreateCollection(c)
    BY <1>1, <1>5 DEF BeginCreateCollection
  <1>6. CASE BeginDropCollection(c)
    BY <1>1, <1>6 DEF BeginDropCollection
  <1>7. CASE BeginAddField(c)
    BY <1>1, <1>7 DEF BeginAddField
  <1>8. CASE BeginDropField(c)
    BY <1>1, <1>8 DEF BeginDropField
  <1>9. CASE BeginRollback(c)
    BY <1>1, <1>9 DEF BeginRollback
  <1> QED
    BY <1>2, <1>3, <1>4, <1>5, <1>6, <1>7, <1>8, <1>9 DEF Preflight

LEMMA AbortCoherent ==
    ASSUME OneCaller, TypeInv, CacheInv, NEW c \in Clients, TxAborts(c)
    PROVE  \A d \in Clients : CallCoherent(req[d])'
  <1>1. IndexesFresh' /\ ProcessesFresh'
    BY IdleIsFresh, StillFresh DEF TxAborts, Still
  <1>2. CallCoherent(Idle)'
    BY <1>1 DEF CallCoherent, Idle
  <1> QED BY <1>2, Alone DEF TxAborts

(***************************************************************************)
(* Refreshes.                                                              *)
(***************************************************************************)
LEMMA InstallFresh ==
    ASSUME TypeInv, TypeInv', CatalogInv, Absent \notin Snapshot,
           NEW c \in Clients, InstallCollection(c), Reloading(req[c])
    PROVE  IndexesFresh'
  <1>1. PICK row \in collections, col \in Snapshot :
          col = req[c].col /\ col = SnapshotNow(row) /\ FreshBut(col.id)
    BY RefreshLocals DEF InstallCollection, Reloading, TypeInv, TypeOK
  <1>2. /\ byID' = [byID EXCEPT ![col.id] = col]
        /\ bySlug' = [SlugDropped(byID[col.id], col.slug) EXCEPT ![col.slug] = col]
        /\ UNCHANGED <<collections, fields>>
    BY <1>1 DEF InstallCollection, meta
  <1>3. col.id = row.id /\ col.slug = row.slug /\ col.id \in CollectionIds /\ col.slug \in Slugs
    BY <1>1 DEF SnapshotNow, SnapshotOf, Snapshot
  <1>4. \A r \in collections : r.id = row.id \/ r.slug = row.slug => r = row
    BY DEF CatalogInv, MetaMatchesTables
  <1>5. \A r : SnapshotNow(r)' = SnapshotNow(r)
    BY <1>2 DEF SnapshotNow, SnapshotOf, FieldsOf
  <1>6. ASSUME NEW k \in CollectionIds PROVE EntryFresh(k)'
    <2>1. CASE k = col.id
      BY <1>1, <1>2, <1>3, <1>4, <1>5, <2>1 DEF EntryFresh, TypeInv, TypeOK
    <2>2. CASE k # col.id
      BY <1>1, <1>2, <1>5, <2>2 DEF FreshBut, EntryFresh, TypeInv, TypeOK
    <2> QED BY <2>1, <2>2
  <1>7. byID[col.id] # Absent => byID[col.id].slug = col.slug
    <2>1. byID[col.id] # Absent => byID[col.id] \in Snapshot
      BY <1>3 DEF TypeInv, TypeOK
    <2>2. byID[col.id] # Absent => byID[col.id].slug \in Slugs
      BY <2>1 DEF Snapshot
    <2>3. Known(col.id, col.slug)
      BY <1>3 DEF Known, Stored
    <2>4. byID[col.id] # Absent => Known(col.id, byID[col.id].slug)
      BY DEF Known, InCache
    <2> QED BY <1>3, <2>2, <2>3, <2>4 DEF CatalogInv, Facts, SlugsFixed
  <1>8. ASSUME NEW s \in Slugs PROVE SlugFresh(s)'
    <2>1. bySlug' = [bySlug EXCEPT ![col.slug] = col]
      BY <1>2, <1>7 DEF SlugDropped
    <2>2. CASE s = col.slug
      BY <1>1, <1>2, <1>3, <1>4, <1>5, <2>1, <2>2 DEF SlugFresh, TypeInv, TypeOK
    <2>3. CASE s # col.slug
      <3>1. SlugFresh(s)
        BY <1>1, <1>3, <1>4, <1>7, <2>3 DEF FreshBut
      <3>2. bySlug'[s] = bySlug[s]
        BY <2>1, <2>3 DEF TypeInv, TypeOK
      <3> QED BY <1>2, <1>5, <3>1, <3>2 DEF SlugFresh
    <2> QED BY <2>2, <2>3
  <1> QED BY <1>6, <1>8 DEF IndexesFresh

LEMMA RemoveFresh ==
    ASSUME TypeInv, TypeInv', NEW c \in Clients, RemoveFromCache(c), Reloading(req[c])
    PROVE  IndexesFresh'
  <1>1. PICK id \in CollectionIds :
          /\ id = req[c].id /\ FreshBut(id)
          /\ \A r \in collections :
                r.id # id /\ (byID[id] # Absent => r.slug # byID[id].slug)
    BY RefreshLocals DEF RemoveFromCache, Reloading, TypeInv, TypeOK
  <1>2. UNCHANGED <<collections, fields>>
    BY DEF RemoveFromCache, meta
  <1>3. \A r : SnapshotNow(r)' = SnapshotNow(r)
    BY <1>2 DEF SnapshotNow, SnapshotOf, FieldsOf
  <1>4. CASE byID[id] = Absent
    <2>1. UNCHANGED <<byID, bySlug>>
      BY <1>1, <1>4 DEF RemoveFromCache
    <2>2. \A k \in CollectionIds : EntryFresh(k)
      BY <1>1, <1>4 DEF FreshBut, EntryFresh
    <2>3. \A s \in Slugs : SlugFresh(s)
      BY <1>1, <1>4 DEF FreshBut
    <2> QED
      BY <1>2, <1>3, <2>1, <2>2, <2>3 DEF IndexesFresh, EntryFresh, SlugFresh
  <1>5. CASE byID[id] # Absent
    <2>1. /\ byID' = [byID EXCEPT ![id] = Absent]
          /\ bySlug' = [bySlug EXCEPT ![byID[id].slug] = Absent]
      BY <1>1, <1>5 DEF RemoveFromCache
    <2>2. ASSUME NEW k \in CollectionIds PROVE EntryFresh(k)'
      BY <1>1, <1>2, <1>3, <2>1 DEF FreshBut, EntryFresh, TypeInv, TypeOK
    <2>3. ASSUME NEW s \in Slugs PROVE SlugFresh(s)'
      <3>1. CASE s = byID[id].slug
        BY <1>1, <1>2, <1>5, <2>1, <3>1 DEF SlugFresh, TypeInv, TypeOK
      <3>2. CASE s # byID[id].slug
        <4>1. SlugFresh(s) /\ bySlug'[s] = bySlug[s]
          BY <1>1, <1>5, <2>1, <3>2 DEF FreshBut, TypeInv, TypeOK
        <4> QED BY <1>2, <1>3, <4>1 DEF SlugFresh
      <3> QED BY <3>1, <3>2
    <2> QED BY <2>2, <2>3 DEF IndexesFresh
  <1> QED BY <1>4, <1>5

LEMMA RefreshPhases ==
    ASSUME CacheInv, NEW c \in Clients
    PROVE  /\ req[c].phase \in {"reload", "reload_fields", "install", "remove"} =>
                Reloading(req[c]) /\ ProcessesFresh
           /\ req[c].phase \in {"reload_process", "install_process"} =>
                IndexesFresh /\ ReloadingProcess(req[c])
           /\ req[c].phase \in {"load", "load_fields", "load_processes"} =>
                LoadingAll(req[c])
  BY DEF CacheInv, CallCoherent, Reloading, LoadingAll, Idle

(***************************************************************************)
(* Full loads, after a rollback and at a start.                            *)
(***************************************************************************)
LEMMA MapsFresh ==
    ASSUME TypeInv, CatalogInv, ProcessKeys
    PROVE  LET now == {SnapshotOf(r, FieldsOf(r.id)) : r \in collections} IN
           /\ \A id \in CollectionIds :
                /\ \A r \in collections : r.id = id => MapByID(now)[id] = SnapshotNow(r)
                /\ (\A r \in collections : r.id # id) => MapByID(now)[id] = Absent
           /\ \A s \in Slugs :
                /\ \A r \in collections : r.slug = s => MapBySlug(now)[s] = SnapshotNow(r)
                /\ (\A r \in collections : r.slug # s) => MapBySlug(now)[s] = Absent
           /\ \A id \in CollectionIds :
                /\ \A p \in processes : p.coll = id => MapProcesses(processes)[id] = p.enabled
                /\ (\A p \in processes : p.coll # id) => MapProcesses(processes)[id] = Absent
  <1> DEFINE now == {SnapshotNow(r) : r \in collections}
  <1>1. {SnapshotOf(r, FieldsOf(r.id)) : r \in collections} = now
    BY DEF SnapshotNow
  <1>2. \A r : SnapshotNow(r).id = r.id /\ SnapshotNow(r).slug = r.slug
    BY DEF SnapshotNow, SnapshotOf
  <1>3. \A q, r \in collections : q.id = r.id \/ q.slug = r.slug => q = r
    BY DEF CatalogInv, MetaMatchesTables
  <1>4. \A x \in now : \E r \in collections : x = SnapshotNow(r)
    OBVIOUS
  <1>5. \A r \in collections : SnapshotNow(r) \in now
    OBVIOUS
  <1> HIDE DEF now
  <1>6. ASSUME NEW id \in CollectionIds
        PROVE  /\ \A r \in collections : r.id = id => MapByID(now)[id] = SnapshotNow(r)
               /\ (\A r \in collections : r.id # id) => MapByID(now)[id] = Absent
    <2>1. MapByID(now)[id] = IF \E x \in now : x.id = id
                             THEN CHOOSE x \in now : x.id = id ELSE Absent
      BY DEF MapByID
    <2>2. ASSUME NEW r \in collections, r.id = id
          PROVE  MapByID(now)[id] = SnapshotNow(r)
      <3>1. SnapshotNow(r) \in now /\ SnapshotNow(r).id = id
        BY <1>2, <1>5, <2>2
      <3>2. \A x \in now : x.id = id => x = SnapshotNow(r)
        BY <1>2, <1>3, <1>4, <2>2
      <3> QED BY <2>1, <3>1, <3>2
    <2>3. (\A r \in collections : r.id # id) => MapByID(now)[id] = Absent
      BY <1>2, <1>4, <2>1
    <2> QED BY <2>2, <2>3
  <1>7. ASSUME NEW s \in Slugs
        PROVE  /\ \A r \in collections : r.slug = s => MapBySlug(now)[s] = SnapshotNow(r)
               /\ (\A r \in collections : r.slug # s) => MapBySlug(now)[s] = Absent
    <2>1. MapBySlug(now)[s] = IF \E x \in now : x.slug = s
                              THEN CHOOSE x \in now : x.slug = s ELSE Absent
      BY DEF MapBySlug
    <2>2. ASSUME NEW r \in collections, r.slug = s
          PROVE  MapBySlug(now)[s] = SnapshotNow(r)
      <3>1. SnapshotNow(r) \in now /\ SnapshotNow(r).slug = s
        BY <1>2, <1>5, <2>2
      <3>2. \A x \in now : x.slug = s => x = SnapshotNow(r)
        BY <1>2, <1>3, <1>4, <2>2
      <3> QED BY <2>1, <3>1, <3>2
    <2>3. (\A r \in collections : r.slug # s) => MapBySlug(now)[s] = Absent
      BY <1>2, <1>4, <2>1
    <2> QED BY <2>2, <2>3
  <1>8. ASSUME NEW id \in CollectionIds
        PROVE  /\ \A p \in processes : p.coll = id => MapProcesses(processes)[id] = p.enabled
               /\ (\A p \in processes : p.coll # id) => MapProcesses(processes)[id] = Absent
    <2>1. MapProcesses(processes)[id] = IF \E p \in processes : p.coll = id
              THEN (CHOOSE p \in processes : p.coll = id).enabled ELSE Absent
      BY DEF MapProcesses
    <2> QED BY <2>1 DEF ProcessKeys
  <1> QED BY <1>1, <1>6, <1>7, <1>8

\* An installed load is the store.
LEMMA LoadedFresh ==
    ASSUME TypeInv, CatalogInv, ProcessKeys, UNCHANGED <<collections, fields, processes>>,
           byID' = MapByID({SnapshotNow(r) : r \in collections}),
           bySlug' = MapBySlug({SnapshotNow(r) : r \in collections}),
           procCache' = MapProcesses(processes)
    PROVE  /\ IndexesFresh' /\ ProcessesFresh'
           /\ \A id \in CollectionIds : ProcessFresh(id)'
  <1>1. \A r : SnapshotNow(r)' = SnapshotNow(r)
    BY DEF SnapshotNow, SnapshotOf, FieldsOf
  <1>2. PICK now : /\ now = {SnapshotOf(r, FieldsOf(r.id)) : r \in collections}
                   /\ now = {SnapshotNow(r) : r \in collections}
    BY DEF SnapshotNow
  <1>3. \A id \in CollectionIds : EntryFresh(id)'
    <2>1. ASSUME NEW id \in CollectionIds
          PROVE  /\ \A r \in collections : r.id = id => MapByID(now)[id] = SnapshotNow(r)
                 /\ (\A r \in collections : r.id # id) => MapByID(now)[id] = Absent
      BY <1>2, MapsFresh
    <2>2. byID' = MapByID(now)
      BY <1>2
    <2> QED BY <1>1, <2>1, <2>2 DEF EntryFresh
  <1>4. \A s \in Slugs : SlugFresh(s)'
    <2>1. ASSUME NEW s \in Slugs
          PROVE  /\ \A r \in collections : r.slug = s => MapBySlug(now)[s] = SnapshotNow(r)
                 /\ (\A r \in collections : r.slug # s) => MapBySlug(now)[s] = Absent
      BY <1>2, MapsFresh
    <2>2. bySlug' = MapBySlug(now)
      BY <1>2
    <2> QED BY <1>1, <2>1, <2>2 DEF SlugFresh
  <1>5. \A id \in CollectionIds : ProcessFresh(id)'
    BY MapsFresh DEF ProcessFresh
  <1>6. \A r \in collections' : r.id \in CollectionIds
    BY DEF TypeInv, TypeOK, CollectionRow
  <1> QED BY <1>3, <1>4, <1>5, <1>6 DEF IndexesFresh, ProcessesFresh

LEMMA LoadCoherent ==
    ASSUME OneCaller, TypeInv, CacheInv, NEW c \in Clients,
           LoadCollections(c) \/ LoadFieldsOf(c) \/ LoadProcessOf(c)
    PROVE  \A d \in Clients : CallCoherent(req[d])'
  <1>1. UNCHANGED <<collections, fields, processes>> /\ LoadingAll(req[c])
    BY RefreshPhases DEF LoadCollections, LoadFieldsOf, LoadProcessOf, meta
  <1>2. \A r : SnapshotNow(r)' = SnapshotNow(r)
    BY <1>1 DEF SnapshotNow, SnapshotOf, FieldsOf
  <1>3. ASSUME NEW q, Goto(c, q), LoadingAll(q)
        PROVE  \A d \in Clients : CallCoherent(req[d])'
    <2>1. LoadingAll(q)'
      BY <1>1, <1>2, <1>3 DEF LoadingAll
    <2>2. CallCoherent(q)'
      BY <2>1 DEF CallCoherent
    <2> QED BY <1>3, <2>2, Alone
  <1>4. CASE LoadCollections(c)
    <2>1. LoadingAll(LoadFields(collections, {}))
      BY DEF LoadingAll, LoadFields
    <2>2. PICK q : q = LoadFields(collections, {}) /\ Goto(c, q)
      BY <1>4 DEF LoadCollections
    <2> QED BY <1>3, <2>1, <2>2
  <1>5. CASE LoadFieldsOf(c)
    <2>1. PICK todo, got : /\ todo = req[c].todo /\ got = req[c].got
                           /\ todo \subseteq collections
                           /\ got \cup {SnapshotNow(r) : r \in todo}
                                = {SnapshotNow(r) : r \in collections}
      BY <1>1, <1>5 DEF LoadFieldsOf, LoadingAll
    <2>2. CASE todo = {}
      <3>1. PICK q : q = LoadProcesses({s.id : s \in got}, got, {}) /\ Goto(c, q)
        BY <1>5, <2>1, <2>2 DEF LoadFieldsOf
      <3>2. got = {SnapshotNow(r) : r \in collections}
        BY <2>1, <2>2
      <3>3. ASSUME NEW p \in processes PROVE p.coll \in {s.id : s \in got}
        <4>1. PICK r \in collections : r.id = p.coll
          BY DEF CacheInv, ProcessKeys
        <4>2. SnapshotNow(r) \in got /\ SnapshotNow(r).id = p.coll
          BY <3>2, <4>1 DEF SnapshotNow, SnapshotOf
        <4> QED BY <4>2
      <3>4. {p \in processes : p.coll \in {s.id : s \in got}} = processes
        BY <3>3
      <3>5. q.phase = "load_processes" /\ q.cols = got /\ q.procs = {}
            /\ q.todo = {s.id : s \in got}
        BY <3>1 DEF LoadProcesses
      <3>6. LoadingAll(q)
        BY <3>2, <3>4, <3>5 DEF LoadingAll
      <3> QED BY <1>3, <3>1, <3>6
    <2>3. CASE todo # {}
      <3>1. PICK r \in todo :
              Goto(c, LoadFields(todo \ {r}, got \cup {SnapshotNow(r)}))
        BY <1>5, <2>1, <2>3 DEF LoadFieldsOf, SnapshotNow
      <3>2. PICK q : q = LoadFields(todo \ {r}, got \cup {SnapshotNow(r)}) /\ Goto(c, q)
        BY <3>1
      <3>3. q.phase = "load_fields" /\ q.todo = todo \ {r} /\ q.got = got \cup {SnapshotNow(r)}
        BY <3>2 DEF LoadFields
      <3>4. q.got \cup {SnapshotNow(k) : k \in q.todo} = got \cup {SnapshotNow(k) : k \in todo}
        BY <3>3
      <3>5. LoadingAll(q)
        BY <2>1, <3>3, <3>4 DEF LoadingAll
      <3> QED BY <1>3, <3>2, <3>5
    <2> QED BY <2>2, <2>3
  <1>6. CASE LoadProcessOf(c)
    <2>1. PICK todo, cols, procs :
            /\ todo = req[c].todo /\ cols = req[c].cols /\ procs = req[c].procs
            /\ cols = {SnapshotNow(r) : r \in collections}
            /\ procs \cup {p \in processes : p.coll \in todo} = processes
      BY <1>1, <1>6 DEF LoadProcessOf, LoadingAll
    <2>2. PICK id \in todo :
            Goto(c, LoadProcesses(todo \ {id}, cols, procs \cup ReadProcess(id)))
      BY <1>6, <2>1 DEF LoadProcessOf
    <2>3. PICK q : /\ q = LoadProcesses(todo \ {id}, cols, procs \cup ReadProcess(id))
                   /\ Goto(c, q)
      BY <2>2
    <2>4. /\ q.phase = "load_processes" /\ q.cols = cols
          /\ q.todo = todo \ {id} /\ q.procs = procs \cup ReadProcess(id)
      BY <2>3 DEF LoadProcesses
    <2>5. q.procs \cup {p \in processes : p.coll \in q.todo}
            = procs \cup {p \in processes : p.coll \in todo}
      BY <2>4 DEF ReadProcess
    <2>6. LoadingAll(q)
      BY <2>1, <2>4, <2>5 DEF LoadingAll
    <2> QED BY <1>3, <2>3, <2>6
  <1> QED BY <1>4, <1>5, <1>6

LEMMA LoadInstallFresh ==
    ASSUME TypeInv, CatalogInv, CacheInv, NEW c \in Clients, LoadInstall(c)
    PROVE  /\ IndexesFresh' /\ ProcessesFresh'
           /\ \A id \in CollectionIds : ProcessFresh(id)'
  <1>1. /\ req[c].cols = {SnapshotNow(r) : r \in collections}
        /\ req[c].procs = processes
    BY RefreshPhases DEF LoadInstall, LoadingAll
  <1>2. /\ UNCHANGED <<collections, fields, processes>>
        /\ byID' = MapByID({SnapshotNow(r) : r \in collections})
        /\ bySlug' = MapBySlug({SnapshotNow(r) : r \in collections})
        /\ procCache' = MapProcesses(processes)
    BY <1>1 DEF LoadInstall, meta
  <1> QED BY <1>2, LoadedFresh DEF CacheInv

(***************************************************************************)
(* All refreshes.                                                          *)
(***************************************************************************)
LEMMA RefreshCoherent ==
    ASSUME OneCaller, Absent \notin Snapshot, TypeInv, TypeInv', CatalogInv, CacheInv,
           NEW c \in Clients, Refresh(c)
    PROVE  \A d \in Clients : CallCoherent(req[d])'
  <1>1. ASSUME IndexesFresh', ProcessesFresh', Goto(c, Idle)
        PROVE  \A d \in Clients : CallCoherent(req[d])'
    <2>1. CallCoherent(Idle)'
      BY <1>1 DEF CallCoherent, Idle
    <2> QED BY <1>1, <2>1, Alone
  <1>2. CASE ReloadRead(c)
    <2>1. Still /\ req[c].phase = "reload"
      BY <1>2 DEF ReloadRead, Still
    <2>2. Reloading(req[c]) /\ ProcessesFresh
      BY <2>1, RefreshPhases
    <2>3. FreshBut(req[c].id) /\ \E r \in collections : r.id = req[c].id
      BY <2>1, <2>2 DEF Reloading
    <2>4. PICK row \in collections : row.id = req[c].id /\ Goto(c, ReloadFields(row))
      BY <1>2, <2>3 DEF ReloadRead
    <2>5. FreshBut(row.id)' /\ ProcessesFresh' /\ row \in collections'
      BY <2>1, <2>2, <2>3, <2>4, StillFresh DEF Still, meta
    <2>6. CallCoherent(ReloadFields(row))'
      BY <2>5 DEF CallCoherent, Reloading, ReloadFields
    <2> QED BY <2>4, <2>6, Alone
  <1>3. CASE ReloadReadFields(c)
    <2>1. Still /\ req[c].phase = "reload_fields"
      BY <1>3 DEF ReloadReadFields, Still
    <2>2. Reloading(req[c]) /\ ProcessesFresh
      BY <2>1, RefreshPhases
    <2>3. PICK row \in collections : row = req[c].row /\ FreshBut(row.id)
      BY <2>1, <2>2 DEF Reloading
    <2>4. PICK col : col = SnapshotNow(row) /\ Goto(c, Install(col))
      BY <1>3, <2>3 DEF ReloadReadFields, SnapshotNow
    <2>5. col.id = row.id
      BY <2>4 DEF SnapshotNow, SnapshotOf
    <2>6. FreshBut(col.id)' /\ ProcessesFresh' /\ row \in collections' /\ col = SnapshotNow(row)'
      BY <2>1, <2>2, <2>3, <2>4, <2>5, StillFresh
      DEF Still, meta, SnapshotNow, SnapshotOf, FieldsOf
    <2>7. CallCoherent(Install(col))'
      BY <2>6 DEF CallCoherent, Reloading, Install
    <2> QED BY <2>4, <2>7, Alone
  <1>4. CASE InstallCollection(c)
    <2>1. Reloading(req[c]) /\ ProcessesFresh
      BY <1>4, RefreshPhases DEF InstallCollection
    <2>2. ProcessesFresh'
      BY <1>4, <2>1 DEF InstallCollection, meta, ProcessesFresh, ProcessFresh
    <2> QED BY <1>1, <1>4, <2>1, <2>2, InstallFresh DEF InstallCollection
  <1>5. CASE RemoveFromCache(c)
    <2>1. Reloading(req[c]) /\ ProcessesFresh
      BY <1>5, RefreshPhases DEF RemoveFromCache
    <2>2. ProcessesFresh'
      BY <1>5, <2>1 DEF RemoveFromCache, meta, ProcessesFresh, ProcessFresh
    <2> QED BY <1>1, <1>5, <2>1, <2>2, RemoveFresh DEF RemoveFromCache
  <1>6. CASE ReloadProcessRead(c)
    <2>1. Still /\ req[c].phase = "reload_process" /\ UNCHANGED issued
      BY <1>6 DEF ReloadProcessRead, Still
    <2>2. IndexesFresh /\ ReloadingProcess(req[c])
      BY <2>1, RefreshPhases
    <2>3. PICK id, p : id = req[c].id /\ p = ReadProcess(id) /\ Goto(c, InstallProcess(id, p))
      BY <1>6 DEF ReloadProcessRead
    <2>4. /\ IndexesFresh' /\ id \in issued' /\ ProcessesFreshBut(id)'
          /\ p = ReadProcess(id)'
      BY <2>1, <2>2, <2>3, StillFresh DEF ReloadingProcess, Still, meta, ReadProcess
    <2>5. CallCoherent(InstallProcess(id, p))'
      BY <2>4 DEF CallCoherent, ReloadingProcess, InstallProcess
    <2> QED BY <2>3, <2>5, Alone
  <1>7. CASE InstallProcessEntry(c)
    <2>1. IndexesFresh /\ ReloadingProcess(req[c]) /\ req[c].phase = "install_process"
      BY <1>7, RefreshPhases DEF InstallProcessEntry
    <2>2. PICK id \in CollectionIds :
            /\ id = req[c].id /\ ProcessesFreshBut(id) /\ req[c].proc = ReadProcess(id)
      BY <2>1, RefreshLocals DEF ReloadingProcess, TypeInv, TypeOK
    <2>3. /\ procCache' = [procCache EXCEPT ![id] = MapProcesses(ReadProcess(id))[id]]
          /\ UNCHANGED <<collections, fields, processes, byID, bySlug>> /\ Goto(c, Idle)
      BY <1>7, <2>2 DEF InstallProcessEntry, meta
    <2>4. IndexesFresh'
      BY <2>1, <2>3 DEF IndexesFresh, EntryFresh, SlugFresh, SnapshotNow, SnapshotOf, FieldsOf
    <2>5. ProcessFresh(id)'
      <3>1. procCache'[id] = MapProcesses(ReadProcess(id))[id]
        BY <2>3 DEF TypeInv, TypeOK
      <3>2. CASE \E p \in processes : p.coll = id
        <4>1. PICK p \in processes : p.coll = id
          BY <3>2
        <4>2. ReadProcess(id) = {p}
          BY <4>1 DEF ReadProcess, CacheInv, ProcessKeys
        <4>3. MapProcesses(ReadProcess(id))[id] = p.enabled
          BY <4>1, <4>2 DEF MapProcesses
        <4>4. \A q \in processes : q.coll = id => q = p
          BY <4>1 DEF CacheInv, ProcessKeys
        <4> QED BY <2>3, <3>1, <4>1, <4>3, <4>4 DEF ProcessFresh
      <3>3. CASE \A p \in processes : p.coll # id
        <4>1. MapProcesses(ReadProcess(id))[id] = Absent
          BY <3>3 DEF MapProcesses, ReadProcess
        <4> QED BY <2>3, <3>1, <3>3, <4>1 DEF ProcessFresh
      <3> QED BY <3>2, <3>3
    <2>6. ASSUME NEW r \in collections, r.id # id PROVE ProcessFresh(r.id)'
      <3>1. ProcessFresh(r.id) /\ r.id \in CollectionIds
        BY <2>2, <2>6 DEF ProcessesFreshBut, TypeInv, TypeOK, CollectionRow
      <3>2. procCache'[r.id] = procCache[r.id]
        BY <2>3, <2>6, <3>1 DEF TypeInv, TypeOK
      <3> QED BY <2>3, <3>1, <3>2 DEF ProcessFresh
    <2>7. ProcessesFresh'
      BY <2>3, <2>5, <2>6 DEF ProcessesFresh
    <2> QED BY <1>1, <2>3, <2>4, <2>7
  <1>8. CASE LoadCollections(c) \/ LoadFieldsOf(c) \/ LoadProcessOf(c)
    BY <1>8, LoadCoherent
  <1>9. CASE LoadInstall(c)
    BY <1>1, <1>9, LoadInstallFresh DEF LoadInstall
  <1> QED BY <1>9, <1>2, <1>3, <1>4, <1>5, <1>6, <1>7, <1>8 DEF Refresh

(***************************************************************************)
(* Restarts.                                                               *)
(***************************************************************************)
\* A stored collection has an issued identity.
LEMMA StoredIssued ==
    ASSUME TypeInv, CatalogInv, NEW r \in collections
    PROVE  r.id \in CollectionIds /\ r.slug \in Slugs /\ r.id \in issued
  <1>1. r.id \in CollectionIds /\ r.slug \in Slugs
    BY DEF TypeInv, TypeOK, CollectionRow
  <1>2. Known(r.id, r.slug)
    BY DEF Known, Stored
  <1> QED BY <1>1, <1>2 DEF CatalogInv, Facts, SlugsFixed

\* Process entries read from the store belong to issued identities.
LEMMA UnissuedFresh ==
    ASSUME TypeInv, CatalogInv, ProcessKeys, UNCHANGED <<processes, issued>>,
           \A id \in CollectionIds : ProcessFresh(id)'
    PROVE  UnissuedUncached'
  <1>1. \A p \in processes : p.coll \in issued
    BY StoredIssued DEF ProcessKeys
  <1> QED BY <1>1 DEF UnissuedUncached, ProcessFresh

LEMMA RestartCache ==
    ASSUME TypeInv, CatalogInv, CacheInv, Restart
    PROVE  CacheInv'
  <1> DEFINE now == {SnapshotOf(r, FieldsOf(r.id)) : r \in collections}
  <1>1. /\ UNCHANGED <<collections, fields, processes, issued>>
        /\ req' = [c \in Clients |-> Idle]
        /\ byID' = MapByID(now) /\ bySlug' = MapBySlug(now)
        /\ procCache' = MapProcesses(processes)
    BY DEF Restart, meta
  <1>2. ProcessKeys /\ ProcessKeys'
    BY <1>1 DEF CacheInv, ProcessKeys
  <1>3. now = {SnapshotNow(r) : r \in collections}
    BY DEF SnapshotNow
  <1>4. /\ IndexesFresh' /\ ProcessesFresh'
        /\ \A id \in CollectionIds : ProcessFresh(id)'
    BY <1>1, <1>2, <1>3, LoadedFresh
  <1>5. UnissuedUncached'
    BY <1>1, <1>2, <1>4, UnissuedFresh
  <1>6. \A c \in Clients : CallCoherent(req[c])'
    BY <1>1, <1>4 DEF CallCoherent
  <1> QED BY <1>2, <1>5, <1>6 DEF CacheInv

(***************************************************************************)
(* Transactions leave the cache alone and start the refresh of the one      *)
(* collection they changed.                                                *)
(***************************************************************************)
LEMMA OthersFresh ==
    ASSUME TypeInv, TypeInv', IndexesFresh, NEW id, UNCHANGED <<byID, bySlug>>,
           \A r \in collections' : r.id # id =>
              r \in collections /\ FieldsOf(r.id)' = FieldsOf(r.id),
           \A r \in collections : r.id # id => r \in collections',
           \A r \in collections : r.id = id =>
              \/ \E q \in collections' : q.id = id /\ q.slug = r.slug
              \/ byID[id] # Absent /\ byID[id].slug = r.slug
    PROVE  FreshBut(id)'
  <1>1. \A r \in collections' : r.id # id => SnapshotNow(r)' = SnapshotNow(r)
    BY DEF SnapshotNow, SnapshotOf
  <1>2. ASSUME NEW k \in CollectionIds \ {id} PROVE EntryFresh(k)'
    BY <1>1 DEF EntryFresh, IndexesFresh
  <1>3. ASSUME NEW s \in Slugs,
               \A r \in collections' : r.id = id => r.slug # s,
               byID[id] # Absent => byID[id].slug # s
        PROVE  SlugFresh(s)'
    <2>1. \A r \in collections : r.slug = s => r.id # id
      BY <1>3
    <2>2. SlugFresh(s)
      BY DEF IndexesFresh
    <2>3. \A r \in collections' : r.slug = s => r \in collections /\ r.id # id
      BY <1>3
    <2> QED BY <1>1, <2>1, <2>2, <2>3 DEF SlugFresh
  <1> QED BY <1>2, <1>3 DEF FreshBut

\* The processes of the collections stay as they are.
LEMMA ProcessesStay ==
    ASSUME ProcessesFresh, UNCHANGED <<processes, procCache>>,
           \A r \in collections' : ProcessFresh(r.id) \/ \E q \in collections : q.id = r.id
    PROVE  ProcessesFresh'
  BY DEF ProcessesFresh, ProcessFresh

LEMMA ReloadCoherent ==
    ASSUME OneCaller, TypeInv, NEW c \in Clients, NEW id, Goto(c, ReloadCollection(id)),
           FreshBut(id)', ProcessesFresh', \E r \in collections' : r.id = id
    PROVE  \A d \in Clients : CallCoherent(req[d])'
  <1>1. CallCoherent(ReloadCollection(id))'
    BY DEF CallCoherent, Reloading, ReloadCollection
  <1> QED BY <1>1, Alone

\* Rows and processes stay, fields change in one collection.
LEMMA FieldTxCoherent ==
    ASSUME OneCaller, TypeInv, TypeInv', CacheInv, NEW c \in Clients, NEW id,
           req[c].phase = "tx", Goto(c, ReloadCollection(id)),
           UNCHANGED <<collections, processes, cache>>,
           \A k : k # id => FieldsOf(k)' = FieldsOf(k),
           \E r \in collections : r.id = id
    PROVE  ProcessKeys' /\ \A d \in Clients : CallCoherent(req[d])'
  <1>1. IndexesFresh /\ ProcessesFresh
    BY IdleIsFresh
  <1>2. UNCHANGED <<byID, bySlug, procCache>>
    BY DEF cache
  <1>3. FreshBut(id)'
    BY <1>1, <1>2, OthersFresh
  <1>4. ProcessesFresh'
    BY <1>1, <1>2, ProcessesStay
  <1>5. ProcessKeys'
    BY DEF ProcessKeys, CacheInv
  <1> QED BY <1>3, <1>4, <1>5, ReloadCoherent

LEMMA CreateCollectionTxCoherent ==
    ASSUME OneCaller, TypeInv, TypeInv', CatalogInv, CacheInv, NEW c \in Clients,
           CreateCollectionTx(c)
    PROVE  ProcessKeys' /\ \A d \in Clients : CallCoherent(req[d])'
  <1>1. PICK row \in CollectionRow, fs \in SUBSET Field :
          /\ row.id \in CollectionIds \ issued /\ \A f \in fs : f.coll = row.id
          /\ \A r \in collections : r.id # row.id
          /\ collections' = collections \cup {row} /\ fields' = fields \cup fs
          /\ Goto(c, ReloadCollection(row.id))
    <2> DEFINE a == Args(c)
    <2>1. a \in [slug : Slugs, label : Labels, drafts : SUBSET Drafts]
      BY TxArgs DEF CreateCollectionTx, InTx, Args, TypeInv, TypeOK
    <2>2. PICK id \in CollectionIds \ issued, fid \in [a.drafts -> FieldIds \ issued] :
            LET row == [id |-> id, slug |-> a.slug, label |-> a.label]
                fs  == {NewField(fid[d], id, d) : d \in a.drafts}
            IN  /\ \A r \in collections : r.id # id /\ r.slug # a.slug
                /\ collections' = collections \cup {row}
                /\ fields' = fields \cup fs
                /\ Goto(c, ReloadCollection(id))
      BY DEF CreateCollectionTx
    <2>3. PICK row \in CollectionRow : row = [id |-> id, slug |-> a.slug, label |-> a.label]
      BY <2>1 DEF CollectionRow
    <2> DEFINE new == {NewField(fid[d], id, d) : d \in a.drafts}
    <2>7. new \in SUBSET Field
      BY <2>1 DEF NewField, Field, Drafts, Draft
    <2>4. PICK fs \in SUBSET Field : fs = new
      BY <2>7
    <2>5. \A f \in fs : f.coll = id
      BY <2>4 DEF NewField
    <2>6. row.id = id
      BY <2>3
    <2> QED BY <2>2, <2>3, <2>4, <2>5, <2>6
  <1>2. UNCHANGED <<processes, byID, bySlug, procCache>>
    BY DEF CreateCollectionTx, cache
  <1>3. IndexesFresh /\ ProcessesFresh
    BY IdleIsFresh DEF CreateCollectionTx, InTx
  <1>4. \A k : k # row.id => FieldsOf(k)' = FieldsOf(k)
    BY <1>1 DEF FieldsOf
  <1>5. FreshBut(row.id)'
    BY <1>1, <1>2, <1>3, <1>4, OthersFresh
  <1>6. ProcessFresh(row.id)
    <2>1. \A p \in processes : p.coll # row.id
      BY <1>1 DEF CacheInv, ProcessKeys
    <2>2. procCache[row.id] = Absent
      BY <1>1 DEF CacheInv, UnissuedUncached
    <2> QED BY <2>1, <2>2 DEF ProcessFresh
  <1>7. ProcessesFresh'
    BY <1>1, <1>2, <1>3, <1>6, ProcessesStay
  <1>8. ProcessKeys'
    BY <1>1, <1>2 DEF ProcessKeys, CacheInv
  <1> QED BY <1>1, <1>5, <1>7, <1>8, ReloadCoherent

LEMMA UpdateCollectionTxCoherent ==
    ASSUME OneCaller, TypeInv, TypeInv', CatalogInv, CacheInv, NEW c \in Clients,
           UpdateCollectionTx(c)
    PROVE  ProcessKeys' /\ \A d \in Clients : CallCoherent(req[d])'
  <1>1. PICK id, label :
          /\ id = req[c].args.id
          /\ collections' = {IF r.id = id /\ label # Keep
                             THEN [r EXCEPT !.label = label] ELSE r : r \in collections}
          /\ Goto(c, ReloadCollection(id))
    BY DEF UpdateCollectionTx, Args
  <1> DEFINE After(r) == IF r.id = id /\ label # Keep
                         THEN [r EXCEPT !.label = label] ELSE r
  <1>2. UNCHANGED <<fields, processes, byID, bySlug, procCache>>
    BY DEF UpdateCollectionTx, cache
  <1>3. \A r \in collections :
          After(r).id = r.id /\ After(r).slug = r.slug /\ (r.id # id => After(r) = r)
    BY DEF TypeInv, TypeOK, CollectionRow
  <1>4. collections' = {After(r) : r \in collections}
    BY <1>1
  <1> HIDE DEF After
  <1>5. /\ IndexesFresh /\ ProcessesFresh
        /\ \E r \in collections : r.id = id
    BY <1>1, IdleIsFresh DEF UpdateCollectionTx, InTx, ReadStill
  <1>6. \A k : FieldsOf(k)' = FieldsOf(k)
    BY <1>2 DEF FieldsOf
  <1>7. /\ \A r \in collections' : r.id # id => r \in collections
        /\ \A r \in collections : r.id # id => r \in collections'
        /\ \A r \in collections : \E q \in collections' : q.id = r.id /\ q.slug = r.slug
        /\ \A r \in collections' : \E q \in collections : q.id = r.id
    BY <1>3, <1>4
  <1>8. FreshBut(id)'
    BY <1>2, <1>5, <1>6, <1>7, OthersFresh
  <1>9. ProcessesFresh'
    BY <1>2, <1>5, <1>7, ProcessesStay
  <1>10. ProcessKeys'
    BY <1>2, <1>7 DEF ProcessKeys, CacheInv
  <1>11. \E r \in collections' : r.id = id
    BY <1>5, <1>7
  <1> QED BY <1>1, <1>8, <1>9, <1>10, <1>11, ReloadCoherent

LEMMA DropCollectionTxCoherent ==
    ASSUME OneCaller, Absent \notin Snapshot, TypeInv, TypeInv', CatalogInv, CacheInv,
           NEW c \in Clients, DropCollectionTx(c)
    PROVE  ProcessKeys' /\ \A d \in Clients : CallCoherent(req[d])'
  <1>1. PICK id : /\ \E r \in collections : r.id = id
                  /\ DeleteCollectionRow(id)
                  /\ Goto(c, RemoveCollection(id))
    BY DEF DropCollectionTx
  <1>2. UNCHANGED <<byID, bySlug, procCache>>
    BY DEF DropCollectionTx, cache
  <1>3. PICK row \in collections : row.id = id /\ id \in CollectionIds
    BY <1>1 DEF TypeInv, TypeOK, CollectionRow
  <1>4. /\ IndexesFresh /\ ProcessesFresh
    BY IdleIsFresh DEF DropCollectionTx, InTx
  <1>5. byID[id] # Absent /\ byID[id].slug = row.slug
    <2>1. byID[id] = SnapshotNow(row)
      BY <1>3, <1>4 DEF IndexesFresh, EntryFresh
    <2>2. row \in CollectionRow
      BY DEF TypeInv, TypeOK
    <2>3. SnapshotNow(row) \in Snapshot
      BY <2>2, SnapshotType DEF SnapshotNow, TypeInv
    <2>4. SnapshotNow(row).slug = row.slug
      BY DEF SnapshotNow, SnapshotOf
    <2> QED BY <2>1, <2>3, <2>4
  <1>6. \A q, r \in collections : q.id = r.id \/ q.slug = r.slug => q = r
    BY DEF CatalogInv, MetaMatchesTables
  <1>7. /\ collections' = {r \in collections : r.id # id}
        /\ fields' = {f \in fields : f.coll # id}
        /\ processes' = {p \in processes : p.coll # id}
    BY <1>1 DEF DeleteCollectionRow
  <1>8. \A k : k # id => FieldsOf(k)' = FieldsOf(k)
    BY <1>7 DEF FieldsOf
  <1>9. FreshBut(id)'
    BY <1>2, <1>3, <1>4, <1>5, <1>6, <1>7, <1>8, OthersFresh
  <1>10. ProcessesFresh'
    BY <1>2, <1>4, <1>7 DEF ProcessesFresh, ProcessFresh
  <1>11. ProcessKeys'
    BY <1>7 DEF ProcessKeys, CacheInv
  <1>12. \A r \in collections' : r.id # id /\ r.slug # byID'[id].slug
    BY <1>2, <1>3, <1>5, <1>6, <1>7
  <1>13. CallCoherent(RemoveCollection(id))'
    BY <1>9, <1>10, <1>12 DEF CallCoherent, Reloading, RemoveCollection
  <1> QED BY <1>1, <1>11, <1>13, Alone

LEMMA AddFieldTxCoherent ==
    ASSUME OneCaller, TypeInv, TypeInv', CacheInv, NEW c \in Clients, AddFieldTx(c)
    PROVE  ProcessKeys' /\ \A d \in Clients : CallCoherent(req[d])'
  <1>1. PICK id, f : /\ req[c].phase = "tx" /\ \E r \in collections : r.id = id
                     /\ f.coll = id /\ fields' = fields \cup {f}
                     /\ Goto(c, ReloadCollection(id))
    BY DEF AddFieldTx, InTx, References, NewField
  <1>2. UNCHANGED <<collections, processes, cache>>
    BY DEF AddFieldTx
  <1>3. \A k : k # id => FieldsOf(k)' = FieldsOf(k)
    BY <1>1 DEF FieldsOf
  <1> QED BY <1>1, <1>2, <1>3, FieldTxCoherent

\* The field that is altered is the one the preflight read.
LEMMA AlteredField ==
    ASSUME CacheInv, CatalogInv, NEW c \in Clients, AlterFieldTx(c)
    PROVE  /\ req[c].args.old \in fields
           /\ \A f \in fields : f.id = req[c].args.old.id => f = req[c].args.old
  <1>1. req[c].args.old \in fields
    BY IdleIsFresh DEF AlterFieldTx, InTx, ReadStill
  <1> QED BY <1>1 DEF CatalogInv, MetaMatchesTables

LEMMA AlterFieldTxCoherent ==
    ASSUME OneCaller, TypeInv, TypeInv', CatalogInv, CacheInv, NEW c \in Clients,
           AlterFieldTx(c)
    PROVE  ProcessKeys' /\ \A d \in Clients : CallCoherent(req[d])'
  <1>1. PICK old, chg : /\ req[c].phase = "tx" /\ old = req[c].args.old
                        /\ UpdateFieldRow(old.id, chg)
                        /\ Goto(c, ReloadCollection(old.coll))
    BY DEF AlterFieldTx, InTx, Args
  <1>2. UNCHANGED <<collections, processes, cache>>
    BY DEF AlterFieldTx
  <1>3. old \in fields /\ \A f \in fields : f.id = old.id => f = old
    BY <1>1, AlteredField
  <1> DEFINE After(f) == IF f.id # old.id THEN f ELSE
                 [f EXCEPT !.type = IF chg.type = Keep THEN @ ELSE chg.type,
                           !.required = IF chg.required = Keep THEN @ ELSE chg.required]
  <1>4. fields' = {After(f) : f \in fields}
    BY <1>1 DEF UpdateFieldRow
  <1>5. \A f \in fields : After(f).coll = f.coll /\ (f.coll # old.coll => After(f) = f)
    BY <1>3 DEF TypeInv, TypeOK, Field
  <1> HIDE DEF After
  <1>6. \A k : k # old.coll => FieldsOf(k)' = FieldsOf(k)
    BY <1>4, <1>5 DEF FieldsOf
  <1>7. \E r \in collections : r.id = old.coll
    BY <1>3 DEF CatalogInv, FieldsHaveCollection
  <1> QED BY <1>1, <1>2, <1>6, <1>7, FieldTxCoherent

LEMMA DropFieldTxCoherent ==
    ASSUME OneCaller, TypeInv, TypeInv', CatalogInv, CacheInv, NEW c \in Clients,
           DropFieldTx(c)
    PROVE  ProcessKeys' /\ \A d \in Clients : CallCoherent(req[d])'
  <1>1. PICK read \in Field :
          /\ req[c].phase = "tx" /\ req[c].op = "drop_field" /\ req[c].args.field = read
          /\ DeleteFieldRow(read.id)
          /\ Goto(c, ReloadCollection(read.coll))
    BY TxArgs DEF DropFieldTx, InTx, Args, TypeInv, TypeOK
  <1>2. UNCHANGED <<collections, processes, cache>>
    BY DEF DropFieldTx
  <1>3. PICK f \in fields : f.id = read.id
    BY <1>1 DEF DeleteFieldRow
  <1>4. f.coll = read.coll
    <2>1. f \in Field
      BY DEF TypeInv, TypeOK
    <2> QED
      BY <1>1, <1>3, <2>1 DEF Seen, CarriesField, SameColumn, CatalogInv, Facts, FieldsFixed
  <1>5. fields' = fields \ {f}
    BY <1>1, <1>3 DEF DeleteFieldRow, CatalogInv, MetaMatchesTables
  <1>6. \A k : k # read.coll => FieldsOf(k)' = FieldsOf(k)
    BY <1>4, <1>5 DEF FieldsOf
  <1>7. \E r \in collections : r.id = read.coll
    BY <1>4 DEF CatalogInv, FieldsHaveCollection
  <1> QED BY <1>1, <1>2, <1>6, <1>7, FieldTxCoherent

LEMMA SaveProcessTxCoherent ==
    ASSUME OneCaller, TypeInv, TypeInv', CatalogInv, CacheInv, NEW c \in Clients,
           SaveProcessTx(c)
    PROVE  ProcessKeys' /\ \A d \in Clients : CallCoherent(req[d])'
  <1>1. PICK id, enabled :
          /\ \E r \in collections : r.id = id
          /\ processes' = {p \in processes : p.coll # id}
                            \cup {[coll |-> id, enabled |-> enabled]}
          /\ Goto(c, ReloadProcess(id))
    BY DEF SaveProcessTx, References
  <1>2. UNCHANGED <<collections, fields, issued, byID, bySlug, procCache>>
    BY DEF SaveProcessTx, cache
  <1>3. IndexesFresh /\ ProcessesFresh
    BY IdleIsFresh DEF SaveProcessTx, InTx
  <1>4. IndexesFresh'
    BY <1>2, <1>3 DEF IndexesFresh, EntryFresh, SlugFresh, SnapshotNow, SnapshotOf, FieldsOf
  <1>5. ProcessesFreshBut(id)'
    BY <1>1, <1>2, <1>3 DEF ProcessesFreshBut, ProcessesFresh, ProcessFresh
  <1>6. id \in issued'
    BY <1>1, <1>2, StoredIssued
  <1>7. ProcessKeys'
    BY <1>1, <1>2 DEF ProcessKeys, CacheInv
  <1>8. CallCoherent(ReloadProcess(id))'
    BY <1>4, <1>5, <1>6 DEF CallCoherent, ReloadingProcess, ReloadProcess
  <1> QED BY <1>1, <1>7, <1>8, Alone

\* A rollback leaves everything to a full load.
LEMMA RollbackTxCoherent ==
    ASSUME OneCaller, TypeInv, CacheInv, NEW c \in Clients, RollbackTx(c)
    PROVE  ProcessKeys' /\ \A d \in Clients : CallCoherent(req[d])'
  <1>1. PICK m : RestoreMeta(m)
    BY DEF RollbackTx
  <1>2. ProcessKeys
    BY DEF CacheInv
  <1>3. ProcessKeys'
    <2>1. CASE m.op = "create_collection"
      BY <1>1, <1>2, <2>1 DEF RestoreMeta, DeleteCollectionRow, ProcessKeys
    <2>2. CASE m.op # "create_collection"
      <3>1. UNCHANGED processes /\ collections \subseteq collections'
        BY <1>1, <2>2 DEF RestoreMeta, meta
      <3> QED BY <1>2, <3>1 DEF ProcessKeys
    <2> QED BY <2>1, <2>2
  <1>4. CallCoherent(Load)'
    BY DEF CallCoherent, LoadingAll, Load
  <1>5. Goto(c, Load)
    BY DEF RollbackTx
  <1> QED BY <1>3, <1>4, <1>5, Alone

(***************************************************************************)
(* The cache is inductive.                                                 *)
(***************************************************************************)
LEMMA TransactionCoherent ==
    ASSUME OneAtATime, TypeInv, TypeInv', CatalogInv, CacheInv, NEW c \in Clients,
           Transaction(c)
    PROVE  ProcessKeys' /\ \A d \in Clients : CallCoherent(req[d])'
  BY CreateCollectionTxCoherent, UpdateCollectionTxCoherent, DropCollectionTxCoherent,
     AddFieldTxCoherent, AlterFieldTxCoherent, DropFieldTxCoherent,
     SaveProcessTxCoherent, RollbackTxCoherent
  DEF Transaction, OneAtATime

\* Identities are only issued, and a process entry is installed for a
\* collection that has one.
LEMMA UnissuedStep ==
    ASSUME TypeInv, CatalogInv, CacheInv, NEW c \in Clients,
           Preflight(c) \/ Transaction(c) \/ TxAborts(c) \/ Refresh(c)
    PROVE  UnissuedUncached'
  <1>1. issued \subseteq issued'
    BY DEF Preflight, BeginCreateCollection, BeginUpdateCollection, BeginDropCollection,
       BeginAddField, BeginAlterField, BeginDropField, BeginSaveProcess, BeginRollback,
       Begin, Transaction, CreateCollectionTx, UpdateCollectionTx, DropCollectionTx,
       AddFieldTx, AlterFieldTx, DropFieldTx, SaveProcessTx, RollbackTx, TxAborts,
       Refresh, ReloadRead, ReloadReadFields, InstallCollection, RemoveFromCache,
       ReloadProcessRead, InstallProcessEntry, LoadCollections, LoadFieldsOf,
       LoadProcessOf, LoadInstall
  <1>2. CASE InstallProcessEntry(c)
    <2>1. ReloadingProcess(req[c])
      BY <1>2, RefreshPhases DEF InstallProcessEntry
    <2>2. req[c].id \in issued
      BY <2>1 DEF ReloadingProcess
    <2>3. \A k \in CollectionIds : k # req[c].id => procCache'[k] = procCache[k]
      BY <1>2 DEF InstallProcessEntry, TypeInv, TypeOK
    <2> QED BY <1>1, <2>2, <2>3 DEF UnissuedUncached, CacheInv
  <1>3. CASE LoadInstall(c)
    <2>1. UNCHANGED <<processes, issued>>
      BY <1>3 DEF LoadInstall, meta
    <2> QED BY <1>3, <2>1, LoadInstallFresh, UnissuedFresh DEF CacheInv
  <1>4. CASE ~InstallProcessEntry(c) /\ ~LoadInstall(c)
    <2>1. UNCHANGED procCache
      BY <1>4 DEF Preflight, BeginCreateCollection, BeginUpdateCollection,
         BeginDropCollection, BeginAddField, BeginAlterField, BeginDropField,
         BeginSaveProcess, BeginRollback, Begin, Transaction, CreateCollectionTx,
         UpdateCollectionTx, DropCollectionTx, AddFieldTx, AlterFieldTx, DropFieldTx,
         SaveProcessTx, RollbackTx, TxAborts, Refresh, ReloadRead, ReloadReadFields,
         InstallCollection, RemoveFromCache, ReloadProcessRead, LoadCollections,
         LoadFieldsOf, LoadProcessOf, cache
    <2> QED BY <1>1, <2>1 DEF UnissuedUncached, CacheInv
  <1> QED BY <1>2, <1>3, <1>4

LEMMA CacheInvStep ==
    OneAtATime /\ TypeInv /\ TypeInv' /\ CatalogInv /\ CacheInv /\ [Next]_vars => CacheInv'
  <1> SUFFICES ASSUME OneAtATime, TypeInv, TypeInv', CatalogInv, CacheInv, [Next]_vars
               PROVE  CacheInv'
    OBVIOUS
  <1>1. ASSUME NEW c \in Clients, Preflight(c) PROVE CacheInv'
    <2>1. UNCHANGED <<meta, cache>>
      BY <1>1 DEF Preflight, BeginCreateCollection, BeginUpdateCollection,
         BeginDropCollection, BeginAddField, BeginAlterField, BeginDropField,
         BeginSaveProcess, BeginRollback, Begin
    <2>2. ProcessKeys'
      BY <2>1, StillFresh DEF Still, CacheInv
    <2> QED BY <1>1, <2>2, PreflightCoherent, UnissuedStep DEF CacheInv, OneAtATime
  <1>2. ASSUME NEW c \in Clients, Transaction(c) PROVE CacheInv'
    BY <1>2, TransactionCoherent, UnissuedStep DEF CacheInv
  <1>3. ASSUME NEW c \in Clients, TxAborts(c) PROVE CacheInv'
    <2>1. ProcessKeys'
      BY <1>3, StillFresh DEF Still, CacheInv, TxAborts
    <2> QED BY <1>3, <2>1, AbortCoherent, UnissuedStep DEF CacheInv, OneAtATime
  <1>4. ASSUME NEW c \in Clients, Refresh(c) PROVE CacheInv'
    <2>1. UNCHANGED <<collections, processes>>
      BY <1>4 DEF Refresh, ReloadRead, ReloadReadFields, InstallCollection,
         RemoveFromCache, ReloadProcessRead, InstallProcessEntry, LoadCollections,
         LoadFieldsOf, LoadProcessOf, LoadInstall, meta
    <2>2. ProcessKeys'
      BY <2>1 DEF ProcessKeys, CacheInv
    <2> QED BY <1>4, <2>2, RefreshCoherent, UnissuedStep DEF CacheInv, OneAtATime
  <1>5. \A c \in Clients : ~RefreshFails(c)
    BY DEF RefreshFails, OneAtATime
  <1>6. CASE Restart
    BY <1>6, RestartCache
  <1>7. CASE UNCHANGED vars
    <2>1. Still /\ UNCHANGED <<req, issued, procCache, fields, processes, collections, byID>>
      BY <1>7 DEF vars, Still, meta, cache
    <2>2. ProcessKeys' /\ UnissuedUncached'
      BY <2>1, StillFresh DEF CacheInv, UnissuedUncached
    <2>3. ASSUME NEW d \in Clients PROVE CallCoherent(req[d])'
      <3>1. PICK q : q = req[d] /\ req'[d] = q
        BY <2>1
      <3>2. CallCoherent(q)
        BY <3>1 DEF CacheInv
      <3>3. Reloading(q) => Reloading(q)'
        BY <2>1, StillFresh DEF Reloading, SnapshotNow, SnapshotOf, FieldsOf
      <3>4. (ReloadingProcess(q) => ReloadingProcess(q)') /\ (ReadStill(q) => ReadStill(q)')
        BY <2>1, StillFresh DEF ReloadingProcess, ReadProcess, ReadStill
      <3>5. LoadingAll(q) => LoadingAll(q)'
        BY <2>1 DEF LoadingAll, SnapshotNow, SnapshotOf, FieldsOf
      <3>6. CallCoherent(q)'
        BY <2>1, <3>2, <3>3, <3>4, <3>5, StillFresh DEF CallCoherent
      <3> QED
        BY <3>1, <3>6 DEF CallCoherent, Reloading, ReloadingProcess, ReadStill, LoadingAll
    <2> QED BY <2>2, <2>3 DEF CacheInv
  <1> QED BY <1>1, <1>2, <1>3, <1>4, <1>5, <1>6, <1>7 DEF Next

\* With one call at a time and refreshes that succeed, the cache is the
\* committed metadata whenever no call is under way, for every number of
\* collections and fields and wherever the server restarts; also with rollbacks,
\* which reload everything, when every field has a column.
THEOREM CacheFreshCorrect ==
    ASSUME OneAtATime, Reversible PROVE Spec => []CacheFresh
  <1>1. Init => CatalogInv /\ CacheInv
    BY InitCatalog, InitCache
  <1>2. TypeInv /\ TypeInv' /\ CatalogInv /\ CacheInv /\ [Next]_vars
          => CatalogInv' /\ CacheInv'
    BY CatalogInvStep, CacheInvStep
  <1>3. TypeInv /\ CatalogInv /\ CacheInv => CacheFresh
    <2> SUFFICES ASSUME TypeInv, CatalogInv, CacheInv, Quiescent
                 PROVE  LET now == {SnapshotOf(r, FieldsOf(r.id)) : r \in collections} IN
                        /\ byID = MapByID(now)
                        /\ bySlug = MapBySlug(now)
                        /\ \A r \in collections : procCache[r.id] = MapProcesses(processes)[r.id]
      BY DEF CacheFresh
    <2>1. PICK c \in Clients : req[c] = Idle
      BY DEF Quiescent, OneAtATime
    <2>2. IndexesFresh /\ ProcessesFresh
      BY <2>1, IdleIsFresh
    <2> DEFINE now == {SnapshotOf(r, FieldsOf(r.id)) : r \in collections}
    <2>3. /\ \A id \in CollectionIds : byID[id] = MapByID(now)[id]
          /\ \A s \in Slugs : bySlug[s] = MapBySlug(now)[s]
      BY <2>2, MapsFresh DEF IndexesFresh, EntryFresh, SlugFresh, CacheInv
    <2>4. \A r \in collections : procCache[r.id] = MapProcesses(processes)[r.id]
      BY <2>2, MapsFresh, StoredIssued DEF ProcessesFresh, ProcessFresh, CacheInv
    <2>5. MapByID(now) = [id \in CollectionIds |-> MapByID(now)[id]]
          /\ MapBySlug(now) = [s \in Slugs |-> MapBySlug(now)[s]]
      BY DEF MapByID, MapBySlug
    <2>6. byID = [id \in CollectionIds |-> byID[id]] /\ bySlug = [s \in Slugs |-> bySlug[s]]
      BY DEF TypeInv, TypeOK
    <2> HIDE DEF now
    <2>7. byID = MapByID(now)
      BY <2>3, <2>5, <2>6
    <2>8. bySlug = MapBySlug(now)
      BY <2>3, <2>5, <2>6
    <2> QED BY <2>4, <2>7, <2>8 DEF now
  <1> QED BY <1>1, <1>2, <1>3, TypeInvariant, PTL DEF Spec

(***************************************************************************)
(* Columns and what announces them.                                        *)
(***************************************************************************)
Enabled(id) == [coll |-> id, enabled |-> TRUE] \in processes

\* The columns of a table, the field rows of its collection and its process.
Announced(cols, fs, on) ==
    /\ (\E col \in cols : col.slug = StatusSlug) <=> on
    /\ \A f \in fs, col \in cols :
          f.type \notin NoColumnTypes /\ col.slug = f.slug => Announces(f, col)

RowMatches(r) == Announced(ColumnsOf(db, r.slug), FieldsOf(r.id), Enabled(r.id))
TablesMatch == \A r \in collections : RowMatches(r)

\* What no rollback has touched yet.
TablesHold == Unreversed => TablesMatch

LEMMA TablesMatchMeans == TablesHold => ColumnTypesMatch /\ StatusColumnMatches
  BY DEF TablesHold, TablesMatch, RowMatches, Announced, Enabled, ColumnTypesMatch,
     StatusColumnMatches, HasColumn, ColumnsOf

\* Only collection id, its fields and its table are touched.
LEMMA OthersMatch ==
    ASSUME TablesMatch, NEW id,
           \A r \in collections' : r.id # id =>
              /\ \E q \in collections : q.id = r.id /\ q.slug = r.slug
              /\ ColumnsOf(db, r.slug)' = ColumnsOf(db, r.slug)
              /\ FieldsOf(r.id)' = FieldsOf(r.id)
              /\ Enabled(r.id)' <=> Enabled(r.id),
           \A r \in collections' : r.id = id => RowMatches(r)'
    PROVE  TablesMatch'
  BY DEF TablesMatch, RowMatches, Announced

\* What a statement on table t does to its columns.
OnlyTable(t) == \A u : u # t => ColumnsOf(db, u)' = ColumnsOf(db, u)

LEMMA TableColumns ==
    ASSUME db \in Database, NEW t
    PROVE  /\ \A defs : db' = Exec(db, CreateTable(t, defs)) =>
                /\ OnlyTable(t)
                /\ ColumnsOf(db, t)' = ColumnsOf(db, t) \cup {ColumnIn(t, d) : d \in defs}
           /\ db' = Exec(db, DropTable(t)) => OnlyTable(t)
           /\ \A def : db' = Exec(db, AddColumn(t, def)) =>
                /\ OnlyTable(t)
                /\ ColumnsOf(db, t)' = ColumnsOf(db, t) \cup {ColumnIn(t, def)}
           /\ \A s : db' = Exec(db, DropColumn(t, s)) =>
                /\ OnlyTable(t)
                /\ ColumnsOf(db, t)' = {col \in ColumnsOf(db, t) : col.slug # s}
  <1>1. \A d : ColumnIn(t, d).table = t
    BY DEF ColumnIn
  <1>2. ASSUME NEW defs, db' = Exec(db, CreateTable(t, defs))
        PROVE  /\ OnlyTable(t)
               /\ ColumnsOf(db, t)' = ColumnsOf(db, t) \cup {ColumnIn(t, d) : d \in defs}
    <2>1. db.columns' = db.columns \cup {ColumnIn(t, d) : d \in defs}
      BY <1>2 DEF Exec, CreateTable
    <2> QED BY <1>1, <2>1 DEF OnlyTable, ColumnsOf
  <1>3. ASSUME db' = Exec(db, DropTable(t))
        PROVE  OnlyTable(t)
    <2>1. db.columns' = {col \in db.columns : col.table # t}
      BY <1>3 DEF Exec, DropTable
    <2> QED BY <2>1 DEF OnlyTable, ColumnsOf
  <1>4. ASSUME NEW def, db' = Exec(db, AddColumn(t, def))
        PROVE  /\ OnlyTable(t)
               /\ ColumnsOf(db, t)' = ColumnsOf(db, t) \cup {ColumnIn(t, def)}
    <2>1. db.columns' = db.columns \cup {ColumnIn(t, def)}
      BY <1>4 DEF Exec, AddColumn, Database
    <2> QED BY <1>1, <2>1 DEF OnlyTable, ColumnsOf
  <1>5. ASSUME NEW s, db' = Exec(db, DropColumn(t, s))
        PROVE  /\ OnlyTable(t)
               /\ ColumnsOf(db, t)' = {col \in ColumnsOf(db, t) : col.slug # s}
    <2>1. db.columns' = {col \in db.columns : col.table # t \/ col.slug # s}
      BY <1>5 DEF Exec, DropColumn, Database
    <2> QED BY <2>1 DEF OnlyTable, ColumnsOf
  <1> QED BY <1>2, <1>3, <1>4, <1>5

(***************************************************************************)
(* Transactions keep columns and announcements together.                   *)
(***************************************************************************)
LEMMA CreateCollectionTxMatches ==
    ASSUME TypeInv, CatalogInv, CacheInv, TablesMatch, NEW c \in Clients,
           CreateCollectionTx(c)
    PROVE  TablesMatch'
  <1> DEFINE a == Args(c)
  <1>1. a \in [slug : Slugs, label : Labels, drafts : SUBSET Drafts]
    BY TxArgs DEF CreateCollectionTx, InTx, Args, TypeInv, TypeOK
  <1>2. PICK id \in CollectionIds \ issued, fid \in [a.drafts -> FieldIds \ issued] :
          LET row == [id |-> id, slug |-> a.slug, label |-> a.label]
              fs  == {NewField(fid[d], id, d) : d \in a.drafts}
              ddl == GenerateCreateTable(a.slug, fs)
          IN  /\ \A r \in collections : r.id # id /\ r.slug # a.slug
              /\ CanExec(db, ddl.up)
              /\ collections' = collections \cup {row}
              /\ fields' = fields \cup fs
              /\ db' = Exec(db, ddl.up)
    BY DEF CreateCollectionTx
  <1> DEFINE new == {NewField(fid[d], id, d) : d \in a.drafts}
  <1>3. PICK t \in Slugs : t = a.slug
    BY <1>1
  <1>4. \A d, e \in a.drafts : d.slug = e.slug => d = e
    BY DEF CreateCollectionTx, InTx, CatalogInv, Facts, CallsAllowed, Args
  <1>5. /\ \A f \in new : f.coll = id /\ f.slug \in FieldSlugs
        /\ \A f, g \in new : f.slug = g.slug => f = g
    BY <1>1, <1>4 DEF NewField, Drafts, Draft
  <1>6. PICK fs : fs = new
    OBVIOUS
  <1>7. /\ CanExec(db, CreateTable(t, StoredDefs(fs)))
        /\ db' = Exec(db, CreateTable(t, StoredDefs(fs)))
        /\ fields' = fields \cup fs
    BY <1>2, <1>3, <1>6 DEF GenerateCreateTable
  <1>8. UNCHANGED processes
    BY DEF CreateCollectionTx
  <1>9. PICK row : row.id = id /\ row.slug = t /\ collections' = collections \cup {row}
    BY <1>2, <1>3
  <1>10. \A r \in collections : r.id # id /\ r.slug # t
    BY <1>2, <1>3
  <1>11. /\ \A f \in fs : f.coll = id /\ f.slug \in FieldSlugs
         /\ \A f, g \in fs : f.slug = g.slug => f = g
    BY <1>5, <1>6
  <1> HIDE DEF new, a
  <1>12. /\ OnlyTable(t)
         /\ ColumnsOf(db, t)' = {ColumnIn(t, d) : d \in StoredDefs(fs)}
    <2>1. ColumnsOf(db, t) = {}
      BY <1>7 DEF CatalogInv, ColumnsHaveTable, CanExec, CreateTable, ColumnsOf
    <2> QED BY <1>7, <2>1, TableColumns DEF TypeInv, TypeOK
  <1>13. /\ FieldsOf(id)' = fs
         /\ \A k : k # id => FieldsOf(k)' = FieldsOf(k)
    <2>1. \A f \in fields : f.coll # id
      BY <1>10 DEF CatalogInv, FieldsHaveCollection
    <2> QED BY <1>7, <1>11, <2>1 DEF FieldsOf
  <1>14. ~Enabled(id)'
    BY <1>8, <1>10 DEF Enabled, CacheInv, ProcessKeys
  <1>15. ASSUME NEW col \in ColumnsOf(db, t)'
         PROVE  \E f \in fs : /\ f.type \notin NoColumnTypes
                              /\ col.slug = f.slug /\ Announces(f, col)
    <2>1. PICK d \in StoredDefs(fs) : col = ColumnIn(t, d)
      BY <1>12
    <2>2. PICK f \in fs : f.type \notin NoColumnTypes /\ d = DefOf(f)
      BY DEF StoredDefs
    <2>3. /\ col.slug = f.slug /\ col.type = f.type
          /\ col.notNull <=> (f.required \/ f.type \in Autonumber)
      BY <2>1, <2>2 DEF DefOf, ColumnIn
    <2> QED BY <2>2, <2>3 DEF Announces
  <1>16. Announced(ColumnsOf(db, t)', fs, Enabled(id)')
    <2>1. \A col \in ColumnsOf(db, t)' : col.slug # StatusSlug
      BY <1>11, <1>15, SlugsAssumption
    <2>2. \A f \in fs, col \in ColumnsOf(db, t)' :
            col.slug = f.slug => Announces(f, col)
      BY <1>11, <1>15
    <2> QED BY <1>14, <2>1, <2>2 DEF Announced
  <1>17. RowMatches(row)'
    BY <1>9, <1>13, <1>16 DEF RowMatches
  <1>18. \A r \in collections' : r.id # id =>
            /\ \E q \in collections : q.id = r.id /\ q.slug = r.slug
            /\ ColumnsOf(db, r.slug)' = ColumnsOf(db, r.slug)
            /\ FieldsOf(r.id)' = FieldsOf(r.id)
            /\ Enabled(r.id)' <=> Enabled(r.id)
    BY <1>8, <1>9, <1>10, <1>12, <1>13 DEF OnlyTable, Enabled
  <1>19. \A r \in collections' : r.id = id => RowMatches(r)'
    BY <1>9, <1>10, <1>17
  <1> QED BY <1>18, <1>19, OthersMatch

LEMMA UpdateCollectionTxMatches ==
    ASSUME TypeInv, TablesMatch, NEW c \in Clients, UpdateCollectionTx(c)
    PROVE  TablesMatch'
  <1>1. PICK id, label :
          /\ id = req[c].args.id
          /\ collections' = {IF r.id = id /\ label # Keep
                             THEN [r EXCEPT !.label = label] ELSE r : r \in collections}
          /\ Goto(c, ReloadCollection(id))
    BY DEF UpdateCollectionTx, Args
  <1>2. UNCHANGED <<fields, processes, db>>
    BY DEF UpdateCollectionTx
  <1>3. \A r \in collections' : \E q \in collections : q.id = r.id /\ q.slug = r.slug
    BY <1>1 DEF TypeInv, TypeOK, CollectionRow
  <1> QED BY ZenonT(40), <1>2, <1>3 DEF TablesMatch, RowMatches, ColumnsOf, FieldsOf, Enabled

LEMMA DropCollectionTxMatches ==
    ASSUME TypeInv, CatalogInv, TablesMatch, NEW c \in Clients, DropCollectionTx(c)
    PROVE  TablesMatch'
  <1>1. PICK col \in Snapshot :
          /\ req[c].phase = "tx" /\ req[c].op = "drop_collection" /\ req[c].args.col = col
          /\ \E r \in collections : r.id = col.id
          /\ DeleteCollectionRow(col.id)
          /\ db' = Exec(db, DropTable(col.slug))
    BY TxArgs DEF DropCollectionTx, InTx, Args, TypeInv, TypeOK
  <1>2. PICK row \in collections : row.id = col.id
    BY <1>1
  <1>3. row.slug = col.slug
    <2>1. col.slug \in Slugs
      BY DEF Snapshot
    <2> QED BY <1>1, <1>2, <2>1, CarriedRow DEF Carries
  <1>4. /\ collections' = {r \in collections : r.id # row.id}
        /\ fields' = {f \in fields : f.coll # row.id}
        /\ processes' = {p \in processes : p.coll # row.id}
    BY <1>1, <1>2 DEF DeleteCollectionRow
  <1>5. OnlyTable(row.slug)
    BY <1>1, <1>3, TableColumns DEF TypeInv, TypeOK
  <1>6. \A r \in collections : r.id # row.id => r.slug # row.slug
    BY DEF CatalogInv, MetaMatchesTables
  <1>7. \A r \in collections' :
          /\ r.id # row.id /\ r \in collections
          /\ ColumnsOf(db, r.slug)' = ColumnsOf(db, r.slug)
          /\ FieldsOf(r.id)' = FieldsOf(r.id)
          /\ Enabled(r.id)' <=> Enabled(r.id)
    BY <1>4, <1>5, <1>6 DEF OnlyTable, FieldsOf, Enabled
  <1> QED BY <1>7, OthersMatch

\* One collection's fields, columns or process change.
LEMMA RowChanges ==
    ASSUME CatalogInv, TablesMatch, NEW row \in collections, UNCHANGED collections,
           OnlyTable(row.slug),
           \A k : k # row.id => FieldsOf(k)' = FieldsOf(k) /\ (Enabled(k)' <=> Enabled(k)),
           RowMatches(row)'
    PROVE  TablesMatch'
  <1>1. \A r \in collections : (r.id = row.id => r = row) /\ (r.id # row.id => r.slug # row.slug)
    BY DEF CatalogInv, MetaMatchesTables
  <1> QED BY <1>1, OthersMatch DEF OnlyTable

LEMMA AddFieldTxMatches ==
    ASSUME TypeInv, CatalogInv, TablesMatch, NEW c \in Clients, AddFieldTx(c)
    PROVE  TablesMatch'
  <1>1. PICK a \in [id : CollectionIds, slug : Slugs, draft : Drafts], fid \in FieldIds \ issued :
          LET f   == NewField(fid, a.id, a.draft)
              ddl == GenerateAddColumn(a.slug, f)
          IN  /\ req[c].phase = "tx" /\ req[c].op = "add_field" /\ req[c].args = a
              /\ \E r \in collections : r.id = a.id
              /\ \A g \in FieldsOf(a.id) : g.slug # f.slug
              /\ CanExec(db, ddl.up)
              /\ fields' = fields \cup {f}
              /\ db' = Exec(db, ddl.up)
    BY TxArgs DEF AddFieldTx, InTx, Args, TypeInv, TypeOK, References
  <1>2. PICK f \in Field : f = NewField(fid, a.id, a.draft)
    BY DEF NewField, Field, Drafts, Draft
  <1>3. PICK row \in collections : row.id = a.id
    BY <1>1
  <1>4. f.coll = row.id /\ f.slug \in FieldSlugs /\ row.slug = a.slug
    BY <1>1, <1>2, <1>3, CarriedRow DEF NewField, Field, Carries
  <1>5. UNCHANGED <<collections, processes>>
    BY DEF AddFieldTx
  <1>6. /\ FieldsOf(row.id)' = FieldsOf(row.id) \cup {f}
        /\ \A k : k # row.id => FieldsOf(k)' = FieldsOf(k)
    BY <1>1, <1>2, <1>4 DEF FieldsOf
  <1>7. \A g \in FieldsOf(row.id) : g.slug # f.slug
    BY <1>1, <1>2, <1>3
  <1>8. Announced(ColumnsOf(db, row.slug), FieldsOf(row.id), Enabled(row.id))
    BY DEF TablesMatch, RowMatches
  <1>9. Enabled(row.id)' <=> Enabled(row.id)
    BY <1>5 DEF Enabled
  <1>10. CASE f.type \in NoColumnTypes
    <2>1. db' = db
      BY <1>1, <1>2, <1>10 DEF GenerateAddColumn, NoDDL, Exec
    <2>2. OnlyTable(row.slug) /\ ColumnsOf(db, row.slug)' = ColumnsOf(db, row.slug)
      BY <2>1 DEF OnlyTable, ColumnsOf
    <2>3. RowMatches(row)'
      BY <1>6, <1>8, <1>9, <1>10, <2>2 DEF RowMatches, Announced
    <2> QED BY <1>5, <1>6, <2>2, <2>3, RowChanges DEF Enabled
  <1>11. CASE f.type \notin NoColumnTypes
    <2>1. CanExec(db, AddColumn(row.slug, DefOf(f)))
          /\ db' = Exec(db, AddColumn(row.slug, DefOf(f)))
      BY <1>1, <1>2, <1>4, <1>11 DEF GenerateAddColumn
    <2>2. PICK new : new = ColumnIn(row.slug, DefOf(f))
      OBVIOUS
    <2>3. new.slug = f.slug /\ Announces(f, new)
      BY <2>2 DEF ColumnIn, DefOf, Announces
    <2>4. /\ OnlyTable(row.slug)
          /\ ColumnsOf(db, row.slug)' = ColumnsOf(db, row.slug) \cup {new}
      BY <2>1, <2>2, TableColumns DEF TypeInv, TypeOK
    <2>5. \A col \in ColumnsOf(db, row.slug) : col.slug # f.slug
      BY <2>1 DEF CanExec, AddColumn, DefOf, HasColumn, ColumnsOf
    <2>6. RowMatches(row)'
      BY <1>4, <1>6, <1>7, <1>8, <1>9, <2>3, <2>4, <2>5, SlugsAssumption
      DEF RowMatches, Announced
    <2> QED BY <1>5, <1>6, <2>4, <2>6, RowChanges DEF Enabled
  <1> QED BY <1>10, <1>11

\* The field that is dropped has the column it had when it was read.
LEMMA DropFieldTxMatches ==
    ASSUME TypeInv, CatalogInv, TablesMatch, NEW c \in Clients, DropFieldTx(c)
    PROVE  TablesMatch'
  <1>1. PICK read \in Field, slug \in Slugs :
          /\ req[c].phase = "tx" /\ req[c].op = "drop_field"
          /\ req[c].args.field = read /\ req[c].args.slug = slug
          /\ db' = Exec(db, GenerateDropColumn(slug, read).up)
          /\ DeleteFieldRow(read.id)
    BY TxArgs DEF DropFieldTx, InTx, Args, TypeInv, TypeOK
  <1>2. PICK f \in fields : f.id = read.id
    BY <1>1 DEF DeleteFieldRow
  <1>3. f \in Field /\ SameColumn(f, read)
    BY <1>1, <1>2 DEF Seen, CarriesField, CatalogInv, Facts, FieldsFixed, TypeInv, TypeOK
  <1>4. PICK row \in collections : row.id = f.coll
    BY DEF CatalogInv, FieldsHaveCollection
  <1>5. row.slug = slug
    <2>1. row.id = read.coll
      BY <1>3, <1>4 DEF SameColumn
    <2>2. Carries(req[c], row.id, slug)
      BY <1>1, <2>1 DEF Carries
    <2> QED BY <2>2, CarriedRow
  <1>6. UNCHANGED <<collections, processes>>
    BY DEF DropFieldTx
  <1>7. fields' = {g \in fields : g.id # f.id}
    BY <1>1, <1>2 DEF DeleteFieldRow
  <1>8. /\ FieldsOf(row.id)' \subseteq FieldsOf(row.id)
        /\ \A k : k # row.id => FieldsOf(k)' = FieldsOf(k)
    <2>1. \A g \in fields : g.id = f.id => g = f
      BY DEF CatalogInv, MetaMatchesTables
    <2> QED BY <1>4, <1>7, <2>1 DEF FieldsOf
  <1>9. Announced(ColumnsOf(db, row.slug), FieldsOf(row.id), Enabled(row.id))
    BY DEF TablesMatch, RowMatches
  <1>10. Enabled(row.id)' <=> Enabled(row.id)
    BY <1>6 DEF Enabled
  <1>11. OnlyTable(row.slug)
         /\ \E s \in FieldSlugs : \/ ColumnsOf(db, row.slug)' = ColumnsOf(db, row.slug)
                                  \/ ColumnsOf(db, row.slug)'
                                       = {col \in ColumnsOf(db, row.slug) : col.slug # s}
    <2>1. read.slug \in FieldSlugs
      BY DEF Field
    <2>2. CASE read.type \in NoColumnTypes
      <3>1. db' = db
        BY <1>1, <2>2 DEF GenerateDropColumn, NoDDL, Exec
      <3> QED BY <2>1, <3>1 DEF OnlyTable, ColumnsOf
    <2>3. CASE read.type \notin NoColumnTypes
      <3>1. db' = Exec(db, DropColumn(row.slug, read.slug))
        BY <1>1, <1>5, <2>3 DEF GenerateDropColumn
      <3> QED BY <2>1, <3>1, TableColumns DEF TypeInv, TypeOK
    <2> QED BY <2>2, <2>3
  <1>12. RowMatches(row)'
    BY <1>8, <1>9, <1>10, <1>11, SlugsAssumption DEF RowMatches, Announced
  <1> QED BY <1>6, <1>8, <1>11, <1>12, RowChanges DEF Enabled

\* The row and the column change in the attributes the request names.
LEMMA AlterFieldTxMatches ==
    ASSUME TypeInv, CatalogInv, CacheInv, TablesMatch, NEW c \in Clients, AlterFieldTx(c)
    PROVE  TablesMatch'
  <1>1. PICK old \in Field, slug \in Slugs, chg \in Changes :
          /\ req[c].phase = "tx" /\ req[c].op = "alter_field"
          /\ req[c].args.old = old /\ req[c].args.slug = slug
          /\ AllowedChange(old.type, chg.type)
          /\ UpdateFieldRow(old.id, chg)
          /\ db' = Exec(db, GenerateAlterColumn(slug, old, chg).up)
    BY TxArgs DEF AlterFieldTx, InTx, Args, TypeInv, TypeOK
  <1>2. old \in fields /\ \A f \in fields : f.id = old.id => f = old
    BY <1>1, AlteredField
  <1>3. PICK row \in collections : row.id = old.coll
    BY <1>2 DEF CatalogInv, FieldsHaveCollection
  <1>4. row.slug = slug
    BY <1>1, <1>3, CarriedRow DEF Carries
  <1>5. UNCHANGED <<collections, processes>>
    BY DEF AlterFieldTx
  <1>6. PICK new : new = [old EXCEPT !.type = IF chg.type = Keep THEN @ ELSE chg.type,
                                     !.required = IF chg.required = Keep THEN @
                                                  ELSE chg.required]
    OBVIOUS
  <1>7. /\ new.coll = old.coll /\ new.slug = old.slug
        /\ new.type = IF chg.type = Keep THEN old.type ELSE chg.type
        /\ new.required = IF chg.required = Keep THEN old.required ELSE chg.required
    BY <1>6 DEF Field
  <1>8. fields' = (fields \ {old}) \cup {new}
    <2>1. fields' = {IF f.id # old.id THEN f ELSE
                       [f EXCEPT !.type = IF chg.type = Keep THEN @ ELSE chg.type,
                                 !.required = IF chg.required = Keep THEN @
                                              ELSE chg.required] : f \in fields}
      BY <1>1 DEF UpdateFieldRow
    <2> DEFINE After(f) == IF f.id # old.id THEN f ELSE
                       [f EXCEPT !.type = IF chg.type = Keep THEN @ ELSE chg.type,
                                 !.required = IF chg.required = Keep THEN @
                                              ELSE chg.required]
    <2>2. \A f \in fields : After(f) = IF f = old THEN new ELSE f
      BY <1>2, <1>6
    <2>3. fields' = {After(f) : f \in fields}
      BY <2>1
    <2> HIDE DEF After
    <2> QED BY <1>2, <2>2, <2>3
  <1>9. /\ FieldsOf(row.id)' = (FieldsOf(row.id) \ {old}) \cup {new}
        /\ \A k : k # row.id => FieldsOf(k)' = FieldsOf(k)
    BY <1>3, <1>7, <1>8 DEF FieldsOf
  <1>10. Announced(ColumnsOf(db, row.slug), FieldsOf(row.id), Enabled(row.id))
    BY DEF TablesMatch, RowMatches
  <1>11. Enabled(row.id)' <=> Enabled(row.id)
    BY <1>5 DEF Enabled
  <1>12. \A f \in FieldsOf(row.id) : f.slug = old.slug => f = old
    BY <1>2, <1>3 DEF CatalogInv, MetaMatchesTables, FieldsOf
  <1>13. old.slug \in FieldSlugs /\ old \in FieldsOf(row.id)
    BY <1>2, <1>3 DEF Field, FieldsOf
  <1>14. new.type \notin NoColumnTypes => old.type \notin NoColumnTypes
    BY <1>1, <1>7, TypesAssumption DEF AllowedChange
  <1> DEFINE ddl == GenerateAlterColumn(slug, old, chg).up
  <1>15. CASE ddl = NoDDL
    <2>1. db' = db
      BY <1>1, <1>15 DEF NoDDL, Exec
    <2>2. OnlyTable(row.slug) /\ ColumnsOf(db, row.slug)' = ColumnsOf(db, row.slug)
      BY <2>1 DEF OnlyTable, ColumnsOf
    <2>3. new.type = old.type /\ new.required = old.required
      BY <1>7, <1>15 DEF GenerateAlterColumn, AlterColumn, NoDDL
    <2>4. RowMatches(row)'
      BY <1>7, <1>9, <1>10, <1>11, <1>13, <2>2, <2>3 DEF RowMatches, Announced, Announces
    <2> QED BY <1>5, <1>9, <2>2, <2>4, RowChanges DEF Enabled
  <1>16. CASE ddl # NoDDL
    <2>1. PICK type, notNull :
            /\ ddl = AlterColumn(slug, old.slug, type, notNull, TRUE)
            /\ new.type = IF type = Keep THEN old.type ELSE type
            /\ new.required = IF notNull = Keep THEN old.required ELSE notNull
            /\ type # Keep => type = chg.type /\ type # old.type
      BY <1>7, <1>16 DEF GenerateAlterColumn
    <2>10. type # Keep => old.type \notin Autonumber /\ type \notin Autonumber
      BY <1>1, <2>1, AutonumberAssumption DEF AllowedChange
    <2>9. PICK d : /\ d = ddl /\ db' = Exec(db, d)
                   /\ d.kind = "alter_column" /\ d.table = row.slug /\ d.slug = old.slug
                   /\ d.type = type /\ d.notNull = notNull
      BY <1>1, <1>4, <2>1 DEF AlterColumn
    <2> DEFINE After(col) == IF col.table = d.table /\ col.slug = d.slug
                             THEN Altered(col, d) ELSE col
    <2>2. db.columns' = {After(col) : col \in db.columns}
      BY <2>9 DEF Exec, TypeInv, TypeOK, Database
    <2>3. ASSUME NEW col \in db.columns
          PROVE  /\ After(col).table = col.table /\ After(col).slug = col.slug
                 /\ col.table # row.slug \/ col.slug # old.slug => After(col) = col
                 /\ col.table = row.slug /\ col.slug = old.slug =>
                      /\ After(col).type = IF type = Keep THEN col.type ELSE type
                      /\ After(col).notNull = IF notNull = Keep THEN col.notNull ELSE notNull
      BY <2>9 DEF Altered, TypeInv, TypeOK, Database, Column
    <2> HIDE DEF After, ddl
    <2>4. OnlyTable(row.slug)
          /\ ColumnsOf(db, row.slug)' = {After(col) : col \in ColumnsOf(db, row.slug)}
      BY <2>2, <2>3 DEF OnlyTable, ColumnsOf
    <2>5. \A col \in ColumnsOf(db, row.slug) : col \in db.columns /\ col.table = row.slug
      BY DEF ColumnsOf
    <2>6. (\E col \in ColumnsOf(db, row.slug)' : col.slug = StatusSlug)
            <=> (\E col \in ColumnsOf(db, row.slug) : col.slug = StatusSlug)
      BY <2>3, <2>4, <2>5
    <2>7. ASSUME NEW f \in FieldsOf(row.id)', NEW col \in ColumnsOf(db, row.slug),
                 f.type \notin NoColumnTypes, After(col).slug = f.slug
          PROVE  Announces(f, After(col))
      <3>1. CASE f = new
        <4>1. col.slug = old.slug /\ Announces(old, col)
          BY <1>7, <1>10, <1>13, <1>14, <2>3, <2>5, <2>7, <3>1 DEF Announced
        <4>2. /\ After(col).type = IF type = Keep THEN col.type ELSE type
              /\ After(col).notNull = IF notNull = Keep THEN col.notNull ELSE notNull
          BY <2>3, <2>5, <4>1
        <4> QED BY <2>1, <2>10, <3>1, <4>1, <4>2 DEF Announces
      <3>2. CASE f # new
        <4>1. f \in FieldsOf(row.id) /\ f.slug # old.slug
          BY <1>9, <1>12, <3>2
        <4> QED BY <1>10, <2>3, <2>5, <2>7, <4>1 DEF Announced
      <3> QED BY <3>1, <3>2
    <2>8. RowMatches(row)'
      BY <1>10, <1>11, <2>4, <2>6, <2>7 DEF RowMatches, Announced
    <2> QED BY <1>5, <1>9, <2>4, <2>8, RowChanges DEF Enabled
  <1> QED BY <1>15, <1>16

\* The preflight's answer still holds, so the status column is added when it is
\* missing and dropped when it is there.
LEMMA SaveProcessTxMatches ==
    ASSUME TypeInv, CatalogInv, CacheInv, TablesMatch, NEW c \in Clients, SaveProcessTx(c)
    PROVE  TablesMatch'
  <1>1. PICK a \in [id : CollectionIds, slug : Slugs, enabled : BOOLEAN,
                    wasEnabled : BOOLEAN] :
          /\ req[c].phase = "tx" /\ req[c].op = "save_process" /\ req[c].args = a
          /\ \E r \in collections : r.id = a.id
          /\ processes' = {p \in processes : p.coll # a.id}
                             \cup {[coll |-> a.id, enabled |-> a.enabled]}
          /\ a.wasEnabled = a.enabled => db' = db
          /\ a.wasEnabled # a.enabled =>
               db' = Exec(db, IF a.enabled THEN AddColumn(a.slug, StatusDef)
                              ELSE DropColumn(a.slug, StatusSlug))
    BY TxArgs DEF SaveProcessTx, InTx, Args, TypeInv, TypeOK, References,
       GenerateAddStatusColumn, GenerateDropStatusColumn
  <1>2. PICK row \in collections : row.id = a.id
    BY <1>1
  <1>3. row.slug = a.slug
    BY <1>1, <1>2, CarriedRow DEF Carries
  <1>4. UNCHANGED <<collections, fields>>
    BY DEF SaveProcessTx
  <1>5. a.wasEnabled <=> Enabled(row.id)
    BY <1>1, <1>2, IdleIsFresh DEF ReadStill, Enabled
  <1>6. /\ Enabled(row.id)' <=> a.enabled
        /\ \A k : k # row.id => (Enabled(k)' <=> Enabled(k))
    BY <1>1, <1>2 DEF Enabled
  <1>7. \A k : FieldsOf(k)' = FieldsOf(k)
    BY <1>4 DEF FieldsOf
  <1>8. Announced(ColumnsOf(db, row.slug), FieldsOf(row.id), Enabled(row.id))
    BY DEF TablesMatch, RowMatches
  <1>9. \A f \in FieldsOf(row.id) : f.slug # StatusSlug
    BY SlugsAssumption DEF FieldsOf, TypeInv, TypeOK, Field
  <1>10. ASSUME OnlyTable(row.slug),
                Announced(ColumnsOf(db, row.slug)', FieldsOf(row.id), Enabled(row.id)')
         PROVE  TablesMatch'
    <2>1. RowMatches(row)'
      BY <1>7, <1>10 DEF RowMatches
    <2> QED BY <1>4, <1>6, <1>7, <1>10, <2>1, RowChanges
  <1>11. CASE a.wasEnabled = a.enabled
    <2>1. OnlyTable(row.slug) /\ ColumnsOf(db, row.slug)' = ColumnsOf(db, row.slug)
      BY <1>1, <1>11 DEF OnlyTable, ColumnsOf
    <2>2. Announced(ColumnsOf(db, row.slug)', FieldsOf(row.id), Enabled(row.id)')
      BY <1>5, <1>6, <1>8, <1>11, <2>1 DEF Announced
    <2> QED BY <1>10, <2>1, <2>2
  <1>12. CASE a.wasEnabled # a.enabled /\ a.enabled
    <2>4. ColumnIn(row.slug, StatusDef).slug = StatusSlug
      BY DEF ColumnIn, StatusDef
    <2>1. PICK new : new = ColumnIn(row.slug, StatusDef) /\ new.slug = StatusSlug
      BY <2>4
    <2>2. OnlyTable(row.slug)
          /\ ColumnsOf(db, row.slug)' = ColumnsOf(db, row.slug) \cup {new}
      BY <1>1, <1>3, <1>12, <2>1, TableColumns DEF TypeInv, TypeOK
    <2>3. Announced(ColumnsOf(db, row.slug)', FieldsOf(row.id), Enabled(row.id)')
      BY <1>6, <1>8, <1>9, <1>12, <2>1, <2>2 DEF Announced
    <2> QED BY <1>10, <2>2, <2>3
  <1>13. CASE a.wasEnabled # a.enabled /\ ~a.enabled
    <2>1. OnlyTable(row.slug)
          /\ ColumnsOf(db, row.slug)' = {col \in ColumnsOf(db, row.slug) : col.slug # StatusSlug}
      BY <1>1, <1>3, <1>13, TableColumns DEF TypeInv, TypeOK
    <2>2. Announced(ColumnsOf(db, row.slug)', FieldsOf(row.id), Enabled(row.id)')
      BY <1>6, <1>8, <1>13, <2>1 DEF Announced
    <2> QED BY <1>10, <2>1, <2>2
  <1> QED BY <1>11, <1>12, <1>13

(***************************************************************************)
(* The tables are as announced.                                            *)
(***************************************************************************)
\* A new record is not rolled back and leaves those that are.
LEMMA RecordKeepsReversed ==
    ASSUME TypeInv, NEW coll, NEW op, NEW payload, NEW down,
           Record(coll, op, payload, down), Unreversed'
    PROVE  Unreversed
  <1> DEFINE m == [coll |-> coll, op |-> op, payload |-> payload, down |-> down,
                   rolledBack |-> FALSE]
  <1>1. migrations \in Seq(MigrationRow) /\ migrations' = Append(migrations, m)
    BY DEF Record, TypeInv, TypeOK
  <1> HIDE DEF m
  <1>2. /\ Len(migrations') = Len(migrations) + 1 /\ Len(migrations) \in Nat
        /\ \A i \in 1..Len(migrations) : migrations'[i] = migrations[i]
    BY <1>1
  <1>3. \A i \in 1..Len(migrations) : i \in 1..Len(migrations')
    BY <1>2
  <1> QED BY <1>2, <1>3 DEF Unreversed

\* A transaction that is no rollback leaves what is rolled back so.
LEMMA TransactionKeepsReversed ==
    ASSUME TypeInv, NEW c \in Clients, Transaction(c), ~RollbackTx(c), Unreversed'
    PROVE  Unreversed
  <1>1. CASE CreateCollectionTx(c)
    BY <1>1, RecordKeepsReversed DEF CreateCollectionTx
  <1>2. CASE UpdateCollectionTx(c)
    BY <1>2, RecordKeepsReversed DEF UpdateCollectionTx
  <1>3. CASE DropCollectionTx(c)
    BY <1>3, RecordKeepsReversed DEF DropCollectionTx
  <1>4. CASE AddFieldTx(c)
    BY <1>4, RecordKeepsReversed DEF AddFieldTx
  <1>5. CASE AlterFieldTx(c)
    BY <1>5, RecordKeepsReversed DEF AlterFieldTx
  <1>6. CASE DropFieldTx(c)
    BY <1>6, RecordKeepsReversed DEF DropFieldTx
  <1>7. CASE SaveProcessTx(c)
    BY <1>7, RecordKeepsReversed DEF SaveProcessTx, Unreversed
  <1> QED
    BY <1>1, <1>2, <1>3, <1>4, <1>5, <1>6, <1>7 DEF Transaction

\* Every step but a rollback keeps rows and columns together, and after a rollback
\* nothing is claimed of them.
LEMMA TablesHoldStep ==
    TypeInv /\ CatalogInv /\ CacheInv /\ TablesHold /\ [Next]_vars => TablesHold'
  <1> SUFFICES ASSUME TypeInv, CatalogInv, CacheInv, TablesHold, [Next]_vars, Unreversed'
               PROVE  TablesMatch'
    BY DEF TablesHold
  <1>1. ASSUME NEW c \in Clients, Transaction(c) PROVE TablesMatch'
    <2>1. ~RollbackTx(c)
      <3> SUFFICES ASSUME RollbackTx(c) PROVE FALSE
        OBVIOUS
      <3>1. Args(c).mig \in 1..Len(migrations)
        BY DEF RollbackTx, TypeInv, RollbackNamesRecord
      <3>2. /\ migrations'[Args(c).mig].rolledBack
            /\ Len(migrations') = Len(migrations)
        BY <3>1 DEF RollbackTx, TypeInv, TypeOK, MigrationRow, Recorded
      <3> QED BY <3>1, <3>2 DEF Unreversed
    <2>2. TablesMatch
      BY <1>1, <2>1, TransactionKeepsReversed DEF TablesHold
    <2> QED
      BY <1>1, <2>1, <2>2, CreateCollectionTxMatches, UpdateCollectionTxMatches,
         DropCollectionTxMatches, AddFieldTxMatches, AlterFieldTxMatches,
         DropFieldTxMatches, SaveProcessTxMatches
      DEF Transaction
  <1>2. CASE \A c \in Clients : ~Transaction(c)
    <2>1. UNCHANGED <<collections, fields, processes, db, migrations>>
      BY <1>2 DEF Next, vars, meta, Preflight, BeginCreateCollection, BeginUpdateCollection,
         BeginDropCollection, BeginAddField, BeginAlterField, BeginDropField,
         BeginSaveProcess, BeginRollback, Begin, TxAborts, Refresh, RefreshFails,
         ReloadRead, ReloadReadFields, InstallCollection, RemoveFromCache,
         ReloadProcessRead, InstallProcessEntry, LoadCollections, LoadFieldsOf,
         LoadProcessOf, LoadInstall, Restart
    <2> QED
      BY <2>1 DEF TablesHold, Unreversed, TablesMatch, RowMatches, ColumnsOf, FieldsOf, Enabled
  <1> QED BY <1>1, <1>2

\* What holds between the steps of one caller, from which the two theorems about
\* the data tables follow.
LEMMA SequentialInvariant ==
    ASSUME OneAtATime, Reversible PROVE Spec => [](CatalogInv /\ CacheInv /\ TablesHold)
  <1>1. Init => CatalogInv /\ CacheInv /\ TablesHold
    BY InitCatalog, InitCache DEF Init, TablesMatch, TablesHold
  <1>2. TypeInv /\ TypeInv' /\ CatalogInv /\ CacheInv /\ TablesHold /\ [Next]_vars
          => CatalogInv' /\ CacheInv' /\ TablesHold'
    BY CatalogInvStep, CacheInvStep, TablesHoldStep
  <1> QED BY <1>1, <1>2, TypeInvariant, PTL DEF Spec

\* With one call at a time and until a migration is rolled back, the column of
\* every stored field has the type and the NOT NULL constraint the field row
\* announces, however often fields are altered, dropped and added again.
THEOREM ColumnTypesCorrect ==
    ASSUME OneAtATime, Reversible PROVE Spec => []ColumnTypesMatch
  BY SequentialInvariant, TablesMatchMeans, PTL

\* Under the same conditions a table has the _status column exactly when the
\* collection's process is enabled: the cache that SaveProcess asks whether it
\* was enabled is never behind the store.
THEOREM StatusColumnCorrect ==
    ASSUME OneAtATime, Reversible PROVE Spec => []StatusColumnMatches
  BY SequentialInvariant, TablesMatchMeans, PTL
=============================================================================
