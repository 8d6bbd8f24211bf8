----------------------------- MODULE DataTables -----------------------------
(***************************************************************************)
(* The dynamic "data" schema of PostgreSQL and the DDL the migration engine *)
(* generates for it (backend/internal/migration/ddl.go, compat.go).         *)
(*                                                                         *)
(* A database is a record [tables, columns]; a DDL list of the code is one  *)
(* statement record here, because every list the engine generates touches   *)
(* one table.  Indexes, sequences, text-search triggers and default clauses *)
(* are left out: they follow the column they belong to.                     *)
(***************************************************************************)
EXTENDS FiniteSets

CONSTANTS
    Slugs,          \* collection slugs, which are also the table names
    FieldSlugs,     \* field slugs, which are also the column names
    DataTypes,      \* field types backed by a column
    NoColumnTypes,  \* layout and computed field types
    Autonumber,     \* the field type "autonumber", in a set of its own
    Convertible,    \* pairs of data types the compatibility matrix allows
    AutoCast,       \* pairs PostgreSQL converts without a USING clause
    StatusSlug,     \* the column "_status" of a process-enabled table
    StatusType,     \* its type, VARCHAR(255)
    Keep            \* "this attribute is not part of the request"

ASSUME TypesAssumption ==
    /\ DataTypes \cap NoColumnTypes = {}
    /\ StatusType \notin DataTypes \cup NoColumnTypes
    /\ Keep \notin DataTypes \cup NoColumnTypes
    /\ Keep \notin BOOLEAN
    /\ Convertible \subseteq DataTypes \X DataTypes
    /\ AutoCast \subseteq DataTypes \X DataTypes

\* Autonumber cannot be converted to or from any other type (compat.go).
ASSUME AutonumberAssumption ==
    /\ Autonumber \subseteq DataTypes
    /\ \A p \in Convertible : p[1] \notin Autonumber /\ p[2] \notin Autonumber

\* ValidateSlug reserves the automatic columns, so no field is called _status.
ASSUME SlugsAssumption == StatusSlug \notin FieldSlugs

FieldTypes == DataTypes \cup NoColumnTypes

ColumnDef == [slug : FieldSlugs \cup {StatusSlug},
              type : DataTypes \cup {StatusType}, notNull : BOOLEAN]
Column == [table : Slugs, slug : FieldSlugs \cup {StatusSlug},
           type : DataTypes \cup {StatusType}, notNull : BOOLEAN]

Database == [tables : SUBSET Slugs, columns : SUBSET Column]

EmptyDatabase == [tables |-> {}, columns |-> {}]

ColumnsOf(db, t) == {c \in db.columns : c.table = t}
HasColumn(db, t, s) == \E c \in db.columns : c.table = t /\ c.slug = s

(***************************************************************************)
(* Statements.                                                             *)
(***************************************************************************)
NoDDL == [kind |-> "none"]
CreateTable(t, defs) == [kind |-> "create_table", table |-> t, defs |-> defs]
DropTable(t) == [kind |-> "drop_table", table |-> t]
AddColumn(t, def) == [kind |-> "add_column", table |-> t, def |-> def]
DropColumn(t, s) == [kind |-> "drop_column", table |-> t, slug |-> s]
AlterColumn(t, s, type, notNull, using) ==
    [kind |-> "alter_column", table |-> t, slug |-> s,
     type |-> type, notNull |-> notNull, using |-> using]

Statement ==
    {NoDDL}
      \cup [kind : {"create_table"}, table : Slugs, defs : SUBSET ColumnDef]
      \cup [kind : {"drop_table"}, table : Slugs]
      \cup [kind : {"add_column"}, table : Slugs, def : ColumnDef]
      \cup [kind : {"drop_column"}, table : Slugs,
            slug : FieldSlugs \cup {StatusSlug}]
      \cup [kind : {"alter_column"}, table : Slugs, slug : FieldSlugs,
            type : DataTypes \cup {Keep}, notNull : BOOLEAN \cup {Keep},
            using : BOOLEAN]

ColumnIn(t, def) ==
    [table |-> t, slug |-> def.slug, type |-> def.type, notNull |-> def.notNull]

\* PostgreSQL accepts the statement in this state of the schema.  DROP TABLE
\* and DROP COLUMN carry IF EXISTS, but a missing table still fails an ALTER.
CanExec(db, d) ==
    CASE d.kind = "none" -> TRUE
      [] d.kind = "create_table" -> d.table \notin db.tables
      [] d.kind = "drop_table" -> TRUE
      [] d.kind = "add_column" ->
            /\ d.table \in db.tables
            /\ ~HasColumn(db, d.table, d.def.slug)
      [] d.kind = "drop_column" -> d.table \in db.tables
      [] d.kind = "alter_column" ->
            \E c \in db.columns :
                /\ c.table = d.table
                /\ c.slug = d.slug
                /\ \/ d.type \in {Keep, c.type}
                   \/ d.using
                   \/ <<c.type, d.type>> \in AutoCast

\* The schema after the statement.
Altered(c, d) ==
    [c EXCEPT !.type = IF d.type = Keep THEN @ ELSE d.type,
              !.notNull = IF d.notNull = Keep THEN @ ELSE d.notNull]

Exec(db, d) ==
    CASE d.kind = "none" -> db
      [] d.kind = "create_table" ->
            [tables |-> db.tables \cup {d.table},
             columns |-> db.columns \cup {ColumnIn(d.table, def) : def \in d.defs}]
      [] d.kind = "drop_table" ->
            [tables |-> db.tables \ {d.table},
             columns |-> {c \in db.columns : c.table # d.table}]
      [] d.kind = "add_column" ->
            [db EXCEPT !.columns = @ \cup {ColumnIn(d.table, d.def)}]
      [] d.kind = "drop_column" ->
            [db EXCEPT !.columns = {c \in @ : c.table # d.table \/ c.slug # d.slug}]
      [] d.kind = "alter_column" ->
            [db EXCEPT !.columns =
                {IF c.table = d.table /\ c.slug = d.slug THEN Altered(c, d) ELSE c
                    : c \in @}]

(***************************************************************************)
(* Generators.  Each returns [up, down].                                   *)
(***************************************************************************)
\* Mutant: NOT NULL is left out of the column definition.
NullableDefOf(f) == [slug |-> f.slug, type |-> f.type, notNull |-> FALSE]

\* An autonumber column fills itself from a sequence and is NOT NULL whether
\* or not its field is required.
DefOf(f) == [slug |-> f.slug, type |-> f.type,
             notNull |-> f.required \/ f.type \in Autonumber]
StoredDefs(fs) == {DefOf(f) : f \in {g \in fs : g.type \notin NoColumnTypes}}

GenerateCreateTable(t, fs) ==
    [up |-> CreateTable(t, StoredDefs(fs)), down |-> DropTable(t)]

\* Mutant: a required field gets no column.
AddOptionalColumn(t, f) ==
    IF f.type \in NoColumnTypes \/ f.required
    THEN [up |-> NoDDL, down |-> NoDDL]
    ELSE [up |-> AddColumn(t, DefOf(f)), down |-> DropColumn(t, f.slug)]

GenerateAddColumn(t, f) ==
    IF f.type \in NoColumnTypes
    THEN [up |-> NoDDL, down |-> NoDDL]
    ELSE [up |-> AddColumn(t, DefOf(f)), down |-> DropColumn(t, f.slug)]

\* The inverse of DROP COLUMN is a bare ADD COLUMN: NOT NULL is not restored.
GenerateDropColumn(t, f) ==
    IF f.type \in NoColumnTypes
    THEN [up |-> NoDDL, down |-> NoDDL]
    ELSE [up |-> DropColumn(t, f.slug),
          down |-> AddColumn(t, [slug |-> f.slug, type |-> f.type, notNull |-> FALSE])]

\* ALTER COLUMN TYPE ... USING upwards, without USING downwards, together with
\* SET / DROP NOT NULL; only the attributes that change are mentioned.
GenerateAlterColumn(t, old, chg) ==
    LET type == IF chg.type \in {Keep, old.type} THEN Keep ELSE chg.type
        notNull == IF chg.required \in {Keep, old.required} THEN Keep ELSE chg.required
    IN  IF type = Keep /\ notNull = Keep
        THEN [up |-> NoDDL, down |-> NoDDL]
        ELSE [up |-> AlterColumn(t, old.slug, type, notNull, TRUE),
              down |-> AlterColumn(t, old.slug,
                                   IF type = Keep THEN Keep ELSE old.type,
                                   IF notNull = Keep THEN Keep ELSE old.required,
                                   FALSE)]

StatusDef == [slug |-> StatusSlug, type |-> StatusType, notNull |-> FALSE]
GenerateAddStatusColumn(t) ==
    [up |-> AddColumn(t, StatusDef), down |-> DropColumn(t, StatusSlug)]
GenerateDropStatusColumn(t) ==
    [up |-> DropColumn(t, StatusSlug), down |-> AddColumn(t, StatusDef)]

\* CheckCompat: a change between column-backed and column-less types is
\* refused, and among column-backed types only the matrix's pairs pass.
AllowedChange(from, to) ==
    \/ to \in {Keep, from}
    \/ <<from, to>> \in Convertible
=============================================================================
