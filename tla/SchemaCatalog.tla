--------------------------- MODULE SchemaCatalog ----------------------------
(***************************************************************************)
(* What the migration engine promises: a catalog of apps whose metadata and *)
(* data tables change together, one app at a time.  There is no cache, no   *)
(* transaction and no concurrency here; SchemaEngine implements it.         *)
(***************************************************************************)
CONSTANTS Ids,      \* app identities
          Names,    \* app slugs, which name the tables
          Columns   \* user columns

VARIABLES apps,     \* set of [id, slug, columns]: the metadata
          tables    \* set of [slug, columns]: the data tables

catalogVars == <<apps, tables>>

App == [id : Ids, slug : Names, columns : SUBSET Columns]
Table(a) == [slug |-> a.slug, columns |-> a.columns]

Init == apps = {} /\ tables = {}

Replace(a, b) ==
    /\ apps' = (apps \ {a}) \cup {b}
    /\ tables' = (tables \ {Table(a)}) \cup {Table(b)}

\* A new app, or a dropped one that is rolled back.
CreateApp ==
    \E a \in App :
        /\ \A b \in apps : b.id # a.id /\ b.slug # a.slug
        /\ apps' = apps \cup {a}
        /\ tables' = tables \cup {Table(a)}

DropApp ==
    \E a \in apps :
        /\ apps' = apps \ {a}
        /\ tables' = tables \ {Table(a)}

AddColumnTo ==
    \E a \in apps : \E s \in Columns \ a.columns :
        Replace(a, [a EXCEPT !.columns = @ \cup {s}])

RemoveColumnFrom ==
    \E a \in apps : \E s \in a.columns :
        Replace(a, [a EXCEPT !.columns = @ \ {s}])

Next == CreateApp \/ DropApp \/ AddColumnTo \/ RemoveColumnFrom

Spec == Init /\ [][Next]_catalogVars

\* The catalog's own invariant: identities and slugs are unique and there is
\* one table per app, with the app's columns.
OneTablePerApp ==
    /\ tables = {Table(a) : a \in apps}
    /\ \A a, b \in apps : a.id = b.id \/ a.slug = b.slug => a = b
=============================================================================
