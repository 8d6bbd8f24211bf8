---------------------------- MODULE RowSelection ----------------------------
(***************************************************************************)
(* The rows a user selects on the records page and the bulk operations on    *)
(* them (frontend/src/pages/AppViewPage.tsx, components/common/DataTable.tsx *)
(* and works/BulkEditPanel.tsx), while others write the same records.        *)
(*                                                                          *)
(* The server is reduced to the version of each record; the batch and delete *)
(* handlers are those of Records.tla.                                        *)
(***************************************************************************)
EXTENDS Screen

CONSTANTS
    Rows,         \* records of the collection
    PageSize,     \* rows of one page
    MaxLimit,     \* the most rows a request may ask for
    DefaultLimit, \* the rows of a request that asks for more
    MaxVersion    \* bound on the writes to one record

ASSUME SelectionAssumption ==
    /\ {PageSize, MaxLimit, DefaultLimit} \subseteq Nat \ {0}
    /\ MaxVersion \in Nat /\ IsFiniteSet(Rows)

VARIABLES
    db,          \* version of each record
    filtered,    \* records that satisfy the conditions and the search
    listed,      \* the page the table shows: versions by record
    selected,    \* selectedRowIds
    allMode,     \* selectAllFilteredMode
    asking,      \* the rows the request of "select all" under way asks for
    answered,    \* what the last "select all" brought (observation only)
    bulk,        \* the bulk request under way, and the page it was sent from
                 \* (observation only)
    failedDelete \* the records of a failed deletion whose toast offers a retry

selVars == <<db, filtered, listed, selected, allMode, asking, answered, bulk, failedDelete>>

Gone == -1
NoAsk == -1
NoBulk == [kind |-> "none", ids |-> {}, versions |-> <<>>, page |-> <<>>]
Living(S) == {i \in S : db[i] # Gone}
listTotal == Cardinality(Living(filtered))

SelTypeOK ==
    /\ db \in [Rows -> Gone..MaxVersion]
    /\ filtered \subseteq Rows
    /\ DOMAIN listed \subseteq Rows /\ Cardinality(DOMAIN listed) <= PageSize
    /\ {selected, answered, bulk.ids, failedDelete} \subseteq SUBSET Rows
    /\ allMode \in BOOLEAN
    /\ asking \in NoAsk..Cardinality(Rows)
    /\ bulk.kind \in {"none", "status", "edit", "delete"}

\* A page of the records that satisfy the filter, as the server has them now.
Pages(S) == {[i \in P |-> db[i]] : P \in {Q \in SUBSET Living(S) :
                Cardinality(Q) = Min({PageSize, Cardinality(Living(S))})}}

SelInit ==
    /\ db = [i \in Rows |-> 0]
    /\ filtered = Rows
    /\ listed \in Pages(Rows)
    /\ selected = {} /\ allMode = FALSE /\ asking = NoAsk /\ answered = {}
    /\ bulk = NoBulk /\ failedDelete = {}

-----------------------------------------------------------------------------
(* Selecting *)

\* onSelectionChange of the table.
Select(ids) ==
    /\ Act("selection")
    /\ selected' = ids
    /\ allMode' = FALSE
    /\ UNCHANGED <<db, filtered, listed, asking, answered, bulk, failedDelete>>

ToggleRow ==
    \E i \in DOMAIN listed : Select(IF i \in selected THEN selected \ {i} ELSE selected \cup {i})

\* The checkbox of the header: the rows of this page, those of others stay.
TogglePage ==
    /\ listed # <<>>
    /\ Select(IF DOMAIN listed \subseteq selected
              THEN selected \ DOMAIN listed ELSE selected \cup DOMAIN listed)

\* The banner over a fully selected page.
handleSelectAllFiltered ==
    /\ Act("selection")
    /\ listed # <<>> /\ DOMAIN listed \subseteq selected
    /\ Cardinality(DOMAIN listed) < listTotal /\ Cardinality(selected) < listTotal
    /\ asking' = listTotal
    /\ UNCHANGED <<db, filtered, listed, selected, allMode, answered, bulk, failedDelete>>

\* ParsePagination of the server: a limit above the largest counts for none.
ParsePagination(limit) == IF limit \in 1..MaxLimit THEN limit ELSE DefaultLimit

\* The request carries the search text but not the conditions, so it answers rows
\* of all records; it may fail, and it may arrive after any other change.
AnswerSelectAll ==
    /\ asking # NoAsk
    /\ asking' = NoAsk
    /\ \/ \E S \in SUBSET Living(Rows) :
            /\ Cardinality(S) = Min({ParsePagination(asking), Cardinality(Living(Rows))})
            /\ selected' = S /\ answered' = S /\ allMode' = TRUE
       \/ UNCHANGED <<selected, answered, allMode>>
    /\ UNCHANGED <<acts, db, filtered, listed, bulk, failedDelete>>

\* The button of the bulk toolbar, which leaves the mode.
ClearSelection ==
    /\ Act("selection")
    /\ selected # {} /\ selected' = {}
    /\ UNCHANGED <<db, filtered, listed, allMode, asking, answered, bulk, failedDelete>>

-----------------------------------------------------------------------------
(* Bulk operations *)

\* Mutant: a bulk edit sends no versions.
noVersions(ids) == <<>>

\* Only the rows of this page have a version to send.
getRowVersions(ids) == [i \in ids \cap DOMAIN listed |-> listed[i]]

SendBulk(kind, ids, versions) ==
    /\ Act("selection")
    /\ bulk = NoBulk /\ ids # {}
    /\ bulk' = [kind |-> kind, ids |-> ids, versions |-> versions, page |-> listed]
    /\ UNCHANGED <<db, filtered, listed, selected, allMode, asking, answered>>

handleBulkStatusChange == SendBulk("status", selected, getRowVersions(selected)) /\ UNCHANGED failedDelete

\* BulkEditPanel: one field, one value.
handleBulkEdit == SendBulk("edit", selected, getRowVersions(selected)) /\ UNCHANGED failedDelete

handleBulkDelete == SendBulk("delete", selected, <<>>) /\ UNCHANGED failedDelete

\* The button of the error toast repeats the deletion with the rows of that time.
RetryDelete == failedDelete # {} /\ SendBulk("delete", failedDelete, <<>>) /\ failedDelete' = {}

Conflicts == \E i \in DOMAIN bulk.versions : bulk.versions[i] # db[i]

\* The request is accepted; the selection is emptied, also of rows that were
\* added while it was under way.
BulkSucceeds ==
    /\ bulk # NoBulk
    /\ IF bulk.kind = "delete"
       THEN db' = [i \in Rows |-> IF i \in bulk.ids THEN Gone ELSE db[i]]
       ELSE /\ ~Conflicts
            /\ \A i \in bulk.ids : db[i] \notin {Gone, MaxVersion}
            /\ db' = [i \in Rows |-> IF i \in bulk.ids THEN db[i] + 1 ELSE db[i]]
    /\ bulk' = NoBulk
    /\ selected' = {}
    /\ UNCHANGED <<acts, filtered, listed, allMode, asking, answered, failedDelete>>

\* 409, another error or no answer: nothing is written, the selection stays.
BulkFails ==
    /\ bulk # NoBulk
    /\ bulk' = NoBulk
    /\ failedDelete' = IF bulk.kind = "delete" THEN bulk.ids ELSE failedDelete
    /\ UNCHANGED <<acts, db, filtered, listed, selected, allMode, asking, answered>>

-----------------------------------------------------------------------------
\* Another filter, page or sort, or a refetch: the selection stays.
Relist ==
    /\ Act("selection")
    /\ filtered' \in SUBSET Rows
    /\ listed' \in Pages(filtered')
    /\ UNCHANGED <<db, selected, allMode, asking, answered, bulk, failedDelete>>

\* Somebody else writes or deletes a record.
OtherWrites ==
    /\ \E i \in Living(Rows) :
        \/ db[i] < MaxVersion /\ db' = [db EXCEPT ![i] = @ + 1]
        \/ db' = [db EXCEPT ![i] = Gone]
    /\ UNCHANGED <<acts, filtered, listed, selected, allMode, asking, answered, bulk, failedDelete>>

SelNext ==
    \/ ToggleRow \/ TogglePage \/ handleSelectAllFiltered \/ AnswerSelectAll \/ ClearSelection
    \/ handleBulkStatusChange \/ handleBulkEdit \/ handleBulkDelete \/ RetryDelete
    \/ BulkSucceeds \/ BulkFails \/ Relist \/ OtherWrites

-----------------------------------------------------------------------------
\* Rows shown as selected by "select all" are those its last answer brought, although
\* the answer may come late and clearing the selection leaves the mode on.  Not covered,
\* and not so in the code: that the answer is all of the rows.
AllModeIsAnAnswer == allMode /\ selected # {} => selected = answered

\* A bulk edit or status change does not overwrite what somebody else wrote after
\* the page was read.  Not covered: rows selected on other pages, whose version
\* the page does not know.
BulkKeepsOthersWrites ==
    [][bulk.kind \in {"status", "edit"} /\ bulk' = NoBulk /\ db' # db =>
        \A i \in bulk.ids \cap DOMAIN bulk.page : db[i] = bulk.page[i]]_selVars
=============================================================================
