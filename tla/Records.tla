------------------------------ MODULE Records -------------------------------
(***************************************************************************)
(* The writing handlers of the dynamic record API (backend/internal/        *)
(* handler/dynamic.go) on the records of one collection: Create, Update,    *)
(* Delete, BulkCreate, BulkDelete and BatchUpdate, with optimistic locking  *)
(* by _version, the process's status transitions, the links of one M:N      *)
(* field, the change history and the events given to the bus.               *)
(*                                                                         *)
(* Update is a sequence of statements on the connection pool, each its own  *)
(* transaction; requests of other clients run between any two of them.      *)
(* BatchUpdate is one transaction of several UPDATEs: each takes the lock   *)
(* of its row and keeps it until the commit.  The other handlers write with *)
(* one statement or one short transaction.                                  *)
(***************************************************************************)
EXTENDS Integers, Sequences, FiniteSets

CONSTANTS
    Clients,       \* users with a page open
    RecordIds,     \* primary keys gen_random_uuid() may issue
    Values,        \* values of the collection's data field
    Statuses,      \* status names of the process
    InitialStatus, \* its initial status
    Transitions,   \* <<from, to>> pairs its callers may take
    Edits,         \* <<from, to>> pairs a select field allows, {} if it has none
    Targets,       \* records an M:N link may point to
    Keep,          \* attribute left out of a request
    Absent,        \* no such row, no value
    Ops,           \* handlers the clients call
    Versioned,     \* whether requests carry _version: a subset of BOOLEAN
    MaxVersion,    \* bound: rows at this version are not loaded any more
    MaxBatch,      \* bound on the updates of a batch
    MaxFaults      \* bound on failing statements and restarts

\* A row of the data table: the data field and the columns CREATE TABLE adds.
Row == [val : Values, ver : Nat, status : Statuses, deleted : BOOLEAN]

Handlers == {"create", "update", "delete", "bulk_create", "bulk_delete", "batch_update"}

ASSUME RecordsAssumption ==
    /\ Ops \subseteq Handlers
    /\ InitialStatus \in Statuses
    /\ Transitions \subseteq Statuses \X Statuses
    /\ Edits \subseteq Values \X Values
    /\ Keep \notin Values \cup Statuses /\ Absent \notin Row
    /\ \A ids \in SUBSET Targets : ids # Keep
    /\ Versioned \subseteq BOOLEAN
    /\ MaxVersion \in Nat /\ MaxBatch \in Nat /\ MaxFaults \in Nat

VARIABLES
    rows,       \* the data table
    links,      \* the junction table of the M:N field
    history,    \* _history.record_changes, per record
    published,  \* types of the events published for a record
    form,       \* the row a client loaded and is editing
    req,        \* what each client's request is about to do
    faults      \* faults so far

vars == <<rows, links, history, published, form, req, faults>>

Entry == [op : {"create", "update", "delete"}, val : Values \cup {Absent}]
EventTypes == {"record_created", "record_updated", "record_deleted", "state_change"}

Live(id) == rows[id] # Absent /\ ~rows[id].deleted
NewIds == {id \in RecordIds : rows[id] = Absent}

(***************************************************************************)
(* Requests.                                                               *)
(***************************************************************************)
Idle == [phase |-> "idle"]
Fetch(call) == [phase |-> "fetch", call |-> call]
Check(call, old) == [phase |-> "check", call |-> call, old |-> old]
Write(call, old) == [phase |-> "write", call |-> call, old |-> old]
Unlink(id, ids, then) == [phase |-> "unlink", id |-> id, ids |-> ids, then |-> then]
Link(id, ids, then) == [phase |-> "link", id |-> id, ids |-> ids, then |-> then]
Batch(updates, at, pending) ==
    [phase |-> "batch", updates |-> updates, at |-> at, pending |-> pending]

\* History rows still to be written, then events to be published.
Announce(entries, events) ==
    [phase |-> "announce", entries |-> entries, events |-> events]

Goto(c, r) == req' = [req EXCEPT ![c] = r]
At(c, phase) == req[c].phase = phase
Called(c, op) == op \in Ops /\ At(c, "idle")

(***************************************************************************)
(* Row locks.  A batch holds the rows it has updated and not committed;     *)
(* every other UPDATE of them waits.                                        *)
(***************************************************************************)
Holds(c, id) == At(c, "batch") /\ req[c].pending[id] # Absent

Unlocked(id, c) == \A d \in Clients \ {c} : ~Holds(d, id)

\* The row an UPDATE meets: WHERE id = $id AND deleted_at IS NULL and, when
\* the request carries one, AND _version = $version.
\* Mutant: the version is ignored.
MatchesAnyVersion(row, u) == row # Absent /\ ~row.deleted /\ u.id \in RecordIds

Matches(row, u) ==
    /\ row # Absent
    /\ ~row.deleted
    /\ u.versioned => row.ver = u.base.ver

\* Mutant: the version stays.
SetValueOnly(row, val, status) ==
    [row EXCEPT !.val = IF val = Keep THEN @ ELSE val,
                !.status = IF status = Keep THEN @ ELSE status]

\* SET ..., _version = _version + 1.
Set(row, val, status) ==
    [val     |-> IF val = Keep THEN row.val ELSE val,
     ver     |-> row.ver + 1,
     status  |-> IF status = Keep THEN row.status ELSE status,
     deleted |-> row.deleted]

\* A page loads a record (GET) and shows it in a form.
Load(c) ==
    /\ At(c, "idle")
    /\ \E id \in RecordIds :
         /\ Live(id)
         /\ rows[id].ver < MaxVersion
         /\ form' = [form EXCEPT ![c][id] = rows[id]]
    /\ UNCHANGED <<rows, links, history, published, req, faults>>

Loaded(c) == {id \in RecordIds : form[c][id] # Absent}

(***************************************************************************)
(* Create and BulkCreate: the rows and their links in one transaction.      *)
(* BulkCreate drops links, history and events.                              *)
(***************************************************************************)
\* Mutant: the initial status is not injected.
NewRowWithoutStatus(v) == [val |-> v, ver |-> 1, status |-> Absent, deleted |-> FALSE]

NewRow(v) == [val |-> v, ver |-> 1, status |-> InitialStatus, deleted |-> FALSE]

Create(c) ==
    /\ Called(c, "create")
    /\ \E id \in NewIds, v \in Values, ids \in SUBSET Targets :
         /\ rows' = [rows EXCEPT ![id] = NewRow(v)]
         /\ links' = [links EXCEPT ![id] = ids]
         /\ Goto(c, Announce({<<id, [op |-> "create", val |-> v]>>},
                             {<<id, "record_created">>}))
    /\ UNCHANGED <<history, published, form, faults>>

BulkCreate(c) ==
    /\ Called(c, "bulk_create")
    /\ \E S \in SUBSET NewIds \ {{}}, v \in Values :
         rows' = [id \in RecordIds |-> IF id \in S THEN NewRow(v) ELSE rows[id]]
    /\ UNCHANGED <<links, history, published, form, req, faults>>

(***************************************************************************)
(* Update.                                                                 *)
(***************************************************************************)
BeginUpdate(c) ==
    /\ Called(c, "update")
    /\ \E id \in Loaded(c), versioned \in Versioned, v \in Values \cup {Keep},
          s \in Statuses \cup {Keep}, ids \in {Keep} \cup SUBSET Targets :
         /\ Goto(c, Fetch([id |-> id, base |-> form[c][id], versioned |-> versioned,
                           val |-> v, status |-> s, links |-> ids]))
         /\ form' = [form EXCEPT ![c][id] = Absent]
    /\ UNCHANGED <<rows, links, history, published, faults>>

\* fetchRow's column list has no _status: buildSelectCols(fields, false, ...).
FetchRow(id) == [val |-> rows[id].val, status |-> Absent]

\* checkTransitions on the fetched row.
EditAllowed(old, v) ==
    v \in {Keep, old.val} \/ Edits = {} \/ <<old.val, v>> \in Edits

FetchOld(c) ==
    /\ At(c, "fetch")
    /\ LET k == req[c].call IN
         IF Live(k.id) /\ EditAllowed(FetchRow(k.id), k.val)
         THEN Goto(c, IF k.status = Keep THEN Write(k, FetchRow(k.id))
                                         ELSE Check(k, FetchRow(k.id)))
         ELSE Goto(c, Idle)
    /\ UNCHANGED <<rows, links, history, published, form, faults>>

\* SELECT _status, then validateStatusTransition.
CheckStatus(c) ==
    /\ At(c, "check")
    /\ LET k == req[c].call IN
         IF Live(k.id) /\ <<rows[k.id].status, k.status>> \in Transitions
         THEN Goto(c, Write(k, req[c].old))
         ELSE Goto(c, Idle)
    /\ UNCHANGED <<rows, links, history, published, form, faults>>

\* computeDiff and the status comparison, on the fetched row and on what the
\* UPDATE returned.
UpdateEntries(id, old, new) ==
    IF old.val = new.val THEN {} ELSE {<<id, [op |-> "update", val |-> new.val]>>}
UpdateEvents(id, old, new) ==
    {<<id, "record_updated">>}
      \cup (IF old.status \notin {Absent, new.status} THEN {<<id, "state_change">>}
            ELSE {})

WriteRow(c) ==
    /\ At(c, "write")
    /\ LET k   == req[c].call
           new == Set(rows[k.id], k.val, k.status)
       IN  /\ Unlocked(k.id, c)
           /\ IF Matches(rows[k.id], k)
              THEN /\ rows' = [rows EXCEPT ![k.id] = new]
                   /\ LET after == Announce(UpdateEntries(k.id, req[c].old, new),
                                            UpdateEvents(k.id, req[c].old, new))
                      IN  Goto(c, IF k.links = Keep THEN after
                                  ELSE Unlink(k.id, k.links, after))
              ELSE /\ Goto(c, Idle)
                   /\ UNCHANGED rows
    /\ UNCHANGED <<links, history, published, form, faults>>

\* syncM2MLinks on the pool: DELETE, then INSERT ... ON CONFLICT DO NOTHING.
DeleteLinks(c) ==
    /\ At(c, "unlink")
    /\ links' = [links EXCEPT ![req[c].id] = {}]
    /\ Goto(c, IF req[c].ids = {} THEN req[c].then
               ELSE Link(req[c].id, req[c].ids, req[c].then))
    /\ UNCHANGED <<rows, history, published, form, faults>>

InsertLinks(c) ==
    /\ At(c, "link")
    /\ links' = [links EXCEPT ![req[c].id] = @ \cup req[c].ids]
    /\ Goto(c, req[c].then)
    /\ UNCHANGED <<rows, history, published, form, faults>>

(***************************************************************************)
(* BatchUpdate: one transaction, one UPDATE after the other.                *)
(***************************************************************************)
BatchItem(c) ==
    [id : Loaded(c), versioned : Versioned, val : Values \cup {Keep}]

BeginBatch(c) ==
    /\ Called(c, "batch_update")
    /\ \E n \in 1..MaxBatch : \E items \in [1..n -> BatchItem(c)] :
         /\ Goto(c, Batch([i \in 1..n |->
                             [id |-> items[i].id, base |-> form[c][items[i].id],
                              versioned |-> items[i].versioned, val |-> items[i].val]],
                          1, [id \in RecordIds |-> Absent]))
         /\ form' = [form EXCEPT ![c] =
                        [id \in RecordIds |->
                            IF \E i \in 1..n : items[i].id = id THEN Absent ELSE @[id]]]
    /\ UNCHANGED <<rows, links, history, published, faults>>

\* What the transaction sees: its own writes over the committed rows.
Seen(c, id) ==
    IF req[c].pending[id] # Absent THEN req[c].pending[id] ELSE rows[id]
NextItem(c) == req[c].updates[req[c].at]
InBatch(c) == At(c, "batch") /\ req[c].at <= Len(req[c].updates)

\* Mutant: the transaction stays open after the 409.
KeepTransaction(c) == c \in Clients /\ UNCHANGED req

\* 409: the deferred Rollback ends the transaction.
Conflict(c) == Goto(c, Idle)

BatchStep(c) ==
    /\ InBatch(c)
    /\ LET u    == NextItem(c)
           seen == Seen(c, u.id)
           r    == req[c]
           skip == Goto(c, Batch(r.updates, r.at + 1, r.pending))
       IN  IF u.val = Keep THEN skip
           ELSE /\ Unlocked(u.id, c)
                /\ IF Matches(seen, u)
                   THEN Goto(c, Batch(r.updates, r.at + 1,
                                      [r.pending EXCEPT ![u.id] = Set(seen, u.val, Keep)]))
                   ELSE IF u.versioned THEN Conflict(c) ELSE skip
    /\ UNCHANGED <<rows, links, history, published, form, faults>>

\* Mutant: nothing is recorded after the commit.
NoBatchEntries(updates, pending) ==
    {u \in {updates[i] : i \in 1..Len(updates)} : pending[u.id] \notin Row \cup {Absent}}

\* One change per UPDATE that met its row.
BatchEntries(updates, pending) ==
    {<<u.id, [op |-> "update", val |-> u.val]>>
        : u \in {updates[i] : i \in {j \in 1..Len(updates) :
                    updates[j].val # Keep /\ pending[updates[j].id] # Absent}}}

BatchCommit(c) ==
    /\ At(c, "batch")
    /\ req[c].at > Len(req[c].updates)
    /\ rows' = [id \in RecordIds |-> Seen(c, id)]
    /\ Goto(c, Announce(BatchEntries(req[c].updates, req[c].pending), {}))
    /\ UNCHANGED <<links, history, published, form, faults>>

\* d holds the row c's next UPDATE wants.
Waits(c, d) ==
    /\ InBatch(c) /\ c # d
    /\ NextItem(c).val # Keep
    /\ Holds(d, NextItem(c).id)

\* PostgreSQL's deadlock detector aborts one transaction of a cycle of waits.
Deadlocked(c) ==
    \E S \in SUBSET Clients :
        /\ c \in S
        /\ \A d \in S : (\E e \in S : Waits(d, e)) /\ (\E e \in S : Waits(e, d))

DeadlockAborts(c) ==
    /\ Deadlocked(c)
    /\ Goto(c, Idle)
    /\ UNCHANGED <<rows, links, history, published, form, faults>>

(***************************************************************************)
(* Delete and BulkDelete set deleted_at; neither looks at nor changes the   *)
(* version.  BulkDelete leaves no history and publishes nothing.            *)
(***************************************************************************)
MarkDeleted(S) ==
    rows' = [id \in RecordIds |->
                IF id \in S /\ Live(id) THEN [rows[id] EXCEPT !.deleted = TRUE]
                ELSE rows[id]]

Delete(c) ==
    /\ Called(c, "delete")
    /\ \E id \in RecordIds :
         /\ Live(id)
         /\ Unlocked(id, c)
         /\ MarkDeleted({id})
         /\ Goto(c, Announce({<<id, [op |-> "delete", val |-> Absent]>>},
                             {<<id, "record_deleted">>}))
    /\ UNCHANGED <<links, history, published, form, faults>>

BulkDelete(c) ==
    /\ Called(c, "bulk_delete")
    /\ \E S \in SUBSET RecordIds \ {{}} :
         /\ \A id \in S : Unlocked(id, c)
         /\ MarkDeleted(S)
    /\ UNCHANGED <<links, history, published, form, req, faults>>

(***************************************************************************)
(* After the commit: recordChange for each change, then bus.Publish.        *)
(***************************************************************************)
RecordChange(c) ==
    /\ At(c, "announce")
    /\ \E e \in req[c].entries :
         /\ history' = [history EXCEPT ![e[1]] = @ \cup {e[2]}]
         /\ Goto(c, Announce(req[c].entries \ {e}, req[c].events))
    /\ UNCHANGED <<rows, links, published, form, faults>>

Publish(c) ==
    /\ At(c, "announce")
    /\ req[c].entries = {}
    /\ published' = [id \in RecordIds |->
                        published[id] \cup {t \in EventTypes : <<id, t>> \in req[c].events}]
    /\ Goto(c, Idle)
    /\ UNCHANGED <<rows, links, history, form, faults>>

(***************************************************************************)
(* Faults.                                                                 *)
(***************************************************************************)
\* A statement fails (the database is away, or the client has gone and the
\* request context is cancelled): the handler returns an error.
RequestFails(c) ==
    /\ faults < MaxFaults
    /\ req[c].phase \in {"fetch", "check", "write", "unlink", "link", "batch"}
    /\ faults' = faults + 1
    /\ Goto(c, Idle)
    /\ UNCHANGED <<rows, links, history, published, form>>

\* recordChange only logs its error.
RecordChangeFails(c) ==
    /\ faults < MaxFaults
    /\ At(c, "announce")
    /\ \E e \in req[c].entries :
         Goto(c, Announce(req[c].entries \ {e}, req[c].events))
    /\ faults' = faults + 1
    /\ UNCHANGED <<rows, links, history, published, form>>

\* The server dies: its requests end and their transactions are rolled back.
Restart ==
    /\ faults < MaxFaults
    /\ faults' = faults + 1
    /\ req' = [c \in Clients |-> Idle]
    /\ UNCHANGED <<rows, links, history, published, form>>

Init ==
    /\ rows = [id \in RecordIds |-> Absent]
    /\ links = [id \in RecordIds |-> {}]
    /\ history = [id \in RecordIds |-> {}]
    /\ published = [id \in RecordIds |-> {}]
    /\ form = [c \in Clients |-> [id \in RecordIds |-> Absent]]
    /\ req = [c \in Clients |-> Idle]
    /\ faults = 0

UpdateSteps(c) ==
    \/ BeginUpdate(c)
    \/ FetchOld(c)
    \/ CheckStatus(c)
    \/ WriteRow(c)
    \/ DeleteLinks(c)
    \/ InsertLinks(c)

BatchSteps(c) ==
    \/ BeginBatch(c)
    \/ BatchStep(c)
    \/ BatchCommit(c)
    \/ DeadlockAborts(c)

OtherSteps(c) ==
    \/ Load(c)
    \/ Create(c)
    \/ BulkCreate(c)
    \/ Delete(c)
    \/ BulkDelete(c)
    \/ RecordChange(c)
    \/ Publish(c)

Faulty(c) == RequestFails(c) \/ RecordChangeFails(c)

Next ==
    \/ \E c \in Clients : UpdateSteps(c)
    \/ \E c \in Clients : BatchSteps(c)
    \/ \E c \in Clients : OtherSteps(c)
    \/ \E c \in Clients : Faulty(c)
    \/ Restart

\* A handler goroutine runs on, PostgreSQL queues the waiters of a row lock in
\* order (hence SF for a step that waits) and its deadlock detector acts.
Fairness ==
    \A c \in Clients :
        /\ SF_vars(BatchStep(c))
        /\ WF_vars(BatchCommit(c))
        /\ WF_vars(DeadlockAborts(c))

Spec == Init /\ [][Next]_vars /\ Fairness

(***************************************************************************)
(* Types.                                                                  *)
(***************************************************************************)
UpdateCall ==
    [id : RecordIds, base : Row, versioned : BOOLEAN, val : Values \cup {Keep},
     status : Statuses \cup {Keep}, links : {Keep} \cup SUBSET Targets]
OldRow == [val : Values, status : {Absent}]
BatchUpdateItem ==
    [id : RecordIds, base : Row, versioned : BOOLEAN, val : Values \cup {Keep}]
Announcement ==
    [phase : {"announce"}, entries : SUBSET (RecordIds \X Entry),
     events : SUBSET (RecordIds \X EventTypes)]
BatchRequest ==
    [phase : {"batch"}, updates : Seq(BatchUpdateItem), at : Nat \ {0},
     pending : [RecordIds -> Row \cup {Absent}]]

Request ==
    {Idle}
      \cup [phase : {"fetch"}, call : UpdateCall]
      \cup [phase : {"check", "write"}, call : UpdateCall, old : OldRow]
      \cup [phase : {"unlink", "link"}, id : RecordIds, ids : SUBSET Targets,
            then : Announcement]
      \cup BatchRequest
      \cup Announcement

\* Type invariant of the table, the junction table, the history, the events
\* and the requests under way.
TypeOK ==
    /\ rows \in [RecordIds -> Row \cup {Absent}]
    /\ links \in [RecordIds -> SUBSET Targets]
    /\ history \in [RecordIds -> SUBSET Entry]
    /\ published \in [RecordIds -> SUBSET EventTypes]
    /\ form \in [Clients -> [RecordIds -> Row \cup {Absent}]]
    /\ req \in [Clients -> Request]
    /\ faults \in Nat

(***************************************************************************)
(* Safety and liveness.                                                    *)
(***************************************************************************)
Writes(c) == At(c, "write") /\ rows' # rows /\ req'[c] # req[c]
Commits(c) == At(c, "batch") /\ rows' # rows /\ req'[c] # req[c]

\* Optimistic locking (Update, BatchUpdate): a request that carries the
\* _version of the row its user loaded replaces exactly that row, and never a
\* change somebody else made since, whatever runs between its statements.
NoLostUpdate ==
    [][\A c \in Clients :
        /\ Writes(c) /\ req[c].call.versioned
             => rows[req[c].call.id] = req[c].call.base
        /\ Commits(c) => \A i \in 1..Len(req[c].updates) :
             LET u == req[c].updates[i] IN
             u.versioned /\ u.val # Keep => rows[u.id] = u.base]_vars

\* What the UPDATE of a request replaces and what it puts there.
StatusMoves(c) ==
    LET from == rows[req[c].call.id].status
        to   == rows'[req[c].call.id].status
    IN  from # to => <<from, to>> \in Transitions
ValueMoves(c) ==
    LET from == rows[req[c].call.id].val
        to   == rows'[req[c].call.id].val
    IN  from # to /\ Edits # {} => <<from, to>> \in Edits

\* Process transitions (Update, validateStatusTransition and checkTransitions):
\* although status and row are read by separate statements before the UPDATE,
\* and requests with and without _version run between them, the change made by
\* a request that carries it is an allowed transition of what it replaces.
TransitionsRespected ==
    [][\A c \in Clients :
        Writes(c) /\ req[c].call.versioned => StatusMoves(c) /\ ValueMoves(c)]_vars

\* computeDiff: the old value the history and the event report for a request
\* that carries _version is the value the UPDATE replaced, although it was
\* fetched two statements earlier.
DiffExact ==
    [][\A c \in Clients :
        Writes(c) /\ req[c].call.versioned
            => req[c].old.val = rows[req[c].call.id].val]_vars

Quiescent == \A c \in Clients : At(c, "idle")
Changes(id) == {e.val : e \in history[id]}

\* The change history (recordChange "is called after successful Create, Update,
\* and Delete operations"): when no request is under way and nothing failed,
\* the history of a record whose creation it holds also holds the value the
\* record now has, and its deletion if a Delete was announced.
HistoryComplete ==
    Quiescent /\ faults = 0 => \A id \in RecordIds :
        "record_created" \in published[id] =>
            /\ rows[id].val \in Changes(id)
            /\ "record_deleted" \in published[id] => Absent \in Changes(id)

\* Every batch ends: no order of row locks, conflicts and aborts leaves its
\* transaction open (BatchUpdate locks rows in the order of the request).
BatchEnds == \A c \in Clients : At(c, "batch") ~> ~At(c, "batch")

\* Update "publishes EventRecordUpdate (plus a separate EventStateChange if
\* the status changed)": when nothing failed, a record that left its initial
\* status has had a state change event.
StateChangePublished ==
    Quiescent /\ faults = 0 => \A id \in RecordIds :
        Live(id) /\ rows[id].status # InitialStatus => "state_change" \in published[id]
=============================================================================
