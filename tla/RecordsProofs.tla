---------------------------- MODULE RecordsProofs ----------------------------
(***************************************************************************)
(* Theorems about the record handlers, for any sets of clients, records,    *)
(* values and statuses, any batch size and any number of faults.            *)
(***************************************************************************)
EXTENDS Records, TLAPS

(***************************************************************************)
(* Requests: what a request in a given phase carries, and what may be       *)
(* stored as a request.                                                     *)
(***************************************************************************)
\* The locals of a handler between two of its statements.
LEMMA Locals ==
    ASSUME NEW r \in Request
    PROVE  /\ r.phase \in {"fetch", "check", "write"} => r.call \in UpdateCall
           /\ r.phase \in {"check", "write"} => r.old \in OldRow
           /\ r.phase \in {"unlink", "link"} =>
                r.id \in RecordIds /\ r.ids \in SUBSET Targets /\ r.then \in Announcement
           /\ r.phase = "batch" =>
                /\ r.updates \in Seq(BatchUpdateItem)
                /\ r.at \in Nat \ {0}
                /\ r.pending \in [RecordIds -> Row \cup {Absent}]
           /\ r.phase = "announce" =>
                /\ r.entries \in SUBSET (RecordIds \X Entry)
                /\ r.events \in SUBSET (RecordIds \X EventTypes)
  BY DEF Request, Idle, BatchRequest, Announcement

\* The requests the handlers move to.
LEMMA NextRequests ==
    /\ Idle \in Request
    /\ \A k \in UpdateCall : Fetch(k) \in Request
    /\ \A k \in UpdateCall, old \in OldRow :
         Check(k, old) \in Request /\ Write(k, old) \in Request
    /\ \A id \in RecordIds, ids \in SUBSET Targets, then \in Announcement :
         Unlink(id, ids, then) \in Request /\ Link(id, ids, then) \in Request
    /\ \A us \in Seq(BatchUpdateItem), n \in Nat \ {0},
          p \in [RecordIds -> Row \cup {Absent}] : Batch(us, n, p) \in Request
    /\ \A es \in SUBSET (RecordIds \X Entry), evs \in SUBSET (RecordIds \X EventTypes) :
         Announce(es, evs) \in Announcement
    /\ Announcement \subseteq Request
  BY DEF Request, Idle, Fetch, Check, Write, Unlink, Link, Batch, Announce,
         BatchRequest, Announcement

\* A client's new request keeps the table of requests well typed.
LEMMA GotoType ==
    ASSUME req \in [Clients -> Request], NEW c \in Clients, NEW r \in Request,
           Goto(c, r)
    PROVE  req' \in [Clients -> Request]
  BY DEF Goto

\* An UPDATE's new row is a row, one version up.
LEMMA SetRow ==
    ASSUME NEW row \in Row, NEW v \in Values \cup {Keep}, NEW s \in Statuses \cup {Keep}
    PROVE  /\ Set(row, v, s) \in Row
           /\ Set(row, v, s).ver = row.ver + 1
           /\ Set(row, v, s).deleted = row.deleted
           /\ v = Keep => Set(row, v, s).val = row.val
           /\ v # Keep => Set(row, v, s).val = v
           /\ s = Keep => Set(row, v, s).status = row.status
           /\ s # Keep => Set(row, v, s).status = s
  BY DEF Set, Row

\* A row the table has is a row.
LEMMA RowType ==
    ASSUME rows \in [RecordIds -> Row \cup {Absent}], NEW id \in RecordIds,
           rows[id] # Absent
    PROVE  rows[id] \in Row
  OBVIOUS

\* The keys Keep and Absent are no values and no statuses.
LEMMA Keys == Keep \notin Values /\ Keep \notin Statuses /\ Absent \notin Row
  BY RecordsAssumption

(***************************************************************************)
(* Type correctness.                                                       *)
(***************************************************************************)
LEMMA UpdateType ==
    ASSUME TypeOK, NEW c \in Clients, UpdateSteps(c)
    PROVE  TypeOK'
  <1> USE DEF TypeOK
  <1>1. CASE BeginUpdate(c)
    <2>1. PICK id \in Loaded(c), versioned \in Versioned, v \in Values \cup {Keep},
               s \in Statuses \cup {Keep}, ids \in {Keep} \cup SUBSET Targets :
            /\ Goto(c, Fetch([id |-> id, base |-> form[c][id], versioned |-> versioned,
                              val |-> v, status |-> s, links |-> ids]))
            /\ form' = [form EXCEPT ![c][id] = Absent]
      BY <1>1 DEF BeginUpdate
    <2>2. id \in RecordIds /\ form[c][id] \in Row /\ versioned \in BOOLEAN
      BY RecordsAssumption DEF Loaded
    <2>3. [id |-> id, base |-> form[c][id], versioned |-> versioned,
           val |-> v, status |-> s, links |-> ids] \in UpdateCall
      BY <2>2 DEF UpdateCall
    <2>4. req' \in [Clients -> Request]
      BY <2>1, <2>3, NextRequests, GotoType
    <2>5. form' \in [Clients -> [RecordIds -> Row \cup {Absent}]]
      BY <2>1, <2>2
    <2> QED BY <1>1, <2>4, <2>5 DEF BeginUpdate
  <1>2. CASE FetchOld(c)
    <2>1. req[c].call \in UpdateCall
      BY <1>2, Locals DEF FetchOld, At
    <2>2. Live(req[c].call.id) => FetchRow(req[c].call.id) \in OldRow
      BY <2>1 DEF Live, FetchRow, OldRow, Row, UpdateCall
    <2>3. req' \in [Clients -> Request]
      BY <1>2, <2>1, <2>2, NextRequests, GotoType DEF FetchOld
    <2> QED BY <1>2, <2>3 DEF FetchOld
  <1>3. CASE CheckStatus(c)
    <2>1. req[c].call \in UpdateCall /\ req[c].old \in OldRow
      BY <1>3, Locals DEF CheckStatus, At
    <2>2. req' \in [Clients -> Request]
      BY <1>3, <2>1, NextRequests, GotoType DEF CheckStatus
    <2> QED BY <1>3, <2>2 DEF CheckStatus
  <1>4. CASE WriteRow(c)
    <2> DEFINE k == req[c].call
               new == Set(rows[k.id], k.val, k.status)
               after == Announce(UpdateEntries(k.id, req[c].old, new),
                                 UpdateEvents(k.id, req[c].old, new))
    <2>1. k \in UpdateCall /\ req[c].old \in OldRow
      BY <1>4, Locals DEF WriteRow, At
    <2>2. CASE Matches(rows[k.id], k)
      <3>1. k.id \in RecordIds /\ rows[k.id] \in Row
        BY <2>1, <2>2 DEF Matches, UpdateCall
      <3>2. new \in Row
        BY <2>1, <3>1, SetRow DEF UpdateCall
      <3>3. UpdateEntries(k.id, req[c].old, new) \in SUBSET (RecordIds \X Entry)
        BY <3>1, <3>2 DEF UpdateEntries, Entry, Row
      <3>4. UpdateEvents(k.id, req[c].old, new) \in SUBSET (RecordIds \X EventTypes)
        BY <3>1 DEF UpdateEvents, EventTypes
      <3>5. after \in Announcement
        BY <3>3, <3>4, NextRequests
      <3>6. rows' = [rows EXCEPT ![k.id] = new]
            /\ Goto(c, IF k.links = Keep THEN after ELSE Unlink(k.id, k.links, after))
        BY <1>4, <2>2 DEF WriteRow
      <3>7. (IF k.links = Keep THEN after ELSE Unlink(k.id, k.links, after)) \in Request
        BY <2>1, <3>1, <3>5, NextRequests DEF UpdateCall
      <3>8. req' \in [Clients -> Request]
        BY <3>6, <3>7, GotoType
      <3> QED BY <1>4, <3>1, <3>2, <3>6, <3>8 DEF WriteRow
    <2>3. CASE ~Matches(rows[k.id], k)
      <3>1. req' \in [Clients -> Request] /\ UNCHANGED rows
        BY <1>4, <2>3, NextRequests, GotoType DEF WriteRow
      <3> QED BY <1>4, <3>1 DEF WriteRow
    <2> QED BY <2>2, <2>3
  <1>5. CASE DeleteLinks(c)
    <2>1. /\ req[c].id \in RecordIds /\ req[c].ids \in SUBSET Targets
          /\ req[c].then \in Announcement
      BY <1>5, Locals DEF DeleteLinks, At
    <2>2. req' \in [Clients -> Request]
      BY <1>5, <2>1, NextRequests, GotoType DEF DeleteLinks
    <2> QED BY <1>5, <2>1, <2>2 DEF DeleteLinks
  <1>6. CASE InsertLinks(c)
    <2>1. /\ req[c].id \in RecordIds /\ req[c].ids \in SUBSET Targets
          /\ req[c].then \in Announcement
      BY <1>6, Locals DEF InsertLinks, At
    <2>2. req' \in [Clients -> Request]
      BY <1>6, <2>1, NextRequests, GotoType DEF InsertLinks
    <2> QED BY <1>6, <2>1, <2>2 DEF InsertLinks
  <1> QED
    BY <1>1, <1>2, <1>3, <1>4, <1>5, <1>6 DEF UpdateSteps

LEMMA BatchType ==
    ASSUME TypeOK, NEW c \in Clients, BatchSteps(c)
    PROVE  TypeOK'
  <1> USE DEF TypeOK
  <1>1. CASE BeginBatch(c)
    <2>1. PICK n \in 1..MaxBatch : \E items \in [1..n -> BatchItem(c)] :
            /\ Goto(c, Batch([i \in 1..n |->
                                [id |-> items[i].id, base |-> form[c][items[i].id],
                                 versioned |-> items[i].versioned, val |-> items[i].val]],
                             1, [id \in RecordIds |-> Absent]))
            /\ form' = [form EXCEPT ![c] =
                          [id \in RecordIds |->
                            IF \E i \in 1..n : items[i].id = id THEN Absent ELSE @[id]]]
      BY <1>1 DEF BeginBatch
    <2>2. PICK items \in [1..n -> BatchItem(c)] :
            /\ Goto(c, Batch([i \in 1..n |->
                                [id |-> items[i].id, base |-> form[c][items[i].id],
                                 versioned |-> items[i].versioned, val |-> items[i].val]],
                             1, [id \in RecordIds |-> Absent]))
            /\ form' = [form EXCEPT ![c] =
                          [id \in RecordIds |->
                            IF \E i \in 1..n : items[i].id = id THEN Absent ELSE @[id]]]
      BY <2>1
    <2> DEFINE us == [i \in 1..n |->
                        [id |-> items[i].id, base |-> form[c][items[i].id],
                         versioned |-> items[i].versioned, val |-> items[i].val]]
    <2>3. n \in Nat
      BY RecordsAssumption
    <2>4. \A i \in 1..n : us[i] \in BatchUpdateItem
      BY RecordsAssumption DEF BatchItem, BatchUpdateItem, Loaded
    <2>5. us \in Seq(BatchUpdateItem)
      BY <2>3, <2>4
    <2>6. req' \in [Clients -> Request]
      <3> DEFINE none == [id \in RecordIds |-> Absent]
      <3>1. none \in [RecordIds -> Row \cup {Absent}]
        OBVIOUS
      <3>2. Goto(c, Batch(us, 1, none))
        BY <2>2
      <3> HIDE DEF us, none
      <3>3. Batch(us, 1, none) \in Request
        BY <2>5, <3>1, NextRequests
      <3> QED BY <3>2, <3>3, GotoType
    <2>7. form' \in [Clients -> [RecordIds -> Row \cup {Absent}]]
      BY <2>2
    <2> QED BY <1>1, <2>6, <2>7 DEF BeginBatch
  <1>2. CASE BatchStep(c)
    <2> DEFINE u == NextItem(c)
               r == req[c]
    <2>1. /\ r.updates \in Seq(BatchUpdateItem) /\ r.at \in Nat \ {0}
          /\ r.pending \in [RecordIds -> Row \cup {Absent}]
          /\ r.at \in 1..Len(r.updates)
      BY <1>2, Locals DEF BatchStep, InBatch, At
    <2>2. u \in BatchUpdateItem
      BY <2>1 DEF NextItem
    <2>3. u.id \in RecordIds /\ u.val \in Values \cup {Keep}
      BY <2>2 DEF BatchUpdateItem
    <2>4. Matches(Seen(c, u.id), u) => Set(Seen(c, u.id), u.val, Keep) \in Row
      BY <2>1, <2>3, SetRow DEF Matches, Seen
    <2>5. Batch(r.updates, r.at + 1, r.pending) \in Request
      BY <2>1, NextRequests
    <2>6. Matches(Seen(c, u.id), u) =>
            Batch(r.updates, r.at + 1,
                  [r.pending EXCEPT ![u.id] = Set(Seen(c, u.id), u.val, Keep)]) \in Request
      <3> SUFFICES ASSUME Matches(Seen(c, u.id), u)
                   PROVE  Batch(r.updates, r.at + 1,
                                [r.pending EXCEPT ![u.id] = Set(Seen(c, u.id), u.val, Keep)])
                            \in Request
        OBVIOUS
      <3> DEFINE p == [r.pending EXCEPT ![u.id] = Set(Seen(c, u.id), u.val, Keep)]
      <3>1. p \in [RecordIds -> Row \cup {Absent}]
        BY <2>1, <2>3, <2>4
      <3>2. r.at + 1 \in Nat \ {0}
        BY <2>1
      <3> HIDE DEF p
      <3> QED BY <2>1, <3>1, <3>2, NextRequests DEF p
    <2>7. req' \in [Clients -> Request]
      BY <1>2, <2>5, <2>6, NextRequests, GotoType DEF BatchStep, Conflict
    <2> QED BY <1>2, <2>7 DEF BatchStep
  <1>3. CASE BatchCommit(c)
    <2>1. /\ req[c].pending \in [RecordIds -> Row \cup {Absent}]
          /\ \A i \in 1..Len(req[c].updates) : req[c].updates[i] \in BatchUpdateItem
      BY <1>3, Locals DEF BatchCommit, At
    <2>2. BatchEntries(req[c].updates, req[c].pending) \in SUBSET (RecordIds \X Entry)
      <3>1. \A u \in BatchUpdateItem : u.id \in RecordIds /\ u.val \in Values \cup {Keep}
        BY DEF BatchUpdateItem
      <3>2. \A u \in BatchUpdateItem : u.val # Keep =>
              <<u.id, [op |-> "update", val |-> u.val]>> \in RecordIds \X Entry
        BY <3>1 DEF Entry
      <3> QED BY <2>1, <3>2 DEF BatchEntries
    <2>3. Announce(BatchEntries(req[c].updates, req[c].pending), {}) \in Request
      BY <2>2, NextRequests
    <2>4. req' \in [Clients -> Request]
      BY <1>3, <2>3, GotoType DEF BatchCommit
    <2>5. rows' \in [RecordIds -> Row \cup {Absent}]
      BY <1>3, <2>1 DEF BatchCommit, Seen
    <2> QED BY <1>3, <2>4, <2>5 DEF BatchCommit
  <1>4. CASE DeadlockAborts(c)
    <2>1. req' \in [Clients -> Request]
      BY <1>4, NextRequests, GotoType DEF DeadlockAborts
    <2> QED BY <1>4, <2>1 DEF DeadlockAborts
  <1> QED BY <1>1, <1>2, <1>3, <1>4 DEF BatchSteps

LEMMA OtherType ==
    ASSUME TypeOK, NEW c \in Clients, OtherSteps(c)
    PROVE  TypeOK'
  <1> USE DEF TypeOK
  <1>1. CASE Load(c)
    BY <1>1 DEF Load, Live
  <1>2. CASE Create(c)
    <2>1. PICK id \in NewIds, v \in Values, ids \in SUBSET Targets :
            /\ rows' = [rows EXCEPT ![id] = NewRow(v)]
            /\ links' = [links EXCEPT ![id] = ids]
            /\ Goto(c, Announce({<<id, [op |-> "create", val |-> v]>>},
                                {<<id, "record_created">>}))
      BY <1>2 DEF Create
    <2>2. id \in RecordIds /\ NewRow(v) \in Row
      BY RecordsAssumption DEF NewIds, NewRow, Row
    <2>3. Announce({<<id, [op |-> "create", val |-> v]>>}, {<<id, "record_created">>})
            \in Request
      BY <2>2, NextRequests DEF Entry, EventTypes
    <2>4. req' \in [Clients -> Request]
      BY <2>1, <2>3, GotoType
    <2> QED BY <1>2, <2>1, <2>2, <2>4 DEF Create
  <1>3. CASE BulkCreate(c)
    <2>1. \A v \in Values : NewRow(v) \in Row
      BY RecordsAssumption DEF NewRow, Row
    <2> QED BY <1>3, <2>1 DEF BulkCreate
  <1>4. CASE Delete(c)
    <2>1. PICK id \in RecordIds :
            /\ MarkDeleted({id})
            /\ Goto(c, Announce({<<id, [op |-> "delete", val |-> Absent]>>},
                                {<<id, "record_deleted">>}))
      BY <1>4 DEF Delete
    <2>2. Announce({<<id, [op |-> "delete", val |-> Absent]>>}, {<<id, "record_deleted">>})
            \in Request
      BY NextRequests DEF Entry, EventTypes
    <2>3. req' \in [Clients -> Request]
      BY <2>1, <2>2, GotoType
    <2>4. rows' \in [RecordIds -> Row \cup {Absent}]
      BY <2>1 DEF MarkDeleted, Live, Row
    <2> QED BY <1>4, <2>3, <2>4 DEF Delete
  <1>5. CASE BulkDelete(c)
    <2>1. PICK S \in SUBSET RecordIds \ {{}} : MarkDeleted(S)
      BY <1>5 DEF BulkDelete
    <2>2. rows' \in [RecordIds -> Row \cup {Absent}]
      BY <2>1 DEF MarkDeleted, Live, Row
    <2> QED BY <1>5, <2>2 DEF BulkDelete
  <1>6. CASE RecordChange(c)
    <2>1. PICK e \in req[c].entries :
            /\ history' = [history EXCEPT ![e[1]] = @ \cup {e[2]}]
            /\ Goto(c, Announce(req[c].entries \ {e}, req[c].events))
      BY <1>6 DEF RecordChange
    <2>2. /\ req[c].entries \in SUBSET (RecordIds \X Entry)
          /\ req[c].events \in SUBSET (RecordIds \X EventTypes)
      BY <1>6, Locals DEF RecordChange, At
    <2>3. e[1] \in RecordIds /\ e[2] \in Entry
      BY <2>2
    <2>4. req' \in [Clients -> Request]
      BY <2>1, <2>2, NextRequests, GotoType
    <2> QED BY <1>6, <2>1, <2>3, <2>4 DEF RecordChange
  <1>7. CASE Publish(c)
    <2>1. req' \in [Clients -> Request]
      BY <1>7, NextRequests, GotoType DEF Publish
    <2> QED BY <1>7, <2>1 DEF Publish
  <1> QED
    BY <1>1, <1>2, <1>3, <1>4, <1>5, <1>6, <1>7 DEF OtherSteps

LEMMA FaultType ==
    ASSUME TypeOK, (\E c \in Clients : Faulty(c)) \/ Restart
    PROVE  TypeOK'
  <1> USE DEF TypeOK
  <1>1. ASSUME NEW c \in Clients, RequestFails(c) PROVE TypeOK'
    <2>1. req' \in [Clients -> Request]
      BY <1>1, NextRequests, GotoType DEF RequestFails
    <2> QED BY <1>1, <2>1 DEF RequestFails
  <1>2. ASSUME NEW c \in Clients, RecordChangeFails(c) PROVE TypeOK'
    <2>1. PICK e \in req[c].entries :
            Goto(c, Announce(req[c].entries \ {e}, req[c].events))
      BY <1>2 DEF RecordChangeFails
    <2>2. /\ req[c].entries \in SUBSET (RecordIds \X Entry)
          /\ req[c].events \in SUBSET (RecordIds \X EventTypes)
      BY <1>2, Locals DEF RecordChangeFails, At
    <2>3. req' \in [Clients -> Request]
      BY <2>1, <2>2, NextRequests, GotoType
    <2> QED BY <1>2, <2>3 DEF RecordChangeFails
  <1>3. CASE Restart
    BY <1>3, NextRequests DEF Restart
  <1> QED BY <1>1, <1>2, <1>3 DEF Faulty

LEMMA InitType == Init => TypeOK
  BY NextRequests DEF Init, TypeOK

LEMMA NextType == TypeOK /\ [Next]_vars => TypeOK'
  <1>1. TypeOK /\ Next => TypeOK'
    BY UpdateType, BatchType, OtherType, FaultType DEF Next
  <1>2. TypeOK /\ UNCHANGED vars => TypeOK'
    BY DEF TypeOK, vars
  <1> QED BY <1>1, <1>2

\* Type correctness of the record handlers for every value of the constants.
THEOREM TypeCorrect == Spec => []TypeOK
  BY InitType, NextType, PTL DEF Spec
(***************************************************************************)
(* The inductive invariant.                                                 *)
(***************************************************************************)
\* b is what somebody loaded of row id: if the row still has b's version it
\* still has b's content.
Snapshot(b, id) ==
    /\ rows[id] # Absent
    /\ ~b.deleted
    /\ b.ver <= rows[id].ver
    /\ b.ver = rows[id].ver => b.val = rows[id].val /\ b.status = rows[id].status

FormsAreSnapshots ==
    \A c \in Clients, id \in RecordIds :
        form[c][id] # Absent => Snapshot(form[c][id], id)

CallsAreSnapshots ==
    \A c \in Clients : req[c].phase \in {"fetch", "check", "write"} =>
        Snapshot(req[c].call.base, req[c].call.id)

BatchesAreSnapshots ==
    \A c \in Clients : At(c, "batch") => \A i \in 1..Len(req[c].updates) :
        Snapshot(req[c].updates[i].base, req[c].updates[i].id)

\* What Update read before its UPDATE still holds if the version does.
ReadsHold ==
    \A c \in Clients : req[c].phase \in {"check", "write"} =>
        LET k == req[c].call IN
        /\ EditAllowed(req[c].old, k.val)
        /\ k.base.ver = rows[k.id].ver => req[c].old.val = rows[k.id].val
        /\ req[c].phase = "write" /\ k.status # Keep /\ k.base.ver = rows[k.id].ver
             => <<rows[k.id].status, k.status>> \in Transitions

\* A row lock has one holder.
LocksExclusive ==
    \A c, d \in Clients, id \in RecordIds : Holds(c, id) /\ Holds(d, id) => c = d

\* A batch's uncommitted rows are newer versions of live rows.
PendingIsNewer ==
    \A c \in Clients, id \in RecordIds :
        Holds(c, id) => Live(id) /\ req[c].pending[id].ver > rows[id].ver

\* What a batch has checked it holds, in the version it checked.
CheckedIsHeld ==
    \A c \in Clients : At(c, "batch") =>
        /\ req[c].at <= Len(req[c].updates) + 1
        /\ \A i \in 1..(req[c].at - 1) :
             LET u == req[c].updates[i] IN
             u.versioned /\ u.val # Keep => Holds(c, u.id) /\ rows[u.id].ver = u.base.ver

VersionInv ==
    /\ TypeOK
    /\ FormsAreSnapshots /\ CallsAreSnapshots /\ BatchesAreSnapshots
    /\ ReadsHold
    /\ LocksExclusive /\ PendingIsNewer /\ CheckedIsHeld

(***************************************************************************)
(* Steps: who moves, what becomes of rows and of held rows.                 *)
(***************************************************************************)
\* A row stays, and keeps its content as long as it keeps its version.
Advances(id) ==
    rows[id] # Absent =>
        /\ rows'[id] # Absent
        /\ rows'[id].ver >= rows[id].ver
        /\ rows'[id].ver = rows[id].ver =>
             rows'[id].val = rows[id].val /\ rows'[id].status = rows[id].status

\* The step that changes a client's request to one with locals to speak of.
LEMMA StepTaken ==
    ASSUME TypeOK, NEW d \in Clients, Next, req'[d] # req[d]
    PROVE  \/ BeginUpdate(d) \/ FetchOld(d) \/ CheckStatus(d)
           \/ BeginBatch(d) \/ BatchStep(d)
           \/ req'[d].phase \in {"idle", "unlink", "link", "announce"}
  <1> USE DEF TypeOK, Goto
  <1>1. ASSUME NEW e \in Clients, UpdateSteps(e)
        PROVE  \/ BeginUpdate(d) \/ FetchOld(d) \/ CheckStatus(d)
               \/ req'[d].phase \in {"idle", "unlink", "link", "announce"}
    <2>1. e = d
      BY <1>1 DEF UpdateSteps, BeginUpdate, FetchOld, CheckStatus, WriteRow,
                  DeleteLinks, InsertLinks
    <2>2. CASE WriteRow(d)
      BY <2>2 DEF WriteRow, Idle, Announce, Unlink
    <2>3. CASE DeleteLinks(d) \/ InsertLinks(d)
      <3>1. req[d].then \in Announcement
        BY <2>3, Locals DEF DeleteLinks, InsertLinks, At
      <3> QED BY <2>3, <3>1 DEF DeleteLinks, InsertLinks, Link, Announcement
    <2> QED BY <1>1, <2>1, <2>2, <2>3 DEF UpdateSteps
  <1>2. ASSUME NEW e \in Clients, BatchSteps(e)
        PROVE  \/ BeginBatch(d) \/ BatchStep(d)
               \/ req'[d].phase \in {"idle", "unlink", "link", "announce"}
    <2>1. e = d
      BY <1>2 DEF BatchSteps, BeginBatch, BatchStep, BatchCommit, DeadlockAborts, Conflict
    <2> QED BY <1>2, <2>1 DEF BatchSteps, BatchCommit, DeadlockAborts, Idle, Announce
  <1>3. ASSUME NEW e \in Clients, OtherSteps(e)
        PROVE  req'[d].phase \in {"idle", "unlink", "link", "announce"}
    <2>1. \/ req'[d].phase \in {"idle", "announce"}
          \/ req' = req
      <3>1. CASE Load(e) \/ BulkCreate(e) \/ BulkDelete(e)
        BY <3>1 DEF Load, BulkCreate, BulkDelete
      <3>2. CASE Create(e)
        BY <3>2 DEF Create, Announce
      <3>3. CASE Delete(e)
        BY <3>3 DEF Delete, Announce
      <3>4. CASE RecordChange(e)
        BY <3>4 DEF RecordChange, Announce
      <3>5. CASE Publish(e)
        BY <3>5 DEF Publish, Idle
      <3> QED BY <1>3, <3>1, <3>2, <3>3, <3>4, <3>5 DEF OtherSteps
    <2> QED BY <2>1
  <1>4. ASSUME NEW e \in Clients, Faulty(e)
        PROVE  req'[d].phase \in {"idle", "unlink", "link", "announce"}
    BY <1>4 DEF Faulty, RequestFails, RecordChangeFails, Idle, Announce
  <1>5. CASE Restart
    BY <1>5 DEF Restart, Idle
  <1> QED BY <1>1, <1>2, <1>3, <1>4, <1>5 DEF Next

\* A committed batch writes rows that are newer.
LEMMA CommitAdvances ==
    ASSUME VersionInv, NEW c \in Clients, BatchCommit(c), NEW id \in RecordIds
    PROVE  Advances(id)
  <1>1. rows'[id] = Seen(c, id)
    BY DEF BatchCommit
  <1>2. CASE req[c].pending[id] = Absent
    BY <1>1, <1>2 DEF Seen, Advances, VersionInv, TypeOK, Row
  <1>3. CASE req[c].pending[id] # Absent
    <2>1. Holds(c, id)
      BY <1>3 DEF Holds, BatchCommit
    <2>2. Live(id) /\ req[c].pending[id].ver > rows[id].ver
      BY <2>1 DEF VersionInv, PendingIsNewer
    <2>3. req[c].pending[id] \in Row /\ rows[id] \in Row
      BY <1>3, <2>2, Locals DEF BatchCommit, At, VersionInv, TypeOK, Live
    <2> QED BY <1>1, <1>3, <2>2, <2>3 DEF Seen, Advances, Row
  <1> QED BY <1>2, <1>3

\* Soft deletion leaves version and content.
LEMMA DeleteAdvances ==
    ASSUME TypeOK, NEW S \in SUBSET RecordIds, MarkDeleted(S), NEW id \in RecordIds
    PROVE  Advances(id)
  <1>1. rows[id] # Absent => rows[id] \in Row
    BY DEF TypeOK
  <1>2. CASE id \in S /\ Live(id)
    <2>1. rows'[id] = [rows[id] EXCEPT !.deleted = TRUE]
      BY <1>2 DEF MarkDeleted
    <2>2. rows'[id] \in Row /\ rows'[id].ver = rows[id].ver
          /\ rows'[id].val = rows[id].val /\ rows'[id].status = rows[id].status
      BY <1>1, <1>2, <2>1 DEF Row, Live
    <2> QED BY <1>1, <1>2, <2>2, Keys DEF Advances, Row, Live
  <1>3. CASE ~(id \in S /\ Live(id))
    <2>1. rows'[id] = rows[id]
      BY <1>3 DEF MarkDeleted
    <2> QED BY <1>1, <2>1 DEF Advances, Row
  <1> QED BY <1>2, <1>3

\* Every step lets every row advance.
LEMMA RowsAdvance ==
    ASSUME VersionInv, Next, NEW id \in RecordIds
    PROVE  Advances(id)
  <1> USE DEF VersionInv
  <1>1. CASE rows' = rows
    BY <1>1 DEF Advances, TypeOK, Row
  <1>2. ASSUME NEW c \in Clients, WriteRow(c) PROVE Advances(id)
    <2> DEFINE k == req[c].call
    <2>1. k \in UpdateCall
      BY <1>2, Locals DEF WriteRow, At, TypeOK
    <2>2. CASE Matches(rows[k.id], k)
      <3>1. k.id \in RecordIds /\ rows[k.id] \in Row
        BY <2>1, <2>2 DEF Matches, UpdateCall, TypeOK
      <3>2. rows' = [rows EXCEPT ![k.id] = Set(rows[k.id], k.val, k.status)]
        BY <1>2, <2>2 DEF WriteRow
      <3>3. Set(rows[k.id], k.val, k.status) \in Row
            /\ Set(rows[k.id], k.val, k.status).ver = rows[k.id].ver + 1
        BY <2>1, <3>1, SetRow DEF UpdateCall
      <3>4. CASE id = k.id
        BY <3>1, <3>2, <3>3, <3>4, Keys DEF Advances, TypeOK, Row
      <3>5. CASE id # k.id
        BY <3>2, <3>5 DEF Advances, TypeOK, Row
      <3> QED BY <3>4, <3>5
    <2>3. CASE ~Matches(rows[k.id], k)
      BY <1>2, <2>3, <1>1 DEF WriteRow
    <2> QED BY <2>2, <2>3
  <1>3. ASSUME NEW c \in Clients, Create(c) PROVE Advances(id)
    BY <1>3 DEF Create, NewIds, Advances, TypeOK, Row
  <1>4. ASSUME NEW c \in Clients, BulkCreate(c) PROVE Advances(id)
    BY <1>4 DEF BulkCreate, NewIds, Advances, TypeOK, Row
  <1>5. ASSUME NEW c \in Clients, Delete(c) \/ BulkDelete(c) PROVE Advances(id)
    BY <1>5, DeleteAdvances DEF Delete, BulkDelete
  <1>6. ASSUME NEW c \in Clients, BatchCommit(c) PROVE Advances(id)
    BY <1>6, CommitAdvances
  <1>7. rows' = rows \/ \E c \in Clients :
          WriteRow(c) \/ Create(c) \/ BulkCreate(c) \/ Delete(c) \/ BulkDelete(c)
            \/ BatchCommit(c)
    BY DEF Next, UpdateSteps, BatchSteps, OtherSteps, Faulty, BeginUpdate, FetchOld,
           CheckStatus, DeleteLinks, InsertLinks, BeginBatch, BatchStep, DeadlockAborts,
           Load, RecordChange, Publish, RequestFails, RecordChangeFails, Restart
  <1> QED BY <1>1, <1>2, <1>3, <1>4, <1>5, <1>6, <1>7

\* A row somebody holds changes in no other client's step.
LEMMA HeldRowsStay ==
    ASSUME VersionInv, Next, NEW c \in Clients, NEW id \in RecordIds,
           Holds(c, id), At(c, "batch")'
    PROVE  rows'[id] = rows[id]
  <1> USE DEF VersionInv
  <1>1. Live(id) /\ rows[id] # Absent
    BY DEF PendingIsNewer, Live
  <1>2. ASSUME NEW d \in Clients, WriteRow(d) PROVE rows'[id] = rows[id]
    <2>1. d # c
      BY <1>2 DEF WriteRow, At, Holds
    <2>2. req[d].call.id \in RecordIds
      BY <1>2, Locals DEF WriteRow, At, TypeOK, UpdateCall
    <2>3. req[d].call.id # id
      BY <1>2, <2>1 DEF WriteRow, Unlocked
    <2> QED BY <1>2, <2>2, <2>3 DEF WriteRow, TypeOK
  <1>3. ASSUME NEW d \in Clients, Create(d) PROVE rows'[id] = rows[id]
    BY <1>1, <1>3 DEF Create, NewIds, TypeOK
  <1>4. ASSUME NEW d \in Clients, BulkCreate(d) PROVE rows'[id] = rows[id]
    BY <1>1, <1>4 DEF BulkCreate, NewIds, TypeOK
  <1>5. ASSUME NEW d \in Clients, Delete(d) \/ BulkDelete(d) PROVE rows'[id] = rows[id]
    <2>1. d # c
      BY <1>5 DEF Delete, BulkDelete, Called, At, Holds
    <2>2. ~Unlocked(id, d)
      BY <2>1 DEF Unlocked
    <2> QED BY <1>5, <2>2 DEF Delete, BulkDelete, MarkDeleted
  <1>6. ASSUME NEW d \in Clients, BatchCommit(d) PROVE rows'[id] = rows[id]
    <2>1. d # c
      BY <1>6 DEF BatchCommit, At, Goto, TypeOK, Announce
    <2>2. ~Holds(d, id)
      BY <2>1 DEF LocksExclusive
    <2>3. Seen(d, id) = rows[id]
      BY <1>6, <2>2 DEF Seen, Holds, BatchCommit
    <2> QED BY <1>6, <2>3 DEF BatchCommit
  <1>7. rows' = rows \/ \E d \in Clients :
          WriteRow(d) \/ Create(d) \/ BulkCreate(d) \/ Delete(d) \/ BulkDelete(d)
            \/ BatchCommit(d)
    BY DEF Next, UpdateSteps, BatchSteps, OtherSteps, Faulty, BeginUpdate, FetchOld,
           CheckStatus, DeleteLinks, InsertLinks, BeginBatch, BatchStep, DeadlockAborts,
           Load, RecordChange, Publish, RequestFails, RecordChangeFails, Restart
  <1> QED BY <1>2, <1>3, <1>4, <1>5, <1>6, <1>7

\* What was a snapshot is one after the row advanced.
LEMMA SnapshotKept ==
    ASSUME TypeOK, TypeOK', NEW b \in Row, NEW id \in RecordIds,
           Snapshot(b, id), Advances(id)
    PROVE  /\ rows'[id] # Absent
           /\ ~b.deleted
           /\ b.ver <= rows'[id].ver
           /\ b.ver = rows'[id].ver =>
                /\ b.ver = rows[id].ver
                /\ rows'[id].val = rows[id].val
                /\ rows'[id].status = rows[id].status
                /\ b.val = rows'[id].val /\ b.status = rows'[id].status
  <1>1. rows[id] \in Row /\ rows'[id] \in Row
    BY DEF Snapshot, Advances, TypeOK
  <1>2. b.ver \in Nat /\ rows[id].ver \in Nat /\ rows'[id].ver \in Nat
    BY <1>1 DEF Row
  <1> QED BY <1>2 DEF Snapshot, Advances

(***************************************************************************)
(* The invariant is inductive: one lemma per part.                          *)
(***************************************************************************)
LEMMA InitVersion == Init => VersionInv
  <1> SUFFICES ASSUME Init PROVE VersionInv
    OBVIOUS
  <1>1. TypeOK
    BY InitType
  <1>2. \A c \in Clients : req[c].phase = "idle"
    BY DEF Init, Idle
  <1>3. \A c \in Clients, id \in RecordIds : form[c][id] = Absent
    BY DEF Init
  <1> QED
    BY <1>1, <1>2, <1>3 DEF VersionInv, FormsAreSnapshots, CallsAreSnapshots,
       BatchesAreSnapshots, ReadsHold, LocksExclusive, PendingIsNewer,
       CheckedIsHeld, Holds, At

\* A form shows what it showed, or the live row just loaded.
LEMMA FormsKept ==
    ASSUME VersionInv, TypeOK', Next
    PROVE  FormsAreSnapshots'
  <1> USE DEF VersionInv
  <1> SUFFICES ASSUME NEW c \in Clients, NEW id \in RecordIds, form'[c][id] # Absent
               PROVE  Snapshot(form[c][id], id)'
    BY DEF FormsAreSnapshots
  <1>1. CASE form'[c][id] = form[c][id]
    <2>1. form[c][id] \in Row /\ Snapshot(form[c][id], id)
      BY <1>1 DEF FormsAreSnapshots, TypeOK
    <2> QED BY <1>1, <2>1, RowsAdvance, SnapshotKept DEF Snapshot
  <1>2. CASE form'[c][id] # form[c][id]
    <2>1. \E d \in Clients : Load(d) \/ BeginUpdate(d) \/ BeginBatch(d)
      BY <1>2 DEF Next, UpdateSteps, BatchSteps, OtherSteps, Faulty, FetchOld,
         CheckStatus, WriteRow, DeleteLinks, InsertLinks, BatchStep, BatchCommit,
         DeadlockAborts, Create, BulkCreate, Delete, BulkDelete, RecordChange, Publish,
         RequestFails, RecordChangeFails, Restart
    <2>2. ASSUME NEW d \in Clients, Load(d) PROVE Snapshot(form[c][id], id)'
      <3>1. Live(id) /\ form'[c][id] = rows[id] /\ rows' = rows
        BY <1>2, <2>2 DEF Load, TypeOK
      <3>2. rows[id] \in Row
        BY <3>1 DEF Live, TypeOK
      <3> QED BY <3>1, <3>2 DEF Snapshot, Live, Row
    <2>3. ASSUME NEW d \in Clients, BeginUpdate(d) PROVE form'[c][id] = Absent
      BY <1>2, <2>3 DEF BeginUpdate, TypeOK
    <2>4. ASSUME NEW d \in Clients, BeginBatch(d) PROVE form'[c][id] = Absent
      BY <1>2, <2>4 DEF BeginBatch, TypeOK
    <2> QED BY <2>1, <2>2, <2>3, <2>4
  <1> QED BY <1>1, <1>2

\* The call a fetch starts from.
LEMMA BegunCall ==
    ASSUME VersionInv, NEW c \in Clients, BeginUpdate(c)
    PROVE  /\ req'[c].phase = "fetch"
           /\ Snapshot(req'[c].call.base, req'[c].call.id)
           /\ rows' = rows
  <1>1. PICK id \in Loaded(c), versioned \in Versioned, v \in Values \cup {Keep},
             s \in Statuses \cup {Keep}, ids \in {Keep} \cup SUBSET Targets :
          Goto(c, Fetch([id |-> id, base |-> form[c][id], versioned |-> versioned,
                         val |-> v, status |-> s, links |-> ids]))
    BY DEF BeginUpdate
  <1>2. req'[c] = Fetch([id |-> id, base |-> form[c][id], versioned |-> versioned,
                         val |-> v, status |-> s, links |-> ids])
    BY <1>1 DEF Goto, VersionInv, TypeOK
  <1>3. Snapshot(form[c][id], id)
    BY DEF Loaded, VersionInv, FormsAreSnapshots
  <1> QED BY <1>2, <1>3 DEF Fetch, BeginUpdate

LEMMA CallsKept ==
    ASSUME VersionInv, TypeOK', Next
    PROVE  CallsAreSnapshots'
  <1> USE DEF VersionInv
  <1> SUFFICES ASSUME NEW c \in Clients, req'[c].phase \in {"fetch", "check", "write"}
               PROVE  Snapshot(req[c].call.base, req[c].call.id)'
    BY DEF CallsAreSnapshots
  <1>1. CASE /\ req[c].phase \in {"fetch", "check", "write"}
             /\ req'[c].call = req[c].call
    <2>1. req[c].call \in UpdateCall
      BY <1>1, Locals DEF TypeOK
    <2>2. req[c].call.base \in Row /\ req[c].call.id \in RecordIds
          /\ Snapshot(req[c].call.base, req[c].call.id)
      BY <1>1, <2>1 DEF UpdateCall, CallsAreSnapshots
    <2> QED BY <1>1, <2>2, RowsAdvance, SnapshotKept DEF Snapshot
  <1>2. CASE BeginUpdate(c)
    BY <1>2, BegunCall DEF Snapshot
  <1>3. CASE FetchOld(c) \/ CheckStatus(c)
    <2>1. /\ req[c].phase \in {"fetch", "check", "write"}
          /\ req'[c].call = req[c].call
      BY <1>3 DEF FetchOld, CheckStatus, Goto, TypeOK, At, Check, Write, Idle
    <2> QED BY <1>1, <2>1
  <1>4. CASE BeginBatch(c) \/ BatchStep(c)
    <2>1. req'[c].phase \in {"batch", "idle"} \/ req' = req
      BY <1>4 DEF BeginBatch, BatchStep, Conflict, Goto, TypeOK, Batch, Idle
    <2> QED BY <1>1, <2>1
  <1>5. CASE req'[c] = req[c]
    BY <1>1, <1>5
  <1> QED BY <1>1, <1>2, <1>3, <1>4, <1>5, StepTaken

LEMMA ReadsKept ==
    ASSUME VersionInv, TypeOK', Next
    PROVE  ReadsHold'
  <1> USE DEF VersionInv
  <1> SUFFICES ASSUME NEW c \in Clients, req'[c].phase \in {"check", "write"}
               PROVE  LET k == req'[c].call IN
                      /\ EditAllowed(req'[c].old, k.val)
                      /\ k.base.ver = rows'[k.id].ver => req'[c].old.val = rows'[k.id].val
                      /\ req'[c].phase = "write" /\ k.status # Keep
                            /\ k.base.ver = rows'[k.id].ver
                           => <<rows'[k.id].status, k.status>> \in Transitions
    BY DEF ReadsHold, EditAllowed
  <1>1. CASE req'[c] = req[c]
    <2> DEFINE k == req[c].call
    <2>1. k.base \in Row /\ k.id \in RecordIds /\ Snapshot(k.base, k.id)
      BY <1>1, Locals DEF CallsAreSnapshots, UpdateCall, TypeOK
    <2>2. k.base.ver = rows'[k.id].ver =>
            /\ k.base.ver = rows[k.id].ver
            /\ rows'[k.id].val = rows[k.id].val
            /\ rows'[k.id].status = rows[k.id].status
      BY <2>1, RowsAdvance, SnapshotKept
    <2> QED BY <1>1, <2>2 DEF ReadsHold
  <1>2. CASE FetchOld(c)
    <2> DEFINE k == req[c].call
    <2>1. /\ Live(k.id) /\ EditAllowed(FetchRow(k.id), k.val)
          /\ req'[c] = IF k.status = Keep THEN Write(k, FetchRow(k.id))
                       ELSE Check(k, FetchRow(k.id))
          /\ rows' = rows
      BY <1>2 DEF FetchOld, Goto, TypeOK, Idle
    <2> QED BY <2>1 DEF FetchRow, Write, Check
  <1>3. CASE CheckStatus(c)
    <2> DEFINE k == req[c].call
    <2>1. /\ <<rows[k.id].status, k.status>> \in Transitions
          /\ req'[c] = Write(k, req[c].old)
          /\ rows' = rows
      BY <1>3 DEF CheckStatus, Goto, TypeOK, Idle
    <2>2. EditAllowed(req[c].old, k.val)
          /\ (k.base.ver = rows[k.id].ver => req[c].old.val = rows[k.id].val)
      BY <1>3 DEF CheckStatus, At, ReadsHold
    <2> QED BY <2>1, <2>2 DEF Write
  <1>4. CASE BeginUpdate(c)
    BY <1>4, BegunCall
  <1>5. CASE BeginBatch(c) \/ BatchStep(c)
    <2>1. req'[c].phase \in {"batch", "idle"} \/ req' = req
      BY <1>5 DEF BeginBatch, BatchStep, Conflict, Goto, TypeOK, Batch, Idle
    <2> QED BY <1>1, <2>1
  <1> QED BY <1>1, <1>2, <1>3, <1>4, <1>5, StepTaken

\* The locals of a batch under way.
LEMMA BatchLocals ==
    ASSUME TypeOK, NEW c \in Clients, At(c, "batch")
    PROVE  /\ req[c].updates \in Seq(BatchUpdateItem)
           /\ req[c].at \in Nat \ {0}
           /\ req[c].pending \in [RecordIds -> Row \cup {Absent}]
           /\ \A i \in 1..Len(req[c].updates) :
                /\ req[c].updates[i] \in BatchUpdateItem
                /\ req[c].updates[i].id \in RecordIds
                /\ req[c].updates[i].base \in Row
                /\ req[c].updates[i].val \in Values \cup {Keep}
  <1>1. req[c].updates \in Seq(BatchUpdateItem)
        /\ req[c].at \in Nat \ {0}
        /\ req[c].pending \in [RecordIds -> Row \cup {Absent}]
    BY Locals DEF At, TypeOK
  <1>2. \A i \in 1..Len(req[c].updates) : req[c].updates[i] \in BatchUpdateItem
    BY <1>1
  <1> QED BY <1>1, <1>2 DEF BatchUpdateItem

\* A batch that begins has checked nothing, holds nothing, and lists snapshots.
LEMMA BegunBatch ==
    ASSUME VersionInv, NEW c \in Clients, BeginBatch(c)
    PROVE  /\ At(c, "batch")'
           /\ req'[c].at = 1
           /\ req'[c].pending = [id \in RecordIds |-> Absent]
           /\ Len(req'[c].updates) \in Nat
           /\ \A i \in 1..Len(req'[c].updates) :
                Snapshot(req'[c].updates[i].base, req'[c].updates[i].id)
           /\ rows' = rows
  <1>1. PICK n \in 1..MaxBatch : \E items \in [1..n -> BatchItem(c)] :
          Goto(c, Batch([i \in 1..n |->
                           [id |-> items[i].id, base |-> form[c][items[i].id],
                            versioned |-> items[i].versioned, val |-> items[i].val]],
                        1, [id \in RecordIds |-> Absent]))
    BY DEF BeginBatch
  <1>2. PICK items \in [1..n -> BatchItem(c)] :
          Goto(c, Batch([i \in 1..n |->
                           [id |-> items[i].id, base |-> form[c][items[i].id],
                            versioned |-> items[i].versioned, val |-> items[i].val]],
                        1, [id \in RecordIds |-> Absent]))
    BY <1>1
  <1> DEFINE us == [i \in 1..n |->
                      [id |-> items[i].id, base |-> form[c][items[i].id],
                       versioned |-> items[i].versioned, val |-> items[i].val]]
             none == [id \in RecordIds |-> Absent]
  <1>3. req'[c] = Batch(us, 1, none)
    BY <1>2 DEF Goto, VersionInv, TypeOK
  <1>4. req'[c].phase = "batch" /\ req'[c].updates = us /\ req'[c].at = 1
        /\ req'[c].pending = none
    BY <1>3 DEF Batch
  <1>5. n \in Nat /\ Len(us) = n
    BY RecordsAssumption
  <1>6. \A i \in 1..n : Snapshot(us[i].base, us[i].id)
    BY DEF BatchItem, Loaded, VersionInv, FormsAreSnapshots
  <1>7. \A i \in 1..Len(req'[c].updates) :
          Snapshot(req'[c].updates[i].base, req'[c].updates[i].id)
    BY <1>4, <1>5, <1>6
  <1> QED BY <1>4, <1>5, <1>7 DEF At, BeginBatch

\* The outcomes of one UPDATE of a batch.
LEMMA BatchStepOutcome ==
    ASSUME VersionInv, NEW c \in Clients, BatchStep(c)
    PROVE  LET u == NextItem(c)
               r == req[c]
           IN  /\ At(c, "batch") /\ r.at \in 1..Len(r.updates)
               /\ rows' = rows
               /\ \A d \in Clients \ {c} : req'[d] = req[d]
               /\ \/ req'[c] = Idle
                  \/ /\ u.val = Keep \/ ~u.versioned
                     /\ req'[c] = Batch(r.updates, r.at + 1, r.pending)
                  \/ /\ u.val # Keep /\ Unlocked(u.id, c)
                     /\ Matches(Seen(c, u.id), u)
                     /\ req'[c] = Batch(r.updates, r.at + 1,
                            [r.pending EXCEPT ![u.id] = Set(Seen(c, u.id), u.val, Keep)])
  <1>1. At(c, "batch") /\ req[c].at \in 1..Len(req[c].updates)
    BY BatchLocals DEF BatchStep, InBatch, VersionInv
  <1> QED BY <1>1 DEF BatchStep, Conflict, Goto, VersionInv, TypeOK

LEMMA BatchesKept ==
    ASSUME VersionInv, TypeOK', Next
    PROVE  BatchesAreSnapshots'
  <1> USE DEF VersionInv
  <1> SUFFICES ASSUME NEW c \in Clients, At(c, "batch")',
                      NEW i \in 1..Len(req'[c].updates)
               PROVE  Snapshot(req[c].updates[i].base, req[c].updates[i].id)'
    BY DEF BatchesAreSnapshots
  <1>1. CASE At(c, "batch") /\ req'[c].updates = req[c].updates
    <2>1. /\ req[c].updates[i].base \in Row /\ req[c].updates[i].id \in RecordIds
          /\ Snapshot(req[c].updates[i].base, req[c].updates[i].id)
      BY <1>1, BatchLocals DEF BatchesAreSnapshots
    <2>2. TypeOK /\ Advances(req[c].updates[i].id)
      BY <2>1, RowsAdvance
    <2>3. LET u == req[c].updates[i] IN
          /\ rows'[u.id] # Absent /\ ~u.base.deleted /\ u.base.ver <= rows'[u.id].ver
          /\ u.base.ver = rows'[u.id].ver =>
                u.base.val = rows'[u.id].val /\ u.base.status = rows'[u.id].status
      BY <2>1, <2>2, SnapshotKept
    <2> QED BY <1>1, <2>3 DEF Snapshot
  <1>2. CASE BeginBatch(c)
    <2>1. Snapshot(req'[c].updates[i].base, req'[c].updates[i].id) /\ rows' = rows
      BY <1>2, BegunBatch
    <2> QED BY <2>1 DEF Snapshot
  <1>3. CASE BatchStep(c)
    <2>1. At(c, "batch") /\ req'[c].phase = "batch"
      <3>1. At(c, "batch")
        BY <1>3, BatchStepOutcome
      <3> QED BY <3>1 DEF At
    <2>2. \E n, p : req'[c] = Idle \/ req'[c] = Batch(req[c].updates, n, p)
      BY <1>3, BatchStepOutcome
    <2>3. PICK n, p : req'[c] = Batch(req[c].updates, n, p)
      BY <2>1, <2>2 DEF Idle
    <2> QED BY <1>1, <2>1, <2>3 DEF Batch
  <1>4. CASE req'[c] = req[c]
    BY <1>1, <1>4 DEF At
  <1>5. CASE FetchOld(c) \/ CheckStatus(c) \/ BeginUpdate(c)
    <2>1. req'[c].phase # "batch"
      BY <1>5, BegunCall DEF FetchOld, CheckStatus, Goto, TypeOK, Check, Write, Idle
    <2> QED BY <2>1 DEF At
  <1> QED BY <1>1, <1>2, <1>3, <1>4, <1>5, StepTaken DEF At

\* How a client comes to hold a row: it held it, or its batch has just updated it.
LEMMA HoldsStep ==
    ASSUME VersionInv, TypeOK', Next, NEW c \in Clients, NEW id \in RecordIds,
           Holds(c, id)'
    PROVE  \/ Holds(c, id) /\ req'[c].pending[id] = req[c].pending[id]
           \/ /\ BatchStep(c) /\ req'[c] # req[c]
              /\ NextItem(c).id = id /\ NextItem(c).val # Keep
              /\ Unlocked(id, c) /\ Matches(Seen(c, id), NextItem(c))
              /\ req'[c].pending[id] = Set(Seen(c, id), NextItem(c).val, Keep)
  <1> USE DEF VersionInv
  <1>1. CASE req'[c] = req[c]
    BY <1>1 DEF Holds, At
  <1>2. CASE BeginBatch(c)
    BY <1>2, BegunBatch DEF Holds
  <1>3. CASE BatchStep(c)
    <2> DEFINE u == NextItem(c)
               r == req[c]
    <2>1. /\ r.pending \in [RecordIds -> Row \cup {Absent}] /\ r.at \in Nat
          /\ r.phase = "batch"
      BY <1>3, BatchStepOutcome, BatchLocals DEF At
    <2>2. CASE req'[c] = Idle
      BY <2>2 DEF Idle, Holds, At
    <2>3. CASE req'[c] = Batch(r.updates, r.at + 1, r.pending)
      BY <2>1, <2>3 DEF Batch, Holds, At
    <2>4. CASE /\ u.val # Keep /\ Unlocked(u.id, c)
               /\ Matches(Seen(c, u.id), u)
               /\ req'[c] = Batch(r.updates, r.at + 1,
                      [r.pending EXCEPT ![u.id] = Set(Seen(c, u.id), u.val, Keep)])
      <3>1. req'[c].at = r.at + 1
            /\ req'[c].pending = [r.pending EXCEPT ![u.id] = Set(Seen(c, u.id), u.val, Keep)]
        BY <2>4 DEF Batch
      <3>2. req'[c] # req[c]
        BY <2>1, <3>1
      <3>3. CASE u.id = id
        BY <1>3, <2>1, <2>4, <3>1, <3>2, <3>3
      <3>4. CASE u.id # id
        BY <2>1, <3>1, <3>4 DEF Holds, At
      <3> QED BY <3>3, <3>4
    <2> QED BY <1>3, <2>2, <2>3, <2>4, BatchStepOutcome
  <1>4. CASE FetchOld(c) \/ CheckStatus(c) \/ BeginUpdate(c)
    <2>1. req'[c].phase # "batch"
      BY <1>4, BegunCall DEF FetchOld, CheckStatus, Goto, TypeOK, Check, Write, Idle
    <2> QED BY <2>1 DEF Holds, At
  <1> QED BY <1>1, <1>2, <1>3, <1>4, StepTaken DEF Holds, At

LEMMA LocksKept ==
    ASSUME VersionInv, TypeOK', Next
    PROVE  LocksExclusive'
  <1> USE DEF VersionInv
  <1> SUFFICES ASSUME NEW c \in Clients, NEW d \in Clients, NEW id \in RecordIds,
                      Holds(c, id)', Holds(d, id)', c # d
               PROVE  FALSE
    BY DEF LocksExclusive
  <1>1. Holds(c, id) => ~Holds(d, id)
    BY DEF LocksExclusive
  <1>2. CASE Holds(c, id)
    <2>1. Unlocked(id, d)
      BY <1>1, <1>2, HoldsStep
    <2> QED BY <1>2, <2>1 DEF Unlocked
  <1>3. CASE Holds(d, id)
    <2>1. Unlocked(id, c)
      BY <1>1, <1>3, HoldsStep
    <2> QED BY <1>3, <2>1 DEF Unlocked
  <1>4. CASE ~Holds(c, id) /\ ~Holds(d, id)
    <2>1. BatchStep(c) /\ req'[d] # req[d]
      BY <1>4, HoldsStep
    <2> QED BY <2>1, BatchStepOutcome
  <1> QED BY <1>2, <1>3, <1>4

LEMMA PendingKept ==
    ASSUME VersionInv, TypeOK', Next
    PROVE  PendingIsNewer'
  <1> USE DEF VersionInv
  <1> SUFFICES ASSUME NEW c \in Clients, NEW id \in RecordIds, Holds(c, id)'
               PROVE  Live(id)' /\ req'[c].pending[id].ver > rows'[id].ver
    BY DEF PendingIsNewer
  <1>1. CASE Holds(c, id) /\ req'[c].pending[id] = req[c].pending[id]
    <2>1. rows'[id] = rows[id]
      BY <1>1, HeldRowsStay DEF Holds
    <2> QED BY <1>1, <2>1 DEF PendingIsNewer, Live
  <1>2. CASE /\ BatchStep(c)
             /\ NextItem(c).id = id /\ NextItem(c).val # Keep
             /\ Matches(Seen(c, id), NextItem(c))
             /\ req'[c].pending[id] = Set(Seen(c, id), NextItem(c).val, Keep)
    <2>1. rows' = rows /\ At(c, "batch") /\ req[c].at \in 1..Len(req[c].updates)
      BY <1>2, BatchStepOutcome
    <2>2. NextItem(c).val \in Values \cup {Keep}
          /\ req[c].pending \in [RecordIds -> Row \cup {Absent}]
      BY <2>1, BatchLocals DEF NextItem
    <2>3. Seen(c, id) \in Row /\ ~Seen(c, id).deleted
      BY <1>2, <2>2 DEF Matches, Seen, TypeOK
    <2>4. req'[c].pending[id].ver = Seen(c, id).ver + 1
      BY <1>2, <2>2, <2>3, SetRow
    <2>5. CASE Holds(c, id)
      <3>1. Live(id) /\ req[c].pending[id].ver > rows[id].ver /\ rows[id] \in Row
        BY <2>5 DEF PendingIsNewer, Live, TypeOK
      <3>2. Seen(c, id) = req[c].pending[id]
        BY <2>5 DEF Seen, Holds
      <3> QED BY <2>1, <2>3, <2>4, <3>1, <3>2 DEF Live, Row
    <2>6. CASE ~Holds(c, id)
      <3>1. Seen(c, id) = rows[id]
        BY <2>1, <2>6 DEF Seen, Holds
      <3> QED BY <1>2, <2>1, <2>3, <2>4, <3>1, Keys DEF Live, Row
    <2> QED BY <2>5, <2>6
  <1> QED BY <1>1, <1>2, HoldsStep

\* Client c holds row id after the step.
HoldsAfter(c, id) == req'[c].phase = "batch" /\ req'[c].pending[id] # Absent

\* CheckedIsHeld of one update, after the step.
CheckedAfter(c, u) ==
    u.versioned /\ u.val # Keep => HoldsAfter(c, u.id) /\ rows'[u.id].ver = u.base.ver

LEMMA CheckedKept ==
    ASSUME VersionInv, TypeOK', Next
    PROVE  CheckedIsHeld'
  <1> USE DEF VersionInv
  <1> SUFFICES ASSUME NEW c \in Clients, At(c, "batch")'
               PROVE  /\ req'[c].at <= Len(req'[c].updates) + 1
                      /\ \A i \in 1..(req'[c].at - 1) :
                           CheckedAfter(c, req'[c].updates[i])
    BY DEF CheckedIsHeld, CheckedAfter, HoldsAfter, Holds, At
  <1>1. CASE req'[c] = req[c]
    <2>1. At(c, "batch")
      BY <1>1 DEF At
    <2>2. /\ req[c].at \in Nat \ {0} /\ Len(req[c].updates) \in Nat
          /\ req[c].at <= Len(req[c].updates) + 1
      BY <2>1, BatchLocals DEF CheckedIsHeld
    <2> SUFFICES ASSUME NEW i \in 1..(req[c].at - 1),
                        req[c].updates[i].versioned, req[c].updates[i].val # Keep
                 PROVE  /\ HoldsAfter(c, req[c].updates[i].id)
                        /\ rows'[req[c].updates[i].id].ver = req[c].updates[i].base.ver
      BY <1>1, <2>2 DEF CheckedAfter
    <2>3. req[c].updates[i].id \in RecordIds
      BY <2>1, <2>2, BatchLocals
    <2>4. /\ Holds(c, req[c].updates[i].id)
          /\ rows[req[c].updates[i].id].ver = req[c].updates[i].base.ver
      BY <2>1 DEF CheckedIsHeld
    <2>5. rows'[req[c].updates[i].id] = rows[req[c].updates[i].id]
      BY <2>3, <2>4, HeldRowsStay
    <2> QED BY <1>1, <2>4, <2>5 DEF Holds, HoldsAfter, At
  <1>2. CASE BeginBatch(c)
    <2>1. req'[c].at = 1 /\ Len(req'[c].updates) \in Nat
      BY <1>2, BegunBatch
    <2>2. 1..(req'[c].at - 1) = {} /\ 1 <= Len(req'[c].updates) + 1
      BY <2>1
    <2> QED BY <2>1, <2>2
  <1>3. CASE BatchStep(c)
    <2> DEFINE u == NextItem(c)
               r == req[c]
    <2>1. /\ At(c, "batch") /\ r.at \in 1..Len(r.updates) /\ rows' = rows
          /\ r.updates \in Seq(BatchUpdateItem)
          /\ r.pending \in [RecordIds -> Row \cup {Absent}]
          /\ u = r.updates[r.at]
      BY <1>3, BatchStepOutcome, BatchLocals DEF NextItem
    <2>2. /\ u.id \in RecordIds /\ u.base \in Row /\ u.val \in Values \cup {Keep}
      BY <2>1, BatchLocals
    <2>3. \A i \in 1..(r.at - 1) : r.updates[i].versioned /\ r.updates[i].val # Keep
            => Holds(c, r.updates[i].id) /\ rows[r.updates[i].id].ver = r.updates[i].base.ver
      BY <2>1 DEF CheckedIsHeld
    <2>4. CASE /\ u.val = Keep \/ ~u.versioned
               /\ req'[c] = Batch(r.updates, r.at + 1, r.pending)
      <3>1. req'[c].updates = r.updates /\ req'[c].at = r.at + 1
            /\ req'[c].pending = r.pending /\ req'[c].phase = "batch"
        BY <2>4 DEF Batch
      <3>2. \A x \in RecordIds : Holds(c, x) => HoldsAfter(c, x)
        BY <3>1 DEF Holds, HoldsAfter, At
      <3>3. \A i \in 1..(r.at - 1) : r.updates[i].id \in RecordIds
        BY <2>1, BatchLocals
      <3>4. \A i \in 1..r.at : i = r.at \/ i \in 1..(r.at - 1)
        BY <2>1
      <3>5. (r.at + 1) - 1 = r.at /\ r.at + 1 <= Len(r.updates) + 1
        BY <2>1
      <3>6. \A i \in 1..(r.at - 1) : CheckedAfter(c, r.updates[i])
        BY <2>1, <2>3, <3>2, <3>3 DEF CheckedAfter
      <3>7. CheckedAfter(c, r.updates[r.at])
        BY <2>1, <2>4 DEF CheckedAfter
      <3>8. \A i \in 1..r.at : CheckedAfter(c, r.updates[i])
        BY <3>4, <3>6, <3>7
      <3> QED BY <3>1, <3>5, <3>8
    <2>5. CASE /\ u.val # Keep
               /\ Matches(Seen(c, u.id), u)
               /\ req'[c] = Batch(r.updates, r.at + 1,
                      [r.pending EXCEPT ![u.id] = Set(Seen(c, u.id), u.val, Keep)])
      <3>1. req'[c].updates = r.updates /\ req'[c].at = r.at + 1
            /\ req'[c].pending = [r.pending EXCEPT ![u.id] = Set(Seen(c, u.id), u.val, Keep)]
            /\ req'[c].phase = "batch"
        BY <2>5 DEF Batch
      <3>2. Seen(c, u.id) \in Row
        BY <2>1, <2>2, <2>5 DEF Matches, Seen, TypeOK
      <3>3. Set(Seen(c, u.id), u.val, Keep) # Absent
        BY <2>2, <3>2, SetRow, Keys
      <3>4. \A x \in RecordIds : Holds(c, x) \/ x = u.id => HoldsAfter(c, x)
        BY <2>1, <2>2, <3>1, <3>3 DEF Holds, HoldsAfter, At
      <3>5. u.versioned => rows[u.id].ver = u.base.ver
        <4> SUFFICES ASSUME u.versioned PROVE rows[u.id].ver = u.base.ver
          OBVIOUS
        <4>1. Seen(c, u.id).ver = u.base.ver
          BY <2>5 DEF Matches
        <4>2. Snapshot(u.base, u.id)
          BY <2>1 DEF BatchesAreSnapshots
        <4>3. rows[u.id] \in Row
          BY <2>2, <4>2 DEF Snapshot, TypeOK
        <4>4. ~Holds(c, u.id)
          <5> SUFFICES ASSUME Holds(c, u.id) PROVE FALSE
            OBVIOUS
          <5>1. req[c].pending[u.id].ver > rows[u.id].ver
            BY <2>2 DEF PendingIsNewer
          <5>2. Seen(c, u.id) = req[c].pending[u.id]
            BY DEF Seen, Holds
          <5> QED BY <2>2, <3>2, <4>1, <4>2, <4>3, <5>1, <5>2 DEF Snapshot, Row
        <4> QED BY <2>1, <4>1, <4>4 DEF Seen, Holds
      <3>6. \A i \in 1..(r.at - 1) : r.updates[i].id \in RecordIds
        BY <2>1, BatchLocals
      <3>7. \A i \in 1..r.at : i = r.at \/ i \in 1..(r.at - 1)
        BY <2>1
      <3>8. (r.at + 1) - 1 = r.at /\ r.at + 1 <= Len(r.updates) + 1
        BY <2>1
      <3>9. \A i \in 1..(r.at - 1) : CheckedAfter(c, r.updates[i])
        BY <2>1, <2>3, <3>4, <3>6 DEF CheckedAfter
      <3>10. CheckedAfter(c, r.updates[r.at])
        BY <2>1, <2>2, <3>4, <3>5 DEF CheckedAfter
      <3>11. \A i \in 1..r.at : CheckedAfter(c, r.updates[i])
        BY <3>7, <3>9, <3>10
      <3> QED BY <3>1, <3>8, <3>11
    <2>6. CASE req'[c] = Idle
      BY <2>6 DEF Idle, At
    <2> QED BY <1>3, <2>4, <2>5, <2>6, BatchStepOutcome
  <1>4. CASE FetchOld(c) \/ CheckStatus(c) \/ BeginUpdate(c)
    <2>1. req'[c].phase # "batch"
      BY <1>4, BegunCall DEF FetchOld, CheckStatus, Goto, TypeOK, Check, Write, Idle
    <2> QED BY <2>1 DEF At
  <1> QED BY <1>1, <1>2, <1>3, <1>4, StepTaken DEF At

LEMMA NextVersion == VersionInv /\ [Next]_vars => VersionInv'
  <1>1. VersionInv /\ Next => VersionInv'
    <2> SUFFICES ASSUME VersionInv, Next PROVE VersionInv'
      OBVIOUS
    <2>1. TypeOK'
      BY NextType DEF VersionInv
    <2> QED
      BY <2>1, FormsKept, CallsKept, ReadsKept, BatchesKept, LocksKept, PendingKept,
         CheckedKept DEF VersionInv
  <1>2. VersionInv /\ UNCHANGED vars => VersionInv'
    <2> SUFFICES ASSUME VersionInv, UNCHANGED vars PROVE VersionInv'
      OBVIOUS
    <2>1. rows' = rows /\ form' = form /\ req' = req
      BY DEF vars
    <2>2. TypeOK'
      BY NextType DEF VersionInv
    <2>3. FormsAreSnapshots' /\ CallsAreSnapshots' /\ BatchesAreSnapshots'
      <3>1. FormsAreSnapshots /\ CallsAreSnapshots /\ BatchesAreSnapshots
        BY DEF VersionInv
      <3> QED
        BY <2>1, <3>1, Zenon
        DEF FormsAreSnapshots, CallsAreSnapshots, BatchesAreSnapshots, Snapshot, At
    <2>4. ReadsHold'
      <3>1. ReadsHold
        BY DEF VersionInv
      <3> QED BY <2>1, <3>1, Zenon DEF ReadsHold, EditAllowed
    <2>5. LocksExclusive' /\ PendingIsNewer' /\ CheckedIsHeld'
      <3>1. LocksExclusive /\ PendingIsNewer /\ CheckedIsHeld
        BY DEF VersionInv
      <3> QED
        BY <2>1, <3>1, Zenon DEF LocksExclusive, PendingIsNewer, CheckedIsHeld, Holds, At, Live
    <2> QED BY <2>2, <2>3, <2>4, <2>5 DEF VersionInv
  <1> QED BY <1>1, <1>2

(***************************************************************************)
(* Optimistic locking.                                                      *)
(***************************************************************************)
\* Only WriteRow changes rows for a client at its UPDATE, and only BatchCommit
\* for a client with a batch.
LEMMA WhoWrites ==
    ASSUME VersionInv, Next, NEW c \in Clients, rows' # rows, req'[c] # req[c]
    PROVE  /\ At(c, "write") => WriteRow(c)
           /\ At(c, "batch") => BatchCommit(c)
  <1> USE DEF VersionInv, TypeOK
  <1>1. \E d \in Clients :
          WriteRow(d) \/ Create(d) \/ BulkCreate(d) \/ Delete(d) \/ BulkDelete(d)
            \/ BatchCommit(d)
    BY DEF Next, UpdateSteps, BatchSteps, OtherSteps, Faulty, BeginUpdate, FetchOld,
           CheckStatus, DeleteLinks, InsertLinks, BeginBatch, BatchStep, DeadlockAborts,
           Load, RecordChange, Publish, RequestFails, RecordChangeFails, Restart
  <1>2. PICK d \in Clients :
          WriteRow(d) \/ Create(d) \/ BulkCreate(d) \/ Delete(d) \/ BulkDelete(d)
            \/ BatchCommit(d)
    BY <1>1
  <1>3. ~BulkCreate(d) /\ ~BulkDelete(d)
    BY DEF BulkCreate, BulkDelete
  <1>4. d = c
    BY <1>2, <1>3 DEF WriteRow, Create, Delete, BatchCommit, Goto
  <1> QED BY <1>2, <1>3, <1>4 DEF WriteRow, Create, Delete, BatchCommit, Called, At

\* A row's snapshot of its own version is the row.
LEMMA SnapshotIsRow ==
    ASSUME NEW b \in Row, NEW id, rows[id] \in Row, Snapshot(b, id),
           b.ver = rows[id].ver, ~rows[id].deleted
    PROVE  rows[id] = b
  BY DEF Snapshot, Row

LEMMA VersionedWrite ==
    ASSUME VersionInv, Next, NEW c \in Clients, Writes(c)
    PROVE  LET k == req[c].call IN
           /\ k \in UpdateCall /\ rows[k.id] \in Row
           /\ Matches(rows[k.id], k)
           /\ rows'[k.id] = Set(rows[k.id], k.val, k.status)
           /\ k.versioned => rows[k.id] = k.base
  <1> USE DEF VersionInv
  <1> DEFINE k == req[c].call
  <1>1. WriteRow(c)
    BY WhoWrites DEF Writes
  <1>2. k \in UpdateCall
    BY <1>1, Locals DEF WriteRow, At, TypeOK
  <1>3. Matches(rows[k.id], k)
    BY <1>1 DEF WriteRow, Writes
  <1>4. k.id \in RecordIds /\ k.base \in Row /\ rows[k.id] \in Row /\ ~rows[k.id].deleted
    BY <1>2, <1>3 DEF Matches, UpdateCall, TypeOK
  <1>5. rows'[k.id] = Set(rows[k.id], k.val, k.status)
    BY <1>1, <1>3, <1>4 DEF WriteRow, TypeOK
  <1>6. Snapshot(k.base, k.id)
    BY <1>1 DEF CallsAreSnapshots, WriteRow, At
  <1>7. k.versioned => rows[k.id] = k.base
    BY <1>3, <1>4, <1>6, SnapshotIsRow DEF Matches
  <1> QED BY <1>2, <1>3, <1>4, <1>5, <1>7

LEMMA VersionedCommit ==
    ASSUME VersionInv, Next, NEW c \in Clients, Commits(c),
           NEW i \in 1..Len(req[c].updates),
           req[c].updates[i].versioned, req[c].updates[i].val # Keep
    PROVE  rows[req[c].updates[i].id] = req[c].updates[i].base
  <1> USE DEF VersionInv
  <1> DEFINE u == req[c].updates[i]
  <1>1. BatchCommit(c) /\ At(c, "batch")
    BY WhoWrites DEF Commits
  <1>2. req[c].at > Len(req[c].updates) /\ req[c].at \in Nat
        /\ Len(req[c].updates) \in Nat
        /\ u.id \in RecordIds /\ u.base \in Row
    BY <1>1, BatchLocals DEF BatchCommit
  <1>3. i \in 1..(req[c].at - 1)
    BY <1>2
  <1>4. Holds(c, u.id) /\ rows[u.id].ver = u.base.ver
    BY <1>1, <1>3 DEF CheckedIsHeld
  <1>5. Live(u.id) /\ rows[u.id] \in Row
    BY <1>2, <1>4 DEF PendingIsNewer, Live, TypeOK
  <1>6. Snapshot(u.base, u.id)
    BY <1>1 DEF BatchesAreSnapshots
  <1> QED BY <1>2, <1>4, <1>5, <1>6, SnapshotIsRow DEF Live

\* Optimistic locking for any number of clients, records and updates in a
\* batch: a request that carries _version replaces the row its user loaded.
THEOREM NoLostUpdateCorrect == Spec => NoLostUpdate
  <1> DEFINE A == \A c \in Clients :
                    /\ Writes(c) /\ req[c].call.versioned
                         => rows[req[c].call.id] = req[c].call.base
                    /\ Commits(c) => \A i \in 1..Len(req[c].updates) :
                         LET u == req[c].updates[i] IN
                         u.versioned /\ u.val # Keep => rows[u.id] = u.base
  <1>1. VersionInv /\ [Next]_vars => [A]_vars
    BY VersionedWrite, VersionedCommit
  <1> QED BY InitVersion, NextVersion, <1>1, PTL DEF Spec, NoLostUpdate

\* A request that carries _version moves status and select value along allowed
\* transitions of what it replaces, whatever requests without one do meanwhile.
THEOREM TransitionsCorrect == Spec => TransitionsRespected
  <1> DEFINE A == \A c \in Clients :
                    Writes(c) /\ req[c].call.versioned => StatusMoves(c) /\ ValueMoves(c)
  <1>1. ASSUME VersionInv, Next, NEW c \in Clients, Writes(c), req[c].call.versioned
        PROVE  StatusMoves(c) /\ ValueMoves(c)
    <2> DEFINE k == req[c].call
    <2>1. /\ k \in UpdateCall /\ rows[k.id] \in Row
          /\ Matches(rows[k.id], k)
          /\ rows'[k.id] = Set(rows[k.id], k.val, k.status)
      BY <1>1, VersionedWrite
    <2>2. req[c].phase = "write"
      BY <1>1 DEF Writes, At
    <2>3. k.base.ver = rows[k.id].ver
      BY <1>1, <2>1 DEF Matches
    <2>4. /\ EditAllowed(req[c].old, k.val)
          /\ req[c].old.val = rows[k.id].val
          /\ k.status # Keep => <<rows[k.id].status, k.status>> \in Transitions
      BY <1>1, <2>2, <2>3 DEF VersionInv, ReadsHold
    <2>5. k.val \in Values \cup {Keep} /\ k.status \in Statuses \cup {Keep}
      BY <2>1 DEF UpdateCall
    <2>6. /\ k.val = Keep => rows'[k.id].val = rows[k.id].val
          /\ k.val # Keep => rows'[k.id].val = k.val
          /\ k.status = Keep => rows'[k.id].status = rows[k.id].status
          /\ k.status # Keep => rows'[k.id].status = k.status
      BY <2>1, <2>5 DEF Set
    <2> QED BY <2>4, <2>6 DEF EditAllowed, StatusMoves, ValueMoves
  <1>2. VersionInv /\ [Next]_vars => [A]_vars
    BY <1>1
  <1> QED BY InitVersion, NextVersion, <1>2, PTL DEF Spec, TransitionsRespected

\* For a request that carries _version the history and the event report the
\* value the UPDATE replaced.
THEOREM DiffCorrect == Spec => DiffExact
  <1> DEFINE A == \A c \in Clients : Writes(c) /\ req[c].call.versioned =>
                    req[c].old.val = rows[req[c].call.id].val
  <1>1. ASSUME VersionInv, Next, NEW c \in Clients, Writes(c), req[c].call.versioned
        PROVE  req[c].old.val = rows[req[c].call.id].val
    <2>1. req[c].phase = "write" /\ Matches(rows[req[c].call.id], req[c].call)
      BY <1>1, VersionedWrite DEF Writes, At
    <2> QED BY <1>1, <2>1 DEF VersionInv, ReadsHold, Matches
  <1>2. VersionInv /\ [Next]_vars => [A]_vars
    BY <1>1
  <1> QED BY InitVersion, NextVersion, <1>2, PTL DEF Spec, DiffExact

-----------------------------------------------------------------------------
(***************************************************************************)
(* The change history is complete, for any sets of clients, records and     *)
(* values, with and without _version.  Between the commit and the insert    *)
(* into _history.record_changes the change exists only in the handler that  *)
(* is about to record it: the invariant follows it there, and it follows    *)
(* the old value a handler compares with, which may long be replaced.       *)
(***************************************************************************)
(***************************************************************************)
(* The inductive invariant.                                                *)
(***************************************************************************)
\* The changes a handler has still to record, and the events it will publish.
Entries(c) ==
    IF At(c, "announce") THEN req[c].entries
    ELSE IF At(c, "unlink") \/ At(c, "link") THEN req[c].then.entries
    ELSE {}

Promised(c) ==
    IF At(c, "announce") THEN req[c].events
    ELSE IF At(c, "unlink") \/ At(c, "link") THEN req[c].then.events
    ELSE {}

\* v is in the history of record id, or on its way there.
Written(id, v) ==
    \/ v \in Changes(id)
    \/ \E c \in Clients : \E p \in Entries(c) : p[1] = id /\ p[2].val = v

Announced(id, t) ==
    t \in published[id] \/ \E c \in Clients : <<id, t>> \in Promised(c)

HistoryKept ==
    faults = 0 => \A id \in RecordIds :
        /\ Announced(id, "record_created") =>
             rows[id] # Absent /\ Written(id, rows[id].val)
        /\ Announced(id, "record_deleted") => Written(id, Absent)

\* The uncommitted value of a row is the value of an update of the batch.
Listed(c, id) ==
    \E i \in 1..Len(req[c].updates) :
        /\ req[c].updates[i].id = id
        /\ req[c].updates[i].val # Keep
        /\ req[c].updates[i].val = req[c].pending[id].val

PendingListed ==
    \A c \in Clients, id \in RecordIds : Holds(c, id) => Listed(c, id)

\* The old value a handler compares with is one the history has or will have:
\* a request without _version may put it back and record nothing.
FetchedWritten ==
    faults = 0 => \A c \in Clients :
        req[c].phase \in {"check", "write"}
          /\ Announced(req[c].call.id, "record_created")
            => Written(req[c].call.id, req[c].old.val)

HistoryInv == VersionInv /\ PendingListed /\ HistoryKept /\ FetchedWritten

\* What is written stays written, and only a record that was not there begins
\* to be announced as created.
Grown ==
    /\ \A id \in RecordIds : \A v : Written(id, v) => Written(id, v)'
    /\ \A id \in RecordIds :
          Announced(id, "record_created")' =>
            Announced(id, "record_created") \/ rows[id] = Absent

LEMMA InitHistory == Init => HistoryInv
  <1> SUFFICES ASSUME Init PROVE HistoryInv
    OBVIOUS
  <1>1. \A c \in Clients : Entries(c) = {} /\ Promised(c) = {} /\ ~At(c, "batch")
    BY DEF Init, Idle, At, Entries, Promised
  <1>2. \A id \in RecordIds : published[id] = {}
    BY DEF Init
  <1>3. \A c \in Clients : req[c].phase = "idle"
    BY DEF Init, Idle
  <1> QED
    BY <1>1, <1>2, <1>3, InitVersion
    DEF HistoryInv, PendingListed, HistoryKept, FetchedWritten, Holds, Announced

(***************************************************************************)
(* Batches.                                                                *)
(***************************************************************************)
LEMMA ListedKept ==
    ASSUME VersionInv, PendingListed, TypeOK', Next
    PROVE  PendingListed'
  <1> USE DEF VersionInv
  <1> SUFFICES ASSUME NEW c \in Clients, NEW id \in RecordIds, Holds(c, id)'
               PROVE  Listed(c, id)'
    BY DEF PendingListed
  <1>1. CASE req'[c] = req[c]
    BY <1>1 DEF PendingListed, Listed, Holds, At
  <1>2. CASE BeginBatch(c)
    \* It holds nothing yet.
    <2>1. req'[c].pending = [x \in RecordIds |-> Absent]
      BY <1>2, BegunBatch
    <2> QED BY <2>1 DEF Holds
  <1>3. CASE BatchStep(c)
    <2> DEFINE u == NextItem(c)
               r == req[c]
    <2>1. /\ At(c, "batch") /\ r.at \in 1..Len(r.updates)
          /\ \/ req'[c] = Idle
             \/ req'[c] = Batch(r.updates, r.at + 1, r.pending)
             \/ /\ u.val # Keep
                /\ Matches(Seen(c, u.id), u)
                /\ req'[c] = Batch(r.updates, r.at + 1,
                       [r.pending EXCEPT ![u.id] = Set(Seen(c, u.id), u.val, Keep)])
      BY <1>3, BatchStepOutcome
    <2>2. /\ r.pending \in [RecordIds -> Row \cup {Absent}]
          /\ u.id \in RecordIds /\ u.val \in Values \cup {Keep}
      BY <2>1, BatchLocals DEF NextItem
    <2>3. req'[c] # Idle
      BY DEF Holds, At, Idle
    <2>4. CASE req'[c] = Batch(r.updates, r.at + 1, r.pending)
      BY <2>1, <2>4 DEF PendingListed, Listed, Holds, At, Batch
    <2>5. CASE /\ u.val # Keep
               /\ Matches(Seen(c, u.id), u)
               /\ req'[c] = Batch(r.updates, r.at + 1,
                      [r.pending EXCEPT ![u.id] = Set(Seen(c, u.id), u.val, Keep)])
      <3>1. Set(Seen(c, u.id), u.val, Keep).val = u.val
        BY <2>5 DEF Set
      <3>2. /\ req'[c].updates = r.updates
            /\ req'[c].pending = [r.pending EXCEPT ![u.id] = Set(Seen(c, u.id), u.val, Keep)]
        BY <2>5 DEF Batch
      <3>3. CASE id = u.id
        <4>1. req'[c].pending[id].val = u.val
          BY <2>2, <3>1, <3>2, <3>3
        <4> QED BY <2>1, <2>5, <3>2, <3>3, <4>1 DEF Listed, NextItem
      <3>4. CASE id # u.id
        <4>1. req'[c].pending[id] = r.pending[id]
          BY <2>2, <3>2, <3>4
        <4> QED BY <2>1, <3>2, <4>1 DEF PendingListed, Listed, Holds
      <3> QED BY <3>3, <3>4
    <2> QED BY <2>1, <2>3, <2>4, <2>5
  <1>4. CASE BeginUpdate(c) \/ FetchOld(c) \/ CheckStatus(c)
    <2>1. ~At(c, "batch")'
      BY <1>4 DEF BeginUpdate, FetchOld, CheckStatus, Goto, At, TypeOK,
                  Fetch, Check, Write, Idle
    <2> QED BY <2>1 DEF Holds
  <1> QED BY <1>1, <1>2, <1>3, <1>4, StepTaken DEF Holds, At

(***************************************************************************)
(* Steps.                                                                  *)
(***************************************************************************)
\* The other handlers keep what they carry.
LEMMA Bystanders ==
    ASSUME NEW c \in Clients, \A d \in Clients \ {c} : req'[d] = req[d]
    PROVE  \A d \in Clients \ {c} : Entries(d)' = Entries(d) /\ Promised(d)' = Promised(d)
  BY DEF Entries, Promised, At

\* A handler that moves moves alone.
LEMMA Alone ==
    ASSUME TypeOK, NEW c \in Clients, NEW r, Goto(c, r)
    PROVE  req'[c] = r /\ \A d \in Clients \ {c} : req'[d] = req[d]
  BY DEF Goto, TypeOK

\* A step after which every record has its value, its events and its history
\* carried or stored as before.
LEMMA Nothing ==
    ASSUME HistoryKept, UNCHANGED <<history, published>>,
           \A d \in Clients : Entries(d)' = Entries(d) /\ Promised(d)' = Promised(d),
           \A id \in RecordIds : rows[id] # Absent =>
               rows'[id] # Absent /\ rows'[id].val = rows[id].val,
           faults' = 0 => faults = 0
    PROVE  HistoryKept' /\ Grown
  <1>1. \A id \in RecordIds : \A t : Announced(id, t)' = Announced(id, t)
    BY DEF Announced
  <1>2. \A id \in RecordIds : \A v : Written(id, v) => Written(id, v)'
    BY DEF Written, Changes
  <1> QED BY <1>1, <1>2 DEF HistoryKept, Grown

\* Steps of the handlers that neither write rows nor record nor publish.
LEMMA SilentSteps ==
    ASSUME TypeOK, HistoryKept, NEW c \in Clients,
           \/ Load(c) \/ BeginUpdate(c) \/ FetchOld(c) \/ CheckStatus(c)
           \/ DeleteLinks(c) \/ InsertLinks(c)
           \/ BeginBatch(c) \/ BatchStep(c) \/ DeadlockAborts(c)
    PROVE  HistoryKept' /\ Grown
  <1>1. UNCHANGED <<rows, history, published, faults>>
    BY DEF Load, BeginUpdate, FetchOld, CheckStatus, DeleteLinks, InsertLinks,
           BeginBatch, BatchStep, DeadlockAborts
  <1>2. /\ Entries(c)' = Entries(c) /\ Promised(c)' = Promised(c)
        /\ \A d \in Clients \ {c} : req'[d] = req[d]
    <2>1. CASE Load(c)
      BY <2>1 DEF Load, Entries, Promised, At
    <2>2. CASE BeginUpdate(c) \/ BeginBatch(c)
      <3>1. PICK r : Goto(c, r) /\ r.phase \in {"fetch", "batch"} /\ At(c, "idle")
        BY <2>2 DEF BeginUpdate, BeginBatch, Called, Fetch, Batch
      <3> QED BY <3>1, Alone DEF Entries, Promised, At
    <2>3. CASE FetchOld(c) \/ CheckStatus(c)
      <3>1. PICK r : /\ Goto(c, r) /\ r.phase \in {"idle", "check", "write"}
                     /\ req[c].phase \in {"fetch", "check"}
        BY <2>3 DEF FetchOld, CheckStatus, Check, Write, Idle, At
      <3> QED BY <3>1, Alone DEF Entries, Promised, At
    <2>4. CASE BatchStep(c) \/ DeadlockAborts(c)
      <3>1. PICK r : Goto(c, r) /\ r.phase \in {"idle", "batch"}
        BY <2>4 DEF BatchStep, DeadlockAborts, Conflict, Batch, Idle
      <3>2. At(c, "batch")
        <4>1. CASE BatchStep(c)
          BY <4>1 DEF BatchStep, InBatch
        <4>2. CASE DeadlockAborts(c)
          BY <4>2 DEF DeadlockAborts, Deadlocked, Waits, InBatch
        <4> QED BY <2>4, <4>1, <4>2
      <3> QED BY <3>1, <3>2, Alone DEF Entries, Promised, At
    <2>5. CASE DeleteLinks(c)
      \* What it carries is still to be announced.
      <3>1. req[c].then \in Announcement
        BY <2>5, Locals DEF DeleteLinks, At, TypeOK
      <3>2. PICK r : /\ Goto(c, r) /\ At(c, "unlink")
                     /\ r = req[c].then \/ (r.phase = "link" /\ r.then = req[c].then)
        BY <2>5 DEF DeleteLinks, Link
      <3> QED BY <3>1, <3>2, Alone DEF Entries, Promised, At, Announcement
    <2>6. CASE InsertLinks(c)
      <3>1. req[c].then \in Announcement
        BY <2>6, Locals DEF InsertLinks, At, TypeOK
      <3>2. Goto(c, req[c].then) /\ At(c, "link")
        BY <2>6 DEF InsertLinks
      <3> QED BY <3>1, <3>2, Alone DEF Entries, Promised, At, Announcement
    <2> QED BY <2>1, <2>2, <2>3, <2>4, <2>5, <2>6
  <1> QED BY <1>1, <1>2, Bystanders, Nothing

\* Bulk handlers: a row that was there keeps its value.
LEMMA BulkSteps ==
    ASSUME TypeOK, HistoryKept, NEW c \in Clients, BulkCreate(c) \/ BulkDelete(c)
    PROVE  HistoryKept' /\ Grown
  <1>1. UNCHANGED <<req, history, published, faults>>
    BY DEF BulkCreate, BulkDelete
  <1>2. \A d \in Clients : Entries(d)' = Entries(d) /\ Promised(d)' = Promised(d)
    BY <1>1 DEF Entries, Promised, At
  <1>3. ASSUME NEW id \in RecordIds, rows[id] # Absent
        PROVE  rows'[id] # Absent /\ rows'[id].val = rows[id].val
    <2>1. CASE BulkCreate(c)
      BY <1>3, <2>1 DEF BulkCreate, NewIds
    <2>2. CASE BulkDelete(c)
      <3>1. rows[id] \in Row
        BY <1>3, RowType DEF TypeOK
      <3>2. [rows[id] EXCEPT !.deleted = TRUE] \in Row
            /\ [rows[id] EXCEPT !.deleted = TRUE].val = rows[id].val
        BY <3>1 DEF Row
      <3>3. rows'[id] = rows[id] \/ rows'[id] = [rows[id] EXCEPT !.deleted = TRUE]
        BY <2>2 DEF BulkDelete, MarkDeleted
      <3> QED BY <1>3, <3>2, <3>3, Keys
    <2> QED BY <2>1, <2>2
  <1> QED BY <1>1, <1>2, <1>3, Nothing

\* A write by c: it carried nothing before, and afterwards the new value of
\* every record whose value it changed or created, and a deletion it made.
LEMMA WritingStep ==
    ASSUME HistoryKept, NEW c \in Clients,
           UNCHANGED <<history, published, faults>>,
           \A d \in Clients \ {c} : req'[d] = req[d],
           Entries(c) = {}, Promised(c) = {},
           \A id \in RecordIds :
             /\ rows[id] # Absent =>
                  /\ rows'[id] # Absent
                  /\ \/ rows'[id].val = rows[id].val
                     \/ \E p \in Entries(c)' : p[1] = id /\ p[2].val = rows'[id].val
                     \/ \E v : /\ v = rows'[id].val
                               /\ faults = 0 /\ Announced(id, "record_created")
                                    => Written(id, v)
             /\ <<id, "record_created">> \in Promised(c)' =>
                  /\ rows[id] = Absent /\ rows'[id] # Absent
                  /\ \E p \in Entries(c)' : p[1] = id /\ p[2].val = rows'[id].val
             /\ <<id, "record_deleted">> \in Promised(c)' =>
                  \E p \in Entries(c)' : p[1] = id /\ p[2].val = Absent
    PROVE  HistoryKept' /\ Grown
  <1>1. \A id \in RecordIds : \A t :
          Announced(id, t)' => Announced(id, t) \/ <<id, t>> \in Promised(c)'
    BY Bystanders DEF Announced
  <1>2. \A id \in RecordIds : \A v : Written(id, v) => Written(id, v)'
    BY Bystanders DEF Written, Changes
  <1>3. \A id \in RecordIds : \A v :
          (\E p \in Entries(c)' : p[1] = id /\ p[2].val = v) => Written(id, v)'
    BY DEF Written
  <1>8. Grown
    BY <1>1, <1>2 DEF Grown
  <1> SUFFICES ASSUME faults' = 0, NEW id \in RecordIds
               PROVE  /\ Announced(id, "record_created")' =>
                           rows'[id] # Absent /\ Written(id, rows[id].val)'
                      /\ Announced(id, "record_deleted")' => Written(id, Absent)'
    BY <1>8 DEF HistoryKept
  <1>4. /\ Announced(id, "record_created") =>
             rows[id] # Absent /\ Written(id, rows[id].val)
        /\ Announced(id, "record_deleted") => Written(id, Absent)
    BY DEF HistoryKept
  <1>5. ASSUME Announced(id, "record_created")
        PROVE  rows'[id] # Absent /\ Written(id, rows[id].val)'
    <2> DEFINE Then(v) ==
                 \/ v \in Changes(id)'
                 \/ \E d \in Clients : \E p \in Entries(d)' : p[1] = id /\ p[2].val = v
    <2>1. Written(id, rows[id].val) /\ rows[id] # Absent
      BY <1>4, <1>5
    <2>2. Then(rows[id].val)
      BY <2>1, Bystanders DEF Written, Changes
    <2>3. rows'[id] # Absent
          /\ \/ rows'[id].val = rows[id].val
             \/ \E p \in Entries(c)' : p[1] = id /\ p[2].val = rows'[id].val
             \/ \E v : v = rows'[id].val /\ Written(id, v)
      BY <1>5, <2>1
    <2>6. ASSUME NEW v, Written(id, v) PROVE Then(v)
      BY <2>6, Bystanders DEF Written, Changes
    <2>4. Then(rows'[id].val)
      BY <2>2, <2>3, <2>6
    <2>5. Written(id, rows[id].val)'
      BY <2>4 DEF Written
    <2> QED BY <2>3, <2>5
  <1>6. ASSUME <<id, "record_created">> \in Promised(c)'
        PROVE  rows'[id] # Absent /\ Written(id, rows[id].val)'
    BY <1>6 DEF Written
  <1>7. Announced(id, "record_deleted")' => Written(id, Absent)'
    BY <1>1, <1>2, <1>3, <1>4
  <1> QED BY <1>1, <1>5, <1>6, <1>7

\* Create carries the value and Delete the deletion they announce.
LEMMA CreateDelete ==
    ASSUME TypeOK, HistoryKept, NEW c \in Clients, Create(c) \/ Delete(c)
    PROVE  HistoryKept' /\ Grown
  <1>1. /\ UNCHANGED <<history, published, faults>>
        /\ At(c, "idle")
    BY DEF Create, Delete, Called
  <1>2. Entries(c) = {} /\ Promised(c) = {}
    BY <1>1 DEF Entries, Promised, At
  <1>3. CASE Create(c)
    <2>1. PICK x \in NewIds, v \in Values :
            /\ rows' = [rows EXCEPT ![x] = NewRow(v)]
            /\ Goto(c, Announce({<<x, [op |-> "create", val |-> v]>>},
                                {<<x, "record_created">>}))
      BY <1>3 DEF Create
    <2> DEFINE e == <<x, [op |-> "create", val |-> v]>>
    <2>2. /\ Entries(c)' = {e} /\ Promised(c)' = {<<x, "record_created">>}
          /\ \A d \in Clients \ {c} : req'[d] = req[d]
      BY <2>1, Alone DEF Announce, Entries, Promised, At
    <2>3. /\ x \in RecordIds /\ rows[x] = Absent
          /\ rows'[x] = NewRow(v)
          /\ \A id \in RecordIds \ {x} : rows'[id] = rows[id]
      BY <2>1 DEF NewIds, TypeOK
    <2>4. NewRow(v).val = v /\ NewRow(v) # Absent
      <3>1. NewRow(v) \in Row
        BY RecordsAssumption DEF NewRow, Row
      <3> QED BY <3>1, Keys DEF NewRow
    <2>5. e[1] = x /\ e[2].val = v
      OBVIOUS
    <2>6. ASSUME NEW id \in RecordIds
          PROVE  /\ rows[id] # Absent =>
                      rows'[id] # Absent /\ rows'[id].val = rows[id].val
                 /\ <<id, "record_created">> \in Promised(c)' =>
                      /\ rows[id] = Absent /\ rows'[id] # Absent
                      /\ \E p \in Entries(c)' : p[1] = id /\ p[2].val = rows'[id].val
                 /\ <<id, "record_deleted">> \notin Promised(c)'
      <3> HIDE DEF e
      <3> QED BY <2>2, <2>3, <2>4, <2>5
    <2> QED BY <1>1, <1>2, <2>2, <2>6, WritingStep
  <1>4. CASE Delete(c)
    <2>1. PICK x \in RecordIds :
            /\ MarkDeleted({x})
            /\ Goto(c, Announce({<<x, [op |-> "delete", val |-> Absent]>>},
                                {<<x, "record_deleted">>}))
      BY <1>4 DEF Delete
    <2> DEFINE e == <<x, [op |-> "delete", val |-> Absent]>>
    <2>2. /\ Entries(c)' = {e} /\ Promised(c)' = {<<x, "record_deleted">>}
          /\ \A d \in Clients \ {c} : req'[d] = req[d]
      BY <2>1, Alone DEF Announce, Entries, Promised, At
    <2>3. ASSUME NEW id \in RecordIds, rows[id] # Absent
          PROVE  rows'[id] # Absent /\ rows'[id].val = rows[id].val
      <3>1. rows[id] \in Row
        BY <2>3, RowType DEF TypeOK
      <3>2. [rows[id] EXCEPT !.deleted = TRUE] \in Row
            /\ [rows[id] EXCEPT !.deleted = TRUE].val = rows[id].val
        BY <3>1 DEF Row
      <3>3. rows'[id] = rows[id] \/ rows'[id] = [rows[id] EXCEPT !.deleted = TRUE]
        BY <2>1 DEF MarkDeleted
      <3> QED BY <2>3, <3>2, <3>3, Keys
    <2>4. e[1] = x /\ e[2].val = Absent
      OBVIOUS
    <2>5. ASSUME NEW id \in RecordIds
          PROVE  /\ <<id, "record_created">> \notin Promised(c)'
                 /\ <<id, "record_deleted">> \in Promised(c)' =>
                      \E p \in Entries(c)' : p[1] = id /\ p[2].val = Absent
      <3> HIDE DEF e
      <3> QED BY <2>2, <2>4
    <2> QED BY <1>1, <1>2, <2>2, <2>3, <2>5, WritingStep
  <1> QED BY <1>3, <1>4

\* An UPDATE carries the new value unless it is the one that was fetched.
LEMMA WriteStep ==
    ASSUME VersionInv, HistoryKept, FetchedWritten, NEW c \in Clients, WriteRow(c)
    PROVE  HistoryKept' /\ Grown
  <1> USE DEF VersionInv
  <1> DEFINE k == req[c].call
             new == Set(rows[k.id], k.val, k.status)
  <1>1. /\ UNCHANGED <<history, published, faults>>
        /\ At(c, "write")
    BY DEF WriteRow
  <1>2. Entries(c) = {} /\ Promised(c) = {}
    BY <1>1 DEF Entries, Promised, At
  <1>3. k \in UpdateCall /\ k.id \in RecordIds /\ k.links \in {Keep} \cup SUBSET Targets
    BY <1>1, Locals DEF At, TypeOK, UpdateCall
  <1>4. CASE ~Matches(rows[k.id], k)
    <2>1. Goto(c, Idle) /\ rows' = rows
      BY <1>4 DEF WriteRow
    <2>2. Entries(c)' = {} /\ Promised(c)' = {}
      BY <2>1, Alone DEF Idle, Entries, Promised, At
    <2> QED BY <1>1, <1>2, <2>1, <2>2, Alone, WritingStep
  <1>5. CASE Matches(rows[k.id], k)
    <2> DEFINE es == UpdateEntries(k.id, req[c].old, new)
               evs == UpdateEvents(k.id, req[c].old, new)
    <2>1. /\ rows' = [rows EXCEPT ![k.id] = new]
          /\ Goto(c, IF k.links = Keep THEN Announce(es, evs)
                     ELSE Unlink(k.id, k.links, Announce(es, evs)))
      BY <1>5 DEF WriteRow
    <2>2. Entries(c)' = es /\ Promised(c)' = evs
      <3> HIDE DEF es, evs, k
      <3> QED BY <2>1, Alone DEF Announce, Unlink, Entries, Promised, At
    <2>3. rows[k.id] \in Row
      BY <1>3, <1>5, RowType DEF Matches, TypeOK
    <2>4. new \in Row
      BY <1>3, <2>3, SetRow DEF UpdateCall
    <2>6. new.val = req[c].old.val \/ \E p \in es : p[1] = k.id /\ p[2].val = new.val
      BY DEF UpdateEntries
    <2>5. faults = 0 /\ Announced(k.id, "record_created") => Written(k.id, req[c].old.val)
      BY <1>1 DEF FetchedWritten, At
    <2>7. \A id \in RecordIds : /\ <<id, "record_created">> \notin evs
                                /\ <<id, "record_deleted">> \notin evs
      BY DEF UpdateEvents
    <2>8. /\ rows'[k.id] = new
          /\ \A id \in RecordIds \ {k.id} : rows'[id] = rows[id]
      BY <1>3, <2>1 DEF TypeOK
    <2> HIDE DEF new, es, evs, k
    <2>9. ASSUME NEW id \in RecordIds, rows[id] # Absent
          PROVE  /\ rows'[id] # Absent
                 /\ \/ rows'[id].val = rows[id].val
                    \/ \E p \in Entries(c)' : p[1] = id /\ p[2].val = rows'[id].val
                    \/ \E v : /\ v = rows'[id].val
                              /\ faults = 0 /\ Announced(id, "record_created")
                                   => Written(id, v)
      BY <2>2, <2>4, <2>5, <2>6, <2>8, <2>9, Keys
    <2>10. \A d \in Clients \ {c} : req'[d] = req[d]
      BY <2>1, Alone
    <2> QED BY <1>1, <1>2, <2>2, <2>7, <2>9, <2>10, WritingStep
  <1> QED BY <1>4, <1>5

\* A commit carries the value of every row it replaces.
LEMMA CommitStep ==
    ASSUME VersionInv, PendingListed, HistoryKept, NEW c \in Clients, BatchCommit(c)
    PROVE  HistoryKept' /\ Grown
  <1> USE DEF VersionInv
  <1> DEFINE es == BatchEntries(req[c].updates, req[c].pending)
  <1>1. /\ UNCHANGED <<history, published, faults>>
        /\ At(c, "batch")
        /\ rows' = [id \in RecordIds |-> Seen(c, id)]
        /\ Goto(c, Announce(es, {}))
    BY DEF BatchCommit
  <1>2. Entries(c) = {} /\ Promised(c) = {}
    BY <1>1 DEF Entries, Promised, At
  <1>3. /\ Entries(c)' = es /\ Promised(c)' = {}
        /\ \A d \in Clients \ {c} : req'[d] = req[d]
    <2> HIDE DEF es
    <2> QED BY <1>1, Alone DEF Announce, Entries, Promised, At
  <1>4. ASSUME NEW id \in RecordIds, rows[id] # Absent
        PROVE  /\ rows'[id] # Absent
               /\ \/ rows'[id].val = rows[id].val
                  \/ \E p \in es : p[1] = id /\ p[2].val = rows'[id].val
    <2>1. CASE ~Holds(c, id)
      BY <1>1, <1>4, <2>1 DEF Seen, Holds
    <2>2. CASE Holds(c, id)
      <3>1. rows'[id] = req[c].pending[id] /\ rows'[id] # Absent
        BY <1>1, <2>2 DEF Seen, Holds
      <3>2. PICK i \in 1..Len(req[c].updates) :
              /\ req[c].updates[i].id = id
              /\ req[c].updates[i].val # Keep
              /\ req[c].updates[i].val = req[c].pending[id].val
        BY <2>2 DEF PendingListed, Listed
      <3> DEFINE u == req[c].updates[i]
      <3>3. <<u.id, [op |-> "update", val |-> u.val]>> \in es
        BY <2>2, <3>2 DEF BatchEntries, Holds
      <3> QED BY <3>1, <3>2, <3>3
    <2> QED BY <2>1, <2>2
  <1> QED BY <1>1, <1>2, <1>3, <1>4, WritingStep

\* recordChange moves a change from the handler to the history.
LEMMA RecordStep ==
    ASSUME TypeOK, HistoryKept, NEW c \in Clients, RecordChange(c)
    PROVE  HistoryKept' /\ Grown
  <1>1. PICK e \in req[c].entries :
          /\ history' = [history EXCEPT ![e[1]] = @ \cup {e[2]}]
          /\ Goto(c, Announce(req[c].entries \ {e}, req[c].events))
    BY DEF RecordChange
  <1>2. UNCHANGED <<rows, published, faults>> /\ At(c, "announce")
    BY DEF RecordChange
  <1>3. req[c].entries \in SUBSET (RecordIds \X Entry)
    BY <1>2, Locals DEF At, TypeOK
  <1>4. /\ Entries(c) = req[c].entries /\ Entries(c)' = Entries(c) \ {e}
        /\ Promised(c)' = Promised(c)
        /\ \A d \in Clients \ {c} : req'[d] = req[d]
    BY <1>1, <1>2, Alone DEF Announce, Entries, Promised, At
  <1>5. /\ \A id \in RecordIds : history[id] \subseteq history'[id]
        /\ e[1] \in RecordIds /\ e[2] \in history'[e[1]]
    BY <1>1, <1>3 DEF TypeOK
  <1>6. \A id \in RecordIds : \A t : Announced(id, t)' => Announced(id, t)
    BY <1>2, <1>4, Bystanders DEF Announced
  <1>7. \A id \in RecordIds : \A v : Written(id, v) => Written(id, v)'
    <2> SUFFICES ASSUME NEW id \in RecordIds, NEW v, Written(id, v)
                 PROVE  Written(id, v)'
      OBVIOUS
    <2>1. CASE v \in Changes(id)
      BY <1>5, <2>1 DEF Written, Changes
    <2>2. ASSUME NEW d \in Clients, NEW p \in Entries(d), p[1] = id, p[2].val = v
          PROVE  Written(id, v)'
      <3>1. CASE p \in Entries(d)'
        BY <2>2, <3>1 DEF Written
      <3>2. CASE p \notin Entries(d)'
        <4>1. p = e
          BY <1>4, <2>2, <3>2, Bystanders
        <4> QED BY <1>5, <2>2, <4>1 DEF Written, Changes
      <3> QED BY <3>1, <3>2
    <2> QED BY <2>1, <2>2 DEF Written
  <1> QED BY <1>2, <1>6, <1>7 DEF HistoryKept, Grown

\* Publish comes when every change is recorded.
LEMMA PublishStep ==
    ASSUME TypeOK, HistoryKept, NEW c \in Clients, Publish(c)
    PROVE  HistoryKept' /\ Grown
  <1>1. /\ UNCHANGED <<rows, history, faults>>
        /\ At(c, "announce") /\ req[c].entries = {}
        /\ Goto(c, Idle)
        /\ published' = [id \in RecordIds |->
              published[id] \cup {t \in EventTypes : <<id, t>> \in req[c].events}]
    BY DEF Publish
  <1>2. /\ Entries(c) = {} /\ Entries(c)' = {}
        /\ Promised(c) = req[c].events /\ Promised(c)' = {}
        /\ \A d \in Clients \ {c} : req'[d] = req[d]
    BY <1>1, Alone DEF Idle, Entries, Promised, At
  <1>3. \A id \in RecordIds : \A t : Announced(id, t)' => Announced(id, t)
    BY <1>1, <1>2, Bystanders DEF Announced
  <1>4. \A id \in RecordIds : \A v : Written(id, v) => Written(id, v)'
    BY <1>1, <1>2, Bystanders DEF Written, Changes
  <1> QED BY <1>1, <1>3, <1>4 DEF HistoryKept, Grown

\* A fetch reads a row whose value is written, and what is written stays so.
LEMMA FetchedStep ==
    ASSUME VersionInv, TypeOK', HistoryKept, FetchedWritten, Next, Grown,
           faults' = 0 => faults = 0
    PROVE  FetchedWritten'
  <1> USE DEF VersionInv
  <1> SUFFICES ASSUME faults' = 0, NEW c \in Clients, req'[c].phase \in {"check", "write"},
                      Announced(req[c].call.id, "record_created")'
               PROVE  Written(req[c].call.id, req[c].old.val)'
    BY DEF FetchedWritten
  <1>1. ASSUME req[c].phase \in {"fetch", "check", "write"}, req'[c].call = req[c].call,
               Announced(req[c].call.id, "record_created")
                 => Written(req[c].call.id, req'[c].old.val)
        PROVE  Written(req[c].call.id, req[c].old.val)'
    <2>1. PICK id \in RecordIds : id = req[c].call.id /\ rows[id] # Absent
      BY <1>1, Locals DEF CallsAreSnapshots, Snapshot, UpdateCall, TypeOK
    <2>2. Announced(id, "record_created")'
      BY <1>1, <2>1 DEF Announced
    <2>3. Announced(id, "record_created")
      BY <2>1, <2>2 DEF Grown
    <2>4. PICK v : v = req'[c].old.val /\ Written(id, v)
      BY <1>1, <2>1, <2>3
    <2>5. Written(id, v)'
      BY <2>4 DEF Grown
    <2> QED BY <1>1, <2>1, <2>4, <2>5 DEF Written
  <1>2. CASE req'[c] = req[c]
    BY <1>1, <1>2 DEF FetchedWritten
  <1>3. CASE FetchOld(c)
    <2> DEFINE k == req[c].call
    <2>1. /\ At(c, "fetch") /\ Live(k.id)
          /\ req'[c].call = k /\ req'[c].old.val = rows[k.id].val
      BY <1>3 DEF FetchOld, Goto, TypeOK, Idle, Write, Check, FetchRow
    <2>2. k.id \in RecordIds
      BY <2>1, Locals DEF At, UpdateCall, TypeOK
    <2> QED BY <1>1, <2>1, <2>2 DEF HistoryKept, At
  <1>4. CASE CheckStatus(c)
    <2>1. /\ At(c, "check") /\ req'[c].call = req[c].call /\ req'[c].old = req[c].old
      BY <1>4 DEF CheckStatus, Goto, TypeOK, Idle, Write
    <2> QED BY <1>1, <2>1 DEF FetchedWritten, At
  <1>5. CASE BeginUpdate(c)
    BY <1>5, BegunCall
  <1>6. CASE BeginBatch(c) \/ BatchStep(c)
    <2>1. req'[c].phase \in {"batch", "idle"} \/ req' = req
      BY <1>6 DEF BeginBatch, BatchStep, Conflict, Goto, TypeOK, Batch, Idle
    <2> QED BY <1>2, <2>1
  <1> QED BY <1>2, <1>3, <1>4, <1>5, <1>6, StepTaken

LEMMA NextHistory == HistoryInv /\ [Next]_vars => HistoryInv'
  <1> SUFFICES ASSUME HistoryInv, [Next]_vars PROVE HistoryInv'
    OBVIOUS
  <1> USE DEF HistoryInv
  <1>1. TypeOK /\ TypeOK' /\ VersionInv'
    BY NextVersion DEF VersionInv
  <1>2. CASE UNCHANGED vars
    <2>1. \A d \in Clients : Entries(d)' = Entries(d) /\ Promised(d)' = Promised(d)
      BY <1>2 DEF vars, Entries, Promised, At
    <2>2. HistoryKept'
      BY <1>2, <2>1, Nothing DEF vars
    <2>3. PendingListed'
      BY <1>2 DEF vars, PendingListed, Listed, Holds, At
    <2>4. FetchedWritten'
      BY <1>2, <2>1 DEF vars, FetchedWritten, Announced, Written, Changes
    <2> QED BY <1>1, <2>2, <2>3, <2>4
  <1>3. CASE Next
    <2>1. PendingListed'
      BY <1>1, <1>3, ListedKept
    <2>2. ASSUME NEW c \in Clients, UpdateSteps(c)
          PROVE  HistoryKept' /\ Grown
      BY <1>1, <2>2, SilentSteps, WriteStep DEF UpdateSteps
    <2>3. ASSUME NEW c \in Clients, BatchSteps(c)
          PROVE  HistoryKept' /\ Grown
      BY <1>1, <2>3, SilentSteps, CommitStep DEF BatchSteps
    <2>4. ASSUME NEW c \in Clients, OtherSteps(c)
          PROVE  HistoryKept' /\ Grown
      BY <1>1, <2>4, SilentSteps, BulkSteps, CreateDelete, RecordStep, PublishStep
      DEF OtherSteps
    <2>5. CASE (\E c \in Clients : Faulty(c)) \/ Restart
      \* From here on HistoryComplete promises nothing.
      <3>1. faults \in Nat /\ faults' = faults + 1
        BY <1>1, <2>5 DEF Faulty, RequestFails, RecordChangeFails, Restart, TypeOK
      <3>2. HistoryKept' /\ FetchedWritten'
        BY <3>1 DEF HistoryKept, FetchedWritten
      <3> QED BY <1>1, <2>1, <3>2
    <2>6. CASE ~((\E c \in Clients : Faulty(c)) \/ Restart)
      <3>1. HistoryKept' /\ Grown
        BY <1>3, <2>2, <2>3, <2>4, <2>6 DEF Next
      <3>2. faults' = faults
        BY <1>3, <2>6 DEF Next, UpdateSteps, BatchSteps, OtherSteps, BeginUpdate, FetchOld,
           CheckStatus, WriteRow, DeleteLinks, InsertLinks, BeginBatch, BatchStep,
           BatchCommit, DeadlockAborts, Load, Create, BulkCreate, Delete, BulkDelete,
           RecordChange, Publish
      <3>3. FetchedWritten'
        BY <1>1, <1>3, <3>1, <3>2, FetchedStep
      <3> QED BY <1>1, <2>1, <3>1, <3>3
    <2> QED BY <2>5, <2>6
  <1> QED BY <1>2, <1>3

\* Whether or not requests carry _version, when nothing fails the history of a
\* record whose creation was published holds, when no request is under way, the
\* value the record has and its deletion, whatever handlers ran side by side.
THEOREM HistoryCorrect == Spec => []HistoryComplete
  <1>1. HistoryInv => HistoryComplete
    <2> SUFFICES ASSUME HistoryInv, Quiescent, faults = 0, NEW id \in RecordIds,
                        "record_created" \in published[id]
                 PROVE  /\ rows[id].val \in Changes(id)
                        /\ "record_deleted" \in published[id] => Absent \in Changes(id)
      BY DEF HistoryComplete
    <2>1. \A c \in Clients : Entries(c) = {}
      BY DEF Quiescent, Entries, At
    <2>2. \A v : Written(id, v) => v \in Changes(id)
      BY <2>1 DEF Written
    <2>3. Announced(id, "record_created")
          /\ ("record_deleted" \in published[id] => Announced(id, "record_deleted"))
      BY DEF Announced
    <2> QED BY <2>2, <2>3 DEF HistoryInv, HistoryKept
  <1> QED BY <1>1, InitHistory, NextHistory, PTL DEF Spec
=============================================================================
