---------------------------- MODULE EntriesCache ----------------------------
(***************************************************************************)
(* The React Query cache of one collection's records in one browser tab     *)
(* (frontend/src/hooks/useEntries.ts): list pages, the views the server     *)
(* computes and the detail of one record, all under the key ['entries',     *)
(* slug].  Mutations patch the cached lists before the server has answered, *)
(* restore a snapshot when it refuses, and invalidate everything when they  *)
(* settle; the event stream (useSSE.ts) invalidates when somebody else      *)
(* writes.                                                                  *)
(*                                                                          *)
(* A row is its version number: every accepted write raises it, so two rows *)
(* with the same version have the same content.  A patch that the server    *)
(* has not confirmed is the identity of the call that made it.              *)
(***************************************************************************)
EXTENDS Integers, FiniteSets, Sequences

CONSTANTS
    Ids,      \* records
    Lists,    \* keys of cached list pages: their data is patched
    Boards,   \* keys of kanban, gantt, calendar and totals queries
    Opened,   \* the record whose detail page can be open
    Calls,    \* mutate() calls the user makes, each once
    MaxVer,   \* bound on the writes to one record
    MaxMoves, \* bound on the changes of what the screen shows
    MaxFaults \* bound on lost connections and failed requests

ASSUME CacheAssumption ==
    /\ Opened \in Ids
    /\ Lists \cap Boards = {}
    /\ MaxVer \in Nat
    /\ MaxMoves \in Nat
    /\ MaxFaults \in Nat

VARIABLES
    server,  \* version of each record in the database
    cache,   \* data of each query, or NoData
    stale,   \* queries that were invalidated since their last answer
    fetch,   \* the request of each query
    mounted, \* the query the screen observes
    call,    \* the mutations
    stream,  \* the EventSource: connected or waiting to reconnect
    events,  \* events on their way to the tab, oldest first
    excused, \* the screen may be out of date for good (observation only)
    moves,   \* changes of what the screen shows so far
    faults   \* faults so far

tab == <<cache, stale, fetch, mounted, call, stream>>
net == <<events, excused, moves, faults>>
cacheVars == <<server, tab, net>>

Detail == "detail"
Keys == Lists \cup Boards \cup {Detail}
Unborn == -1
Deleted == -2
NoData == [rows |-> <<>>, temps |-> {}]
NoCall == [st |-> "idle", op |-> "update", on |-> {}, ver |-> <<>>, snap |-> <<>>]
Absent == -1

RowVersion == Absent..MaxVer
Row == [ver : RowVersion, by : SUBSET Calls]
Data == {NoData} \cup [rows : [Ids -> Row], temps : SUBSET Calls]
Fetch == [st : {"none", "sent", "answered"}, data : Data, late : BOOLEAN]
Mutation == [st : {"idle", "sent", "done", "failed", "conflict", "settled"},
             op : {"create", "update", "batch", "delete", "bulkDelete"}, on : SUBSET Ids,
             ver : UNION {[on -> RowVersion] : on \in SUBSET Ids}, snap : [Keys -> Data] \cup {<<>>}]
Pending == {c \in Calls : call[c].st \in {"sent", "done", "failed", "conflict"}}
InFlight(k) == fetch[k].st # "none"

\* A list or board holds every record, the detail query holds one.
Held(k, i) == k # Detail \/ i = Opened

\* What the server answers to query k now.
Answer(k) ==
    [rows |-> [i \in Ids |-> [ver |-> IF Held(k, i) /\ server[i] >= 0 THEN server[i] ELSE Absent,
                              by |-> {}]],
     temps |-> {}]

Idle == [st |-> "none", data |-> NoData, late |-> FALSE]
Sent == [Idle EXCEPT !.st = "sent"]

\* qc.invalidateQueries: every query is marked, the observed one is requested
\* again and its request in flight is abandoned.  An unobserved request goes on:
\* its answer is late when the server has read the rows already.
Invalidate ==
    /\ stale' = Keys
    /\ fetch' = [k \in Keys |-> IF k = mounted THEN Sent
                               ELSE [fetch[k] EXCEPT !.late = @ \/ fetch[k].st = "answered"]]

InvalidateNothing == UNCHANGED <<stale, fetch>>

CacheTypeOK ==
    /\ server \in [Ids -> Deleted..MaxVer]
    /\ cache \in [Keys -> Data]
    /\ stale \subseteq Keys
    /\ fetch \in [Keys -> Fetch]
    /\ mounted \in Keys
    /\ call \in [Calls -> Mutation]
    /\ stream \in {"open", "closed"}
    /\ events \in Seq({"me", "other"})
    /\ excused \in BOOLEAN
    /\ moves \in 0..MaxMoves
    /\ faults \in 0..MaxFaults

CacheInit ==
    /\ server \in [Ids -> {Unborn, 0}]
    /\ cache = [k \in Keys |-> NoData]
    /\ stale = {}
    /\ mounted \in Lists
    /\ fetch = [k \in Keys |-> IF k = mounted THEN Sent ELSE Idle]
    /\ call = [c \in Calls |-> NoCall]
    /\ stream = "open"
    /\ events = <<>>
    /\ excused = FALSE
    /\ moves = 0
    /\ faults = 0

-----------------------------------------------------------------------------
(* Queries *)

\* useQuery mounts: it fetches when there is no data or the data was
\* invalidated; data older than staleTime (30 s) may be fetched as well.
Observe(k, aged) ==
    /\ moves < MaxMoves
    /\ moves' = moves + 1
    /\ mounted' = k
    /\ fetch' = IF ~InFlight(k) /\ (cache[k] = NoData \/ k \in stale \/ aged)
                THEN [fetch EXCEPT ![k] = Sent] ELSE fetch
    /\ UNCHANGED <<server, cache, stale, call, stream, events, excused, faults>>

\* Another page, sort or filter of the table.
ShowList == \E k \in Lists \ {mounted}, aged \in BOOLEAN : Observe(k, aged)

\* The kanban, calendar and gantt tabs and the totals under the table.
ShowBoard == \E k \in Boards \ {mounted}, aged \in BOOLEAN : Observe(k, aged)

\* The page of one record.
ShowDetail == mounted # Detail /\ \E aged \in BOOLEAN : Observe(Detail, aged)

\* The server reads the rows.
AnswerFetch(k) ==
    /\ fetch[k].st = "sent"
    /\ fetch' = [fetch EXCEPT ![k] = [@ EXCEPT !.st = "answered", !.data = Answer(k)]]
    /\ UNCHANGED <<server, cache, stale, mounted, call, stream, events, excused, moves, faults>>

\* The answer arrives and clears the invalidation mark, even one that was set
\* after the server read the rows.
ReceiveFetch(k) ==
    /\ fetch[k].st = "answered"
    /\ cache' = [cache EXCEPT ![k] = fetch[k].data]
    /\ stale' = stale \ {k}
    /\ fetch' = [fetch EXCEPT ![k] = Idle]
    /\ excused' = (excused \/ fetch[k].late)
    /\ UNCHANGED <<server, mounted, call, stream, events, moves, faults>>

\* The request fails; after its retries the query keeps its old data.
FailFetch(k) ==
    /\ InFlight(k)
    /\ faults < MaxFaults
    /\ faults' = faults + 1
    /\ \/ /\ fetch' = [fetch EXCEPT ![k] = Sent]
          /\ UNCHANGED excused
       \/ /\ fetch' = [fetch EXCEPT ![k] = Idle]
          /\ excused' = TRUE
    /\ UNCHANGED <<server, cache, stale, mounted, call, stream, events, moves>>

-----------------------------------------------------------------------------
(* Mutations: onMutate, the request, onSuccess or onError, onSettled *)

MarkedRow(row, c) == [row EXCEPT !.by = @ \cup {c}]

Patched(d, c, op, on) ==
    IF d = NoData THEN d
    ELSE CASE op = "create" -> [d EXCEPT !.temps = @ \cup {c}]
           [] op \in {"update", "batch"} ->
                [d EXCEPT !.rows = [i \in Ids |->
                    IF i \in on /\ @[i].ver # Absent THEN MarkedRow(@[i], c) ELSE @[i]]]
           [] op \in {"delete", "bulkDelete"} ->
                [d EXCEPT !.rows = [i \in Ids |->
                    IF i \in on THEN [ver |-> Absent, by |-> @[i].by \cup {c}] ELSE @[i]]]

\* onMutate: requests in flight are cancelled, every cached query of the
\* collection is remembered, and the lists are patched.
Mutate(c, op, on, ver) ==
    /\ call[c].st = "idle"
    /\ fetch' = [k \in Keys |-> Idle]
    /\ cache' = [k \in Keys |-> IF k \in Lists THEN Patched(cache[k], c, op, on) ELSE cache[k]]
    /\ call' = [call EXCEPT ![c] =
                    [st |-> "sent", op |-> op, on |-> on, ver |-> ver, snap |-> cache]]
    /\ UNCHANGED <<server, stale, mounted, stream, events, excused, moves, faults>>

\* The rows a user can act on: those the screen shows.
Shown == {i \in Ids : cache[mounted] # NoData /\ cache[mounted].rows[i].ver # Absent}
ShownVersions(on) == [i \in on |-> cache[mounted].rows[i].ver]
NoVersions == <<>>

Create(c) == Mutate(c, "create", {}, NoVersions)

\* The board and the record page send the version of the row they show; undo
\* and redo send none.
Update(c) ==
    \E i \in Shown : \/ Mutate(c, "update", {i}, ShownVersions({i}))
                     \/ Mutate(c, "update", {i}, NoVersions)

BatchUpdate(c) ==
    /\ mounted \in Lists
    /\ \E on \in SUBSET Shown \ {{}} : Mutate(c, "batch", on, ShownVersions(on))

Delete(c) == mounted = Detail /\ \E i \in Shown : Mutate(c, "delete", {i}, NoVersions)

BulkDelete(c) ==
    /\ mounted \in Lists
    /\ \E on \in SUBSET Shown \ {{}} : Mutate(c, "bulkDelete", on, NoVersions)

Live(i) == server[i] >= 0
VersionsMatch(c) == \A i \in DOMAIN call[c].ver : call[c].ver[i] = server[i]

\* The write is committed.  Its event comes back to the tab that made it and is
\* skipped there, so it is not queued.
Commit(c) ==
    LET on == call[c].on IN
    /\ call[c].st = "sent"
    /\ \/ /\ call[c].op = "create"
          /\ \E i \in Ids : server[i] = Unborn /\ server' = [server EXCEPT ![i] = 0]
       \/ /\ call[c].op \in {"update", "batch"}
          /\ VersionsMatch(c)
          /\ \A i \in on : Live(i) /\ server[i] < MaxVer
          /\ server' = [i \in Ids |-> IF i \in on THEN server[i] + 1 ELSE server[i]]
       \/ /\ call[c].op \in {"delete", "bulkDelete"}
          /\ \E i \in on : Live(i)
          /\ server' = [i \in Ids |-> IF i \in on /\ Live(i) THEN Deleted ELSE server[i]]
    /\ call' = [call EXCEPT ![c].st = "done"]
    /\ UNCHANGED <<cache, stale, fetch, mounted, stream, events, excused, moves, faults>>

\* 409 for a version that is not current, 404 or 4xx otherwise.
Refuse(c) ==
    /\ call[c].st = "sent"
    /\ \/ ~VersionsMatch(c) /\ call' = [call EXCEPT ![c].st = "conflict"]
       \/ /\ call[c].op = "create" \/ \E i \in call[c].on : ~Live(i) \/ server[i] = MaxVer
          /\ call' = [call EXCEPT ![c].st = "failed"]
    /\ UNCHANGED <<server, cache, stale, fetch, mounted, stream, events, excused, moves, faults>>

\* The request or its answer is lost: the client sees a network error or its
\* 30 s timeout, whether or not the write was committed.
LoseCall(c) ==
    /\ call[c].st \in {"sent", "done"}
    /\ faults < MaxFaults
    /\ faults' = faults + 1
    /\ call' = [call EXCEPT ![c].st = "failed"]
    /\ UNCHANGED <<server, cache, stale, fetch, mounted, stream, events, excused, moves>>

\* Mutant: the end of a mutation invalidates nothing.
SettleQuietly == InvalidateNothing

\* onSettled invalidates whatever the answer was.
Settle == Invalidate

\* onSuccess of an update puts the answered row into the detail query.
Succeed(c) ==
    /\ call[c].st = "done"
    /\ cache' = IF call[c].op = "update" /\ call[c].on = {Opened}
                THEN [cache EXCEPT ![Detail] = Answer(Detail)] ELSE cache
    /\ call' = [call EXCEPT ![c] = [NoCall EXCEPT !.st = "settled"]]
    /\ Settle
    /\ UNCHANGED <<server, mounted, stream, events, excused, moves, faults>>

\* onError puts the snapshot back, whatever has changed since; a 409 also
\* refetches (useConflictAwareUpdate), which the invalidation includes.
Fail(c) ==
    /\ call[c].st \in {"failed", "conflict"}
    /\ cache' = [k \in Keys |-> IF call[c].snap[k] = NoData THEN cache[k] ELSE call[c].snap[k]]
    /\ call' = [call EXCEPT ![c] = [NoCall EXCEPT !.st = "settled"]]
    /\ Settle
    /\ UNCHANGED <<server, mounted, stream, events, excused, moves, faults>>

-----------------------------------------------------------------------------
(* Other writers and the event stream *)

\* Somebody else, or the same user in another tab, creates or updates a record.
OtherWrite(i, who) ==
    /\ server[i] # Deleted /\ server[i] < MaxVer
    /\ server' = [server EXCEPT ![i] = @ + 1]
    /\ events' = IF stream = "open" THEN Append(events, who) ELSE events
    /\ excused' = (excused \/ stream = "closed" \/ who = "me")
    /\ UNCHANGED <<cache, stale, fetch, mounted, call, stream, moves, faults>>

\* Mutant: the comparison with the own id is turned around.
SkipsOthers(who) == who = "other"

\* Events of the tab's own user are skipped.
SkipsOwn(who) == who = "me"

Receive ==
    /\ events # <<>>
    /\ events' = Tail(events)
    /\ IF SkipsOwn(Head(events)) THEN UNCHANGED <<stale, fetch>> ELSE Invalidate
    /\ UNCHANGED <<server, cache, mounted, call, stream, excused, moves, faults>>

\* onerror closes the EventSource: events on the way are lost.
Disconnect ==
    /\ stream = "open"
    /\ faults < MaxFaults
    /\ faults' = faults + 1
    /\ stream' = "closed"
    /\ events' = <<>>
    /\ excused' = (excused \/ \E n \in DOMAIN events : events[n] = "other")
    /\ UNCHANGED <<server, cache, stale, fetch, mounted, call, moves>>

\* The timer of the back-off calls connect(); nothing is fetched again.
Reconnect ==
    /\ stream = "closed"
    /\ stream' = "open"
    /\ UNCHANGED <<server, cache, stale, fetch, mounted, call, events, excused, moves, faults>>

CacheNext ==
    \/ ShowList \/ ShowBoard \/ ShowDetail
    \/ \E k \in Keys : AnswerFetch(k) \/ ReceiveFetch(k) \/ FailFetch(k)
    \/ \E c \in Calls :
        \/ Create(c) \/ Update(c) \/ BatchUpdate(c) \/ Delete(c) \/ BulkDelete(c)
        \/ Commit(c) \/ Refuse(c) \/ LoseCall(c) \/ Succeed(c) \/ Fail(c)
    \/ \E i \in Ids, who \in {"me", "other"} : OtherWrite(i, who)
    \/ Receive \/ Disconnect \/ Reconnect

-----------------------------------------------------------------------------
Fresh == cache[mounted] = Answer(mounted)
Quiet == Pending = {} /\ ~InFlight(mounted) /\ events = <<>>

\* When nothing is under way the screen shows what the database holds, unless
\* an event was lost, the same user wrote in another tab, a fetch failed for
\* good, or an answer older than an invalidation arrived for a query nobody
\* observed.  These are the only ways the invalidations of useEntries.ts and
\* useSSE.ts leave a screen behind.
ShownFresh == Quiet /\ ~excused => Fresh

\* The patch of a settled call (a change the server may have refused) is only
\* left in a query that is marked for refetching or has its request under way,
\* although a snapshot restored by onError may bring it back.
GhostsTransient ==
    \A k \in Keys :
        LET d == cache[k]
            by == d.temps \cup UNION {d.rows[i].by : i \in DOMAIN d.rows} IN
        \A c \in by : c \in Pending \/ k \in stale \/ InFlight(k)

\* A screen that stays out of date for one of those reasons aside, the tab
\* comes to show the database's rows and keeps showing them.
CatchesUp == <>[](Fresh \/ excused)
=============================================================================
