----------------------------- MODULE QueryCache -----------------------------
(***************************************************************************)
(* The React Query cache away from the records (which are EntriesCache): the *)
(* queries and mutations of frontend/src/hooks, the keys they share            *)
(* (lib/queryKeys.ts) and what a mutation marks as outdated when it settles.   *)
(*                                                                          *)
(* Queries do not influence each other, so a behaviour watches one of them,    *)
(* `watched`, among all mutations.  An answer is the set of this browser's      *)
(* writes that it ought to contain and does not.  One collection stands for     *)
(* all.                                                                      *)
(***************************************************************************)
EXTENDS Screen, FiniteSets

CONSTANT MaxPending   \* mutations on their way at a time

VARIABLES
    watched,  \* the query looked at
    observed, \* a mounted component uses it
    answer,   \* what the cache holds for it
    outdated, \* isInvalidated, or older than staleTime
    fetching, \* its request
    pending   \* mutations that have not settled

queryVars == <<watched, observed, answer, outdated, fetching, pending>>

-----------------------------------------------------------------------------
(* Queries: key, and what the server computes the answer from *)

Query(key, reads) == [key |-> key, reads |-> reads]

HookQueries == {
    Query(<<"auth", "me">>, {"me"}),
    Query(<<"auth", "users">>, {"me", "user", "department", "subsidiary"}),
    Query(<<"subsidiaries", "list">>, {"subsidiary"}),
    Query(<<"departments", "list">>, {"department"}),
    Query(<<"collections", "list">>, {"collection"}),
    Query(<<"collections", "counts">>, {"table", "record"}),
    Query(<<"collections", "detail">>, {"collection", "field"}),
    Query(<<"entries", "list">>, {"record", "field"}),
    Query(<<"process">>, {"process"}),
    Query(<<"comments">>, {"comment"}),
    Query(<<"notifications", "list">>, {"notification"}),
    Query(<<"notifications", "unread">>, {"notification"}),
    Query(<<"members", "list">>, {"member"}),
    Query(<<"history">>, {"record"}),
    Query(<<"views", "list">>, {"view"}),
    Query(<<"savedViews", "list">>, {"savedView"}),
    Query(<<"migrations", "history">>, {"migration"}),
    Query(<<"automations", "list">>, {"automation"}),
    Query(<<"automations", "detail">>, {"automation"}),
    Query(<<"charts", "list">>, {"chart"})}

\* The queries of useEntries.ts whose keys are not those of records.
DerivedQueries == {
    Query(<<"transitions">>, {"process"}),
    Query(<<"myTasks">>, {"record", "process", "collection"}),
    Query(<<"globalCalendar">>, {"record", "field", "collection"}),
    Query(<<"relationshipGraph">>, {"collection", "field"})}

Queries == HookQueries \cup DerivedQueries

(* Mutations: what they write, the keys they mark, and whether they patch the cache first *)
Hook(name, writes, marks) == [name |-> name, writes |-> writes, marks |-> marks, patches |-> FALSE]

UserHooks == {
    Hook("createUser", {"user"}, {<<"auth", "users">>}),
    Hook("updateUser", {"user", "me"}, {<<"auth", "users">>, <<"auth", "me">>}),
    Hook("updateMe", {"me"}, {<<"auth", "me">>})}
SubsidiaryHooks == {Hook("writeSubsidiary", {"subsidiary"}, {<<"subsidiaries">>})}
DepartmentHooks == {Hook("writeDepartment", {"department"}, {<<"departments">>})}
CollectionHooks == {
    Hook("createCollection", {"table", "collection", "field", "migration"}, {<<"collections">>}),
    Hook("updateCollection", {"collection"}, {<<"collections", "detail">>, <<"collections", "list">>}),
    Hook("deleteCollection", {"table", "collection", "migration"}, {<<"collections">>}),
    Hook("addField", {"field", "migration"}, {<<"collections", "detail">>, <<"collections", "list">>}),
    Hook("updateField", {"field", "migration"}, {<<"collections">>}),
    Hook("deleteField", {"field", "migration"}, {<<"collections">>})}
EntryHooks == {Hook("writeEntry", {"record"}, {<<"entries">>})}
ProcessHooks == {Hook("saveProcess", {"process"}, {<<"process">>, <<"collections", "detail">>, <<"entries">>})}
CommentHooks == {
    Hook("createComment", {"comment"}, {<<"comments">>, <<"notifications", "unread">>}),
    Hook("deleteComment", {"comment"}, {<<"comments">>})}

\* Mutant: the list of notifications keeps its old answer.
UnreadOnlyHooks == {Hook("markRead", {"notification"}, {<<"notifications", "unread">>})}

NotificationHooks == {Hook("markRead", {"notification"}, {<<"notifications">>})}
MemberHooks == {Hook("writeMember", {"member"}, {<<"members", "list">>})}
ViewHooks == {
    [name |-> name, writes |-> {"view"}, marks |-> {<<"views", "list">>}, patches |-> TRUE]
    : name \in {"createView", "updateView", "deleteView"}}
SavedViewHooks == {Hook("writeSavedView", {"savedView"}, {<<"savedViews", "list">>})}
MigrationHooks == {
    Hook("rollback", {"table", "collection", "field", "record", "migration"}, {<<"collections">>, <<"entries">>, <<"migrations">>})}
AutomationHooks == {Hook("writeAutomation", {"automation"}, {<<"automations", "list">>})}
ChartHooks == {Hook("writeChart", {"chart"}, {<<"charts", "list">>})}

Hooks ==
    UserHooks \cup SubsidiaryHooks \cup DepartmentHooks \cup CollectionHooks \cup EntryHooks
    \cup ProcessHooks \cup CommentHooks \cup NotificationHooks \cup MemberHooks \cup ViewHooks
    \cup SavedViewHooks \cup MigrationHooks \cup AutomationHooks \cup ChartHooks

Concerns(m, q) == m.writes \cap q.reads # {}
Marks(m, q) == \E key \in m.marks : IsPrefix(key, q.key)

-----------------------------------------------------------------------------
NoAnswer == [known |-> FALSE, lacks |-> {}, excused |-> FALSE, guess |-> FALSE]
NoRequest == [sent |-> FALSE, read |-> FALSE, lacks |-> {}]

CacheTypes == [known : BOOLEAN, lacks : SUBSET Hooks, excused : BOOLEAN, guess : BOOLEAN]
Requests == [sent : BOOLEAN, read : BOOLEAN, lacks : SUBSET Hooks]
HookCalls == [hook : Hooks, written : BOOLEAN, before : CacheTypes]

QueryTypeOK ==
    /\ watched \in Queries /\ observed \in BOOLEAN /\ outdated \in BOOLEAN
    /\ answer \in CacheTypes
    /\ fetching \in Requests
    /\ pending \subseteq HookCalls

QueryInit ==
    /\ watched \in Queries /\ observed = FALSE
    /\ answer = NoAnswer /\ outdated = FALSE /\ fetching = NoRequest
    /\ pending = {}

Request == [NoRequest EXCEPT !.sent = TRUE]

\* A component asks for what is missing or outdated; a request under way is shared.
ObserveQuery ==
    /\ Act("queries") /\ ~observed /\ observed' = TRUE
    /\ fetching' = IF ~fetching.sent /\ (~answer.known \/ outdated) THEN Request ELSE fetching
    /\ UNCHANGED <<watched, answer, outdated, pending>>

Leave ==
    /\ Act("queries") /\ observed /\ observed' = FALSE
    /\ UNCHANGED <<watched, answer, outdated, fetching, pending>>

GrowOld ==
    /\ Act("queries") /\ answer.known /\ outdated' = TRUE
    /\ UNCHANGED <<watched, observed, answer, fetching, pending>>

ServerReads ==
    /\ fetching.sent /\ ~fetching.read
    /\ fetching' = [fetching EXCEPT !.read = TRUE]
    /\ UNCHANGED <<acts, watched, observed, answer, outdated, pending>>

\* A request that a write overtook brings an answer without it, and
\* clears the mark that was set after the server had read.
Answered ==
    /\ fetching.read
    /\ fetching' = NoRequest
    /\ answer' = [known |-> TRUE, lacks |-> fetching.lacks, excused |-> fetching.lacks # {}, guess |-> FALSE]
    /\ outdated' = FALSE
    /\ UNCHANGED <<acts, watched, observed, pending>>

-----------------------------------------------------------------------------
(* Mutations *)

\* onMutate of the view hooks cancels the request and patches what is cached.
MutateHook ==
    /\ Act("queries") /\ Cardinality(pending) < MaxPending
    /\ \E m \in {h \in Hooks : Concerns(h, watched) \/ Marks(h, watched)} :
        /\ \A p \in pending : p.hook # m
        /\ pending' = pending \cup {[hook |-> m, written |-> FALSE, before |-> answer]}
        /\ IF m.patches /\ Marks(m, watched)
           THEN /\ fetching' = NoRequest
                /\ answer' = [answer EXCEPT !.known = TRUE, !.guess = TRUE]
                /\ outdated' = FALSE
           ELSE UNCHANGED <<fetching, answer, outdated>>
    /\ UNCHANGED <<watched, observed>>

\* The server writes: every answer read before lacks it.
ServerWrites ==
    /\ \E p \in pending :
        /\ ~p.written
        /\ pending' = (pending \ {p}) \cup {[p EXCEPT !.written = TRUE]}
        /\ LET news == IF Concerns(p.hook, watched) THEN {p.hook} ELSE {} IN
           /\ answer' = IF answer.known THEN [answer EXCEPT !.lacks = @ \cup news] ELSE answer
           /\ fetching' = IF fetching.read THEN [fetching EXCEPT !.lacks = @ \cup news] ELSE fetching
    /\ UNCHANGED <<acts, watched, observed, outdated>>

\* invalidateQueries: what is observed is fetched again at once.  A request is
\* given up only when there is an older answer to fall back on.
invalidateQueries(m) ==
    IF Marks(m, watched)
    THEN /\ outdated' = answer'.known
         /\ fetching' = IF observed /\ (answer.known \/ ~fetching.sent) THEN Request ELSE fetching
    ELSE UNCHANGED <<outdated, fetching>>

\* createCollection also appends to the list it may not have.
Appends(m) == m.name = "createCollection" /\ watched.key = <<"collections", "list">>

HookSucceeds ==
    /\ \E p \in pending :
        /\ p.written
        /\ pending' = pending \ {p}
        /\ answer' = IF Appends(p.hook) THEN [answer EXCEPT !.known = TRUE, !.guess = TRUE] ELSE answer
        /\ invalidateQueries(p.hook)
    /\ UNCHANGED <<acts, watched, observed>>

\* onError restores what was there, if anything was; onSettled of the view hooks
\* marks.  A lost answer of a write that took place is an error too.
HookFails ==
    /\ \E p \in pending :
        /\ pending' = pending \ {p}
        /\ answer' = IF p.hook.patches /\ p.before.known THEN p.before
                     ELSE [answer EXCEPT !.excused = @ \/ (p.written /\ ~p.hook.patches)]
        /\ IF p.hook.patches THEN invalidateQueries(p.hook) ELSE UNCHANGED <<outdated, fetching>>
    /\ UNCHANGED <<acts, watched, observed>>

QueryNext ==
    \/ ObserveQuery \/ Leave \/ GrowOld \/ ServerReads \/ Answered
    \/ MutateHook \/ ServerWrites \/ HookSucceeds \/ HookFails

-----------------------------------------------------------------------------
InFlightHooks == {p.hook : p \in pending}
Trusted == answer.known /\ ~outdated /\ ~fetching.sent /\ \A p \in pending : ~p.hook.patches

\* The families of keys a hook looks after.
Family(m) == {Head(key) : key \in m.marks}
FamilyWrites == {m \in Hooks : Head(watched.key) \in Family(m)}

\* updateMe leaves the list of users as it is, and no hook the detail of an automation.
Gap(m, q) ==
    \/ q.key = <<"auth", "users">> /\ m.name = "updateMe"
    \/ q.key = <<"automations", "detail">> /\ m.name = "writeAutomation"
KnownGaps == {m \in Hooks : Gap(m, watched)}

\* An answer that is shown without being fetched again contains every finished
\* write of the hooks that look after its family of keys.  Not covered: the
\* gaps above, and an answer whose request a write overtook.
FamilyIsFresh == Trusted /\ ~answer.excused => answer.lacks \cap FamilyWrites \subseteq InFlightHooks \cup KnownGaps

\* What a hook put into the cache before the server answered does not outlive it:
\* somebody who looks at the answer ends up with one the server gave.
GuessesEnd == (answer.guess /\ observed) ~> (~answer.guess \/ ~observed)
=============================================================================
