---------------------------- MODULE EventPipeline ----------------------------
(***************************************************************************)
(* What happens to an event after the change that caused it: the bus        *)
(* (backend/internal/events) calls its subscribers inside the request, the  *)
(* SSE broker fans the event out, comment notifications are inserted and    *)
(* the automation engine (backend/internal/automation) submits tasks to the *)
(* bounded worker pool (backend/internal/infra/workerpool).  The shutdown   *)
(* sequence of cmd/server/main.go runs beside all of them.                  *)
(*                                                                         *)
(* They are one module because they wait for each other: a request waits in *)
(* the pool's semaphore, Wait takes the same semaphore, and requests and    *)
(* tasks share the database connections.  Statements that need a connection *)
(* are single steps, except the recipients query, whose rows stay open      *)
(* while notifications are inserted.                                        *)
(***************************************************************************)
EXTENDS Integers, FiniteSets

CONSTANTS
    Requests,     \* handler goroutines that publish
    Events,       \* events they may publish, each once
    Comments,     \* those of type comment; the others are record events
    Recipients,   \* users a comment is notified to
    Automations,  \* enabled automations
    Webhooks,     \* those whose action calls a webhook
    Streams,      \* browsers that may open GET /api/events
    BufferSize,   \* capacity of a stream's channel (64)
    MaxWorkers,   \* workers of the pool
    MaxConns,     \* database connections
    MaxFaults     \* bound on failing statements and expired contexts

MaxAttempts == 3

ASSUME PipelineAssumption ==
    /\ Comments \subseteq Events
    /\ Webhooks \subseteq Automations
    /\ BufferSize \in Nat \ {0}
    /\ MaxWorkers \in Nat \ {0}
    /\ MaxConns \in Nat \ {0}
    /\ MaxFaults \in Nat

VARIABLES
    req,        \* where each request is inside Bus.Publish
    seen,       \* events published so far
    stream,     \* SSE handlers and their channels
    registered, \* Broker.clients
    panicked,   \* a send to a closed channel or a second close
    work,       \* tasks in the worker pool
    delivered,  \* tasks whose call reached the webhook's receiver
    runs,       \* _history.automation_runs
    notified,   \* _meta.notifications of comments
    phase,      \* the shutdown goroutine
    held,       \* semaphore slots taken by Pool.Wait
    faults      \* faults so far

sse == <<stream, registered, panicked>>
tasks == <<work, delivered, runs>>
shutdown == <<phase, held>>
vars == <<req, seen, sse, tasks, notified, shutdown, faults>>

Tasks == (Events \ Comments) \X Automations
Phases == {"serving", "stopping", "waiting", "releasing", "draining", "closing",
           "exited"}

Idle == [phase |-> "idle"]
Broadcast(e, todo) == [phase |-> "broadcast", ev |-> e, todo |-> todo]
Recipient(e) == [phase |-> "recipients", ev |-> e]
Notify(e, todo) == [phase |-> "notify", ev |-> e, todo |-> todo]
Load(e) == [phase |-> "load", ev |-> e]
Submit(e, todo) == [phase |-> "submit", ev |-> e, todo |-> todo]

At(r, p) == req[r].phase = p
Goto(r, q) == req' = [req EXCEPT ![r] = q]

(***************************************************************************)
(* Shared resources.                                                       *)
(***************************************************************************)
Alive == phase # "exited"

\* Slots of the pool's semaphore.
Running == {t \in Tasks : work[t].phase \notin {"none", "done"}}
SlotFree == Cardinality(Running) + held < MaxWorkers

\* pgxpool: a connection is held while rows are open; pool.Close makes every
\* later acquire fail and waits for the connections that are out.
Connected == {r \in Requests : At(r, "notify")}
PoolClosed == phase = "closing"
CanQuery == Alive /\ ~PoolClosed /\ Cardinality(Connected) < MaxConns

\* The broker's RWMutex: Broadcast sends under the read lock.
NoReader == \A r \in Requests : ~At(r, "broadcast")

\* The context of a task ends with the server's or after two minutes.
Cancelled(t) == phase # "serving" \/ work[t].expired

(***************************************************************************)
(* Bus.Publish: the subscribers in the order of their registration.  Requests*)
(* accepted before srv.Shutdown publish and connect until the process exits.*)
(***************************************************************************)
Publish(r) ==
    /\ Alive
    /\ At(r, "idle")
    /\ \E e \in Events \ seen :
         /\ seen' = seen \cup {e}
         /\ Goto(r, Broadcast(e, registered))
    /\ UNCHANGED <<sse, tasks, notified, shutdown, faults>>

\* Mutant: the send does not look at the capacity.
BufferedAnyway(n) == n + 1

\* A message more, or dropped if the buffer is full.
Buffered(n) == IF n < BufferSize THEN n + 1 ELSE n

\* Broadcast: a non-blocking send per client.
Send(r) ==
    /\ Alive
    /\ At(r, "broadcast")
    /\ \E s \in req[r].todo :
         /\ Goto(r, Broadcast(req[r].ev, req[r].todo \ {s}))
         /\ IF stream[s].chan = "closed"
            THEN panicked' = TRUE /\ UNCHANGED stream
            ELSE /\ stream' = [stream EXCEPT ![s].buffered = Buffered(@)]
                 /\ UNCHANGED panicked
    /\ UNCHANGED <<seen, registered, tasks, notified, shutdown, faults>>

FinishBroadcast(r) ==
    /\ Alive
    /\ At(r, "broadcast")
    /\ req[r].todo = {}
    /\ Goto(r, IF req[r].ev \in Comments THEN Recipient(req[r].ev) ELSE Load(req[r].ev))
    /\ UNCHANGED <<seen, sse, tasks, notified, shutdown, faults>>

\* notifyCommentRecipients: the rows of the query stay open ...
QueryRecipients(r) ==
    /\ At(r, "recipients")
    /\ \/ CanQuery /\ Goto(r, Notify(req[r].ev, Recipients))
       \/ PoolClosed /\ Goto(r, Idle)
    /\ UNCHANGED <<seen, sse, tasks, notified, shutdown, faults>>

\* ... while insertNotification takes a second connection for each of them.
\* Its error is dropped.
InsertNotification(r) ==
    /\ At(r, "notify")
    /\ \E u \in req[r].todo :
         /\ Goto(r, Notify(req[r].ev, req[r].todo \ {u}))
         /\ \/ CanQuery /\ notified' = notified \cup {<<req[r].ev, u>>}
            \/ PoolClosed /\ UNCHANGED notified
    /\ UNCHANGED <<seen, sse, tasks, shutdown, faults>>

FinishNotify(r) ==
    /\ Alive
    /\ At(r, "notify")
    /\ req[r].todo = {}
    /\ Goto(r, Idle)
    /\ UNCHANGED <<seen, sse, tasks, notified, shutdown, faults>>

\* loadAutomations: which of the automations this trigger has.
LoadAutomations(r) ==
    /\ At(r, "load")
    /\ \/ CanQuery /\ \E A \in SUBSET Automations : Goto(r, Submit(req[r].ev, A))
       \/ PoolClosed /\ Goto(r, Idle)
    /\ UNCHANGED <<seen, sse, tasks, notified, shutdown, faults>>

\* Pool.Submit blocks until a slot is free.
SubmitTask(r) ==
    /\ Alive
    /\ At(r, "submit")
    /\ SlotFree
    /\ \E a \in req[r].todo :
         /\ work' = [work EXCEPT ![<<req[r].ev, a>>] =
                        [phase |-> "call", attempt |-> 1, expired |-> FALSE]]
         /\ Goto(r, Submit(req[r].ev, req[r].todo \ {a}))
    /\ UNCHANGED <<seen, sse, delivered, runs, notified, shutdown, faults>>

FinishSubmit(r) ==
    /\ Alive
    /\ At(r, "submit")
    /\ req[r].todo = {}
    /\ Goto(r, Idle)
    /\ UNCHANGED <<seen, sse, tasks, notified, shutdown, faults>>

\* The client goes away or a query fails: the subscribers use the request's
\* context, and what is still to be queried is given up.
RequestCancelled(r) ==
    /\ Alive
    /\ req[r].phase \in {"recipients", "notify", "load"}
    /\ Goto(r, Idle)
    /\ UNCHANGED <<seen, sse, tasks, notified, shutdown, faults>>

(***************************************************************************)
(* SSE handlers.                                                           *)
(***************************************************************************)
Connect(s) ==
    /\ Alive
    /\ NoReader
    /\ stream[s].at = "off"
    /\ stream' = [stream EXCEPT ![s] = [at |-> "reading", chan |-> "open", buffered |-> 0]]
    /\ registered' = registered \cup {s}
    /\ UNCHANGED <<req, seen, panicked, tasks, notified, shutdown, faults>>

\* Receive: a message, or the end of a closed and drained channel.
Receive(s) ==
    /\ Alive
    /\ stream[s].at = "reading"
    /\ \/ /\ stream[s].buffered > 0
          /\ stream' = [stream EXCEPT ![s].buffered = @ - 1]
       \/ /\ stream[s].buffered = 0
          /\ stream[s].chan = "closed"
          /\ stream' = [stream EXCEPT ![s].at = "leaving"]
    /\ UNCHANGED <<req, seen, registered, panicked, tasks, notified, shutdown, faults>>

Disconnect(s) ==
    /\ Alive
    /\ stream[s].at = "reading"
    /\ stream' = [stream EXCEPT ![s].at = "leaving"]
    /\ UNCHANGED <<req, seen, registered, panicked, tasks, notified, shutdown, faults>>

\* Mutant: the channel is closed whether or not Close has done it.
UnsubscribeUnchecked(s) ==
    /\ Alive
    /\ NoReader
    /\ stream[s].at = "leaving"
    /\ registered' = registered \ {s}
    /\ panicked' = (panicked \/ stream[s].chan = "closed")
    /\ stream' = [stream EXCEPT ![s] = [at |-> "off", chan |-> "closed", buffered |-> 0]]
    /\ UNCHANGED <<req, seen, tasks, notified, shutdown, faults>>

\* The deferred unsub closes the channel unless Close has taken it away.
Unsubscribe(s) ==
    /\ Alive
    /\ NoReader
    /\ stream[s].at = "leaving"
    /\ registered' = registered \ {s}
    /\ panicked' = (panicked \/ (s \in registered /\ stream[s].chan = "closed"))
    /\ stream' = [stream EXCEPT ![s] = [at |-> "off", chan |-> "closed", buffered |-> 0]]
    /\ UNCHANGED <<req, seen, tasks, notified, shutdown, faults>>

(***************************************************************************)
(* Tasks: execute, executeActions, WebhookSender.Send and logRun.  Every    *)
(* automation has one action here.                                          *)
(***************************************************************************)
Calling(t) == Alive /\ work[t].phase = "call"
Log(t, status) ==
    work' = [work EXCEPT ![t] = [phase |-> "log", status |-> status, expired |-> @.expired]]

\* Mutant: a skipped run is not logged.
SkipSilently(t) ==
    /\ Calling(t)
    /\ work[t].attempt = 1
    /\ work' = [work EXCEPT ![t] = [phase |-> "end"]]
    /\ UNCHANGED <<req, seen, sse, delivered, runs, notified, shutdown, faults>>

\* Trigger configuration or conditions do not match.
Skip(t) ==
    /\ Calling(t)
    /\ work[t].attempt = 1
    /\ Log(t, "skipped")
    /\ UNCHANGED <<req, seen, sse, delivered, runs, notified, shutdown, faults>>

\* send_notification or update_field: one statement, which fails on a bad
\* configuration, a refused value or the end of the context.
RunStatement(t) ==
    /\ Calling(t)
    /\ t[2] \notin Webhooks
    /\ \/ CanQuery /\ ~Cancelled(t) /\ Log(t, "success")
       \/ Log(t, "error")
    /\ UNCHANGED <<req, seen, sse, delivered, runs, notified, shutdown, faults>>

\* Mutant: the loop has no end.
RetryForever(t) ==
    work' = [work EXCEPT ![t].attempt = 2]

\* Mutant: the error of the last attempt is lost.
RetryOrSucceed(t) ==
    IF work[t].attempt < MaxAttempts
    THEN work' = [work EXCEPT ![t].attempt = @ + 1]
    ELSE Log(t, "success")

\* The next attempt, or the error after the last one.
RetryOrFail(t) ==
    IF work[t].attempt < MaxAttempts
    THEN work' = [work EXCEPT ![t].attempt = @ + 1]
    ELSE Log(t, "error")

\* The receiver acts on the call, and its answer arrives or is lost; or it does
\* not get the call, as after the end of the context; or it refuses it for good.
CallWebhook(t) ==
    /\ Calling(t)
    /\ t[2] \in Webhooks
    /\ \/ /\ ~Cancelled(t)
          /\ delivered' = delivered \cup {t}
          /\ \/ Log(t, "success")
             \/ RetryOrFail(t)
       \/ /\ UNCHANGED delivered
          /\ RetryOrFail(t) \/ (~Cancelled(t) /\ Log(t, "error"))
    /\ UNCHANGED <<req, seen, sse, runs, notified, shutdown, faults>>

\* logRun drops its error and uses the task's context: once that has ended
\* there is no run.
LogRun(t) ==
    /\ Alive
    /\ work[t].phase = "log"
    /\ \/ /\ CanQuery /\ ~Cancelled(t)
          /\ runs' = runs \cup {<<t, work[t].status>>}
          /\ UNCHANGED faults
       \/ Cancelled(t) /\ UNCHANGED <<runs, faults>>
       \/ faults < MaxFaults /\ faults' = faults + 1 /\ UNCHANGED runs
    /\ work' = [work EXCEPT ![t] = [phase |-> "end"]]
    /\ UNCHANGED <<req, seen, sse, delivered, notified, shutdown>>

\* Mutant: a task whose run could not be logged keeps its slot.
EndTaskLogged(t) ==
    /\ Alive
    /\ work[t].phase = "end"
    /\ \E s \in {"success", "error", "skipped"} : <<t, s>> \in runs
    /\ work' = [work EXCEPT ![t] = [phase |-> "done"]]
    /\ UNCHANGED <<req, seen, sse, delivered, runs, notified, shutdown, faults>>

\* The pool's deferred function gives the slot back.
EndTask(t) ==
    /\ Alive
    /\ work[t].phase = "end"
    /\ work' = [work EXCEPT ![t] = [phase |-> "done"]]
    /\ UNCHANGED <<req, seen, sse, delivered, runs, notified, shutdown, faults>>

\* The two minutes of a task are over.
Expire(t) ==
    /\ Alive
    /\ faults < MaxFaults
    /\ work[t].phase \in {"call", "log"}
    /\ faults' = faults + 1
    /\ work' = [work EXCEPT ![t].expired = TRUE]
    /\ UNCHANGED <<req, seen, sse, delivered, runs, notified, shutdown>>

(***************************************************************************)
(* Shutdown.                                                               *)
(***************************************************************************)
Enter(p) == phase' = p

Signal ==
    /\ phase = "serving"
    /\ Enter("stopping")
    /\ UNCHANGED <<req, seen, sse, tasks, notified, held, faults>>

CloseBroker ==
    /\ phase = "stopping"
    /\ NoReader
    /\ panicked' = (panicked \/ \E s \in registered : stream[s].chan = "closed")
    /\ stream' = [s \in Streams |-> IF s \in registered
                                    THEN [stream[s] EXCEPT !.chan = "closed"]
                                    ELSE stream[s]]
    /\ registered' = {}
    /\ Enter("waiting")
    /\ UNCHANGED <<req, seen, tasks, notified, held, faults>>

\* Pool.Wait takes all the slots, one by one, and gives them back.
TakeSlot ==
    /\ phase = "waiting"
    /\ held < MaxWorkers
    /\ SlotFree
    /\ held' = held + 1
    /\ UNCHANGED <<req, seen, sse, tasks, notified, phase, faults>>

\* Mutant: one slot less.
AllButOneTaken == held = MaxWorkers - 1

AllTaken == held = MaxWorkers

EndWait ==
    /\ phase = "waiting"
    /\ AllTaken
    /\ Enter("releasing")
    /\ UNCHANGED <<req, seen, sse, tasks, notified, held, faults>>

GiveSlot ==
    /\ phase = "releasing"
    /\ held > 0
    /\ held' = held - 1
    /\ UNCHANGED <<req, seen, sse, tasks, notified, phase, faults>>

\* srv.Shutdown closes the listener; Serve returns at once, so run() goes on to
\* its deferred pool.Close and exits while Shutdown still waits for requests.
Drain ==
    /\ phase = "releasing"
    /\ held = 0
    /\ Enter("draining")
    /\ UNCHANGED <<req, seen, sse, tasks, notified, held, faults>>

ClosePool ==
    /\ phase = "draining"
    /\ Enter("closing")
    /\ UNCHANGED <<req, seen, sse, tasks, notified, held, faults>>

Exit ==
    /\ phase = "closing"
    /\ Connected = {}
    /\ Enter("exited")
    /\ UNCHANGED <<req, seen, sse, tasks, notified, held, faults>>

Init ==
    /\ req = [r \in Requests |-> Idle]
    /\ seen = {}
    /\ stream = [s \in Streams |-> [at |-> "off", chan |-> "closed", buffered |-> 0]]
    /\ registered = {}
    /\ panicked = FALSE
    /\ work = [t \in Tasks |-> [phase |-> "none"]]
    /\ delivered = {}
    /\ runs = {}
    /\ notified = {}
    /\ phase = "serving"
    /\ held = 0
    /\ faults = 0

Deliver(r) ==
    \/ Send(r)
    \/ FinishBroadcast(r)
    \/ QueryRecipients(r)
    \/ InsertNotification(r)
    \/ FinishNotify(r)
    \/ LoadAutomations(r)
    \/ SubmitTask(r)
    \/ FinishSubmit(r)

StreamSteps(s) ==
    \/ Connect(s)
    \/ Receive(s)
    \/ Disconnect(s)
    \/ Unsubscribe(s)

TaskSteps(t) ==
    \/ Skip(t)
    \/ RunStatement(t)
    \/ CallWebhook(t)
    \/ LogRun(t)
    \/ EndTask(t)

Stop ==
    \/ CloseBroker
    \/ TakeSlot
    \/ EndWait
    \/ GiveSlot
    \/ Drain
    \/ ClosePool
    \/ Exit

Next ==
    \/ \E r \in Requests : Publish(r)
    \/ \E r \in Requests : Deliver(r)
    \/ \E r \in Requests : RequestCancelled(r)
    \/ \E s \in Streams : StreamSteps(s)
    \/ \E t \in Tasks : TaskSteps(t)
    \/ \E t \in Tasks : Expire(t)
    \/ Signal
    \/ Stop

\* Goroutines run on; channels, RWMutex and pgxpool serve those who wait for
\* them in turn, so a step that is possible again and again is taken.
Fairness ==
    /\ \A r \in Requests : SF_vars(Deliver(r))
    /\ \A t \in Tasks : SF_vars(TaskSteps(t))
    /\ SF_vars(Stop)

Spec == Init /\ [][Next]_vars /\ Fairness

(***************************************************************************)
(* Types.                                                                  *)
(***************************************************************************)
Request ==
    {Idle}
      \cup [phase : {"broadcast"}, ev : Events, todo : SUBSET Streams]
      \cup [phase : {"recipients"}, ev : Comments]
      \cup [phase : {"notify"}, ev : Comments, todo : SUBSET Recipients]
      \cup [phase : {"load"}, ev : Events \ Comments]
      \cup [phase : {"submit"}, ev : Events \ Comments, todo : SUBSET Automations]
Stream == [at : {"off", "reading", "leaving"}, chan : {"open", "closed"},
           buffered : 0..BufferSize]
Statuses == {"success", "error", "skipped"}
Work ==
    [phase : {"none", "end", "done"}]
      \cup [phase : {"call"}, attempt : 1..MaxAttempts, expired : BOOLEAN]
      \cup [phase : {"log"}, status : Statuses, expired : BOOLEAN]

\* Type invariant of requests, streams, tasks and the shutdown goroutine.
TypeOK ==
    /\ req \in [Requests -> Request]
    /\ seen \subseteq Events
    /\ stream \in [Streams -> Stream]
    /\ registered \subseteq Streams
    /\ panicked \in BOOLEAN
    /\ work \in [Tasks -> Work]
    /\ delivered \subseteq Tasks
    /\ runs \subseteq Tasks \X Statuses
    /\ notified \subseteq Comments \X Recipients
    /\ phase \in Phases
    /\ held \in 0..MaxWorkers
    /\ faults \in 0..MaxFaults

(***************************************************************************)
(* Properties.                                                             *)
(***************************************************************************)
\* Broker: whatever the order of Broadcast, unsub and Close, nobody sends to a
\* closed channel and no channel is closed twice ("Safe to call even if some
\* clients already unsubscribed").
NoPanic == ~panicked

\* Pool.Wait "blocks until all currently active tasks finish": although tasks
\* are submitted while it collects the slots, none runs when it has them all.
WaitQuiesces ==
    [][phase = "waiting" /\ phase' = "releasing" => Running = {}]_vars

\* WebhookSender.Send and execute: a task has one run at most, and a run that
\* says success has reached its receiver.
RunsHonest ==
    /\ \A p, q \in runs : p[1] = q[1] => p = q
    /\ \A t \in Tasks : t[2] \in Webhooks /\ <<t, "success">> \in runs => t \in delivered

\* The engine "logs the run result (success/error/skipped)": while the server
\* serves, no insert fails and no task runs out of time, every finished task has its run.
RunsLogged ==
    phase = "serving" /\ faults = 0 =>
        \A t \in Tasks : work[t].phase = "done" => \E s \in Statuses : <<t, s>> \in runs

\* Back-pressure ends: a request inside Publish, whoever holds the slots and
\* the connections it waits for, returns unless the process exits.
PublishReturns ==
    \A r \in Requests : ~At(r, "idle") ~> (At(r, "idle") \/ ~Alive)

\* Graceful shutdown: once the signal has come the process exits, although Wait
\* competes for the slots with requests that are still accepted.
ShutdownEnds == phase = "stopping" ~> phase = "exited"
=============================================================================
