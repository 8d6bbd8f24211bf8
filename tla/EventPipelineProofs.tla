------------------------- MODULE EventPipelineProofs -------------------------
(***************************************************************************)
(* Theorems about the event pipeline, for any sets of requests, events,     *)
(* streams and automations, any pool sizes and any number of faults.        *)
(***************************************************************************)
EXTENDS EventPipeline, FiniteSetTheorems, TLAPS

(***************************************************************************)
(* Type correctness.                                                       *)
(***************************************************************************)
\* What a request carries in a phase.
LEMMA Locals ==
    ASSUME NEW q \in Request
    PROVE  /\ q.phase = "broadcast" => q.ev \in Events /\ q.todo \in SUBSET Streams
           /\ q.phase = "recipients" => q.ev \in Comments
           /\ q.phase = "notify" => q.ev \in Comments /\ q.todo \in SUBSET Recipients
           /\ q.phase = "load" => q.ev \in Events \ Comments
           /\ q.phase = "submit" => q.ev \in Events \ Comments /\ q.todo \in SUBSET Automations
  BY DEF Request, Idle

\* The requests the subscribers move to.
LEMMA NextRequests ==
    /\ Idle \in Request
    /\ \A e \in Events, T \in SUBSET Streams : Broadcast(e, T) \in Request
    /\ \A e \in Comments : Recipient(e) \in Request
    /\ \A e \in Comments, T \in SUBSET Recipients : Notify(e, T) \in Request
    /\ \A e \in Events \ Comments : Load(e) \in Request
    /\ \A e \in Events \ Comments, T \in SUBSET Automations : Submit(e, T) \in Request
  BY DEF Request, Broadcast, Recipient, Notify, Load, Submit

\* A request's new state keeps the table of requests well typed.
LEMMA GotoType ==
    ASSUME req \in [Requests -> Request], NEW r \in Requests, NEW q \in Request, Goto(r, q)
    PROVE  req' \in [Requests -> Request]
  BY DEF Goto

LEMMA DeliverType ==
    ASSUME TypeOK, NEW r \in Requests, Publish(r) \/ Deliver(r) \/ RequestCancelled(r)
    PROVE  TypeOK'
  <1> USE DEF TypeOK, sse, tasks, shutdown
  <1>0. req[r] \in Request
    OBVIOUS
  <1>1. CASE Publish(r)
    <2>1. PICK e \in Events \ seen : seen' = seen \cup {e} /\ Goto(r, Broadcast(e, registered))
      BY <1>1 DEF Publish
    <2>2. req' \in [Requests -> Request]
      BY <2>1, NextRequests, GotoType
    <2> QED  BY <1>1, <2>1, <2>2 DEF Publish
  <1>2. CASE Send(r)
    <2>0. req[r].ev \in Events /\ req[r].todo \in SUBSET Streams
      BY <1>0, <1>2, Locals DEF Send, At
    <2>1. PICK s \in req[r].todo :
            /\ Goto(r, Broadcast(req[r].ev, req[r].todo \ {s}))
            /\ IF stream[s].chan = "closed"
               THEN panicked' = TRUE /\ UNCHANGED stream
               ELSE /\ stream' = [stream EXCEPT ![s].buffered = Buffered(@)]
                    /\ UNCHANGED panicked
      BY <1>2 DEF Send
    <2>2. req' \in [Requests -> Request]
      <3>1. req[r].todo \ {s} \in SUBSET Streams
        BY <2>0
      <3> QED  BY <2>0, <2>1, <3>1, NextRequests, GotoType
    <2>3. Buffered(stream[s].buffered) \in 0..BufferSize
      BY <2>0, PipelineAssumption DEF Buffered, Stream
    <2>4. stream' \in [Streams -> Stream] /\ panicked' \in BOOLEAN
      BY ZenonT(40), <2>0, <2>1, <2>3 DEF Stream
    <2> QED  BY <1>2, <2>2, <2>4 DEF Send
  <1>3. CASE FinishBroadcast(r)
    <2>1. req[r].ev \in Events
      BY <1>0, <1>3, Locals DEF FinishBroadcast, At
    <2>2. req' \in [Requests -> Request]
      BY <1>3, <2>1, NextRequests, GotoType DEF FinishBroadcast
    <2> QED  BY <1>3, <2>2 DEF FinishBroadcast
  <1>4. CASE QueryRecipients(r)
    <2>1. req[r].ev \in Comments
      BY <1>0, <1>4, Locals DEF QueryRecipients, At
    <2>2. req' \in [Requests -> Request]
      BY <1>4, <2>1, NextRequests, GotoType DEF QueryRecipients
    <2> QED  BY <1>4, <2>2 DEF QueryRecipients
  <1>5. CASE InsertNotification(r)
    <2>0. req[r].ev \in Comments /\ req[r].todo \in SUBSET Recipients
      BY <1>0, <1>5, Locals DEF InsertNotification, At
    <2>1. PICK u \in req[r].todo :
            /\ Goto(r, Notify(req[r].ev, req[r].todo \ {u}))
            /\ \/ CanQuery /\ notified' = notified \cup {<<req[r].ev, u>>}
               \/ PoolClosed /\ UNCHANGED notified
      BY <1>5 DEF InsertNotification
    <2>2. req' \in [Requests -> Request]
      <3>1. req[r].todo \ {u} \in SUBSET Recipients
        BY <2>0
      <3> QED  BY <2>0, <2>1, <3>1, NextRequests, GotoType
    <2>3. notified' \subseteq Comments \X Recipients
      BY <2>0, <2>1
    <2> QED  BY <1>5, <2>2, <2>3 DEF InsertNotification
  <1>6. CASE LoadAutomations(r)
    <2>1. req[r].ev \in Events \ Comments
      BY <1>0, <1>6, Locals DEF LoadAutomations, At
    <2>2. req' \in [Requests -> Request]
      BY <1>6, <2>1, NextRequests, GotoType DEF LoadAutomations
    <2> QED  BY <1>6, <2>2 DEF LoadAutomations
  <1>7. CASE SubmitTask(r)
    <2>0. req[r].ev \in Events \ Comments /\ req[r].todo \in SUBSET Automations
      BY <1>0, <1>7, Locals DEF SubmitTask, At
    <2>1. PICK a \in req[r].todo :
            /\ work' = [work EXCEPT ![<<req[r].ev, a>>] =
                          [phase |-> "call", attempt |-> 1, expired |-> FALSE]]
            /\ Goto(r, Submit(req[r].ev, req[r].todo \ {a}))
      BY <1>7 DEF SubmitTask
    <2>2. req' \in [Requests -> Request]
      <3>1. req[r].todo \ {a} \in SUBSET Automations
        BY <2>0
      <3> QED  BY <2>0, <2>1, <3>1, NextRequests, GotoType
    <2>3. [phase |-> "call", attempt |-> 1, expired |-> FALSE] \in Work
      BY DEF Work, MaxAttempts
    <2>4. work' \in [Tasks -> Work]
      BY <2>1, <2>3
    <2> QED  BY <1>7, <2>2, <2>4 DEF SubmitTask
  <1>8. CASE FinishNotify(r) \/ FinishSubmit(r) \/ RequestCancelled(r)
    <2>1. req' \in [Requests -> Request]
      BY <1>8, NextRequests, GotoType DEF FinishNotify, FinishSubmit, RequestCancelled
    <2> QED  BY <1>8, <2>1 DEF FinishNotify, FinishSubmit, RequestCancelled
  <1> QED
    BY <1>1, <1>2, <1>3, <1>4, <1>5, <1>6, <1>7, <1>8 DEF Deliver

LEMMA StreamType ==
    ASSUME TypeOK, NEW s \in Streams, StreamSteps(s)
    PROVE  TypeOK'
  <1> USE DEF TypeOK, sse, tasks, shutdown
  <1>0. stream[s] \in Stream
    OBVIOUS
  <1>1. CASE Connect(s)
    <2>1. [at |-> "reading", chan |-> "open", buffered |-> 0] \in Stream
      BY PipelineAssumption DEF Stream
    <2>2. stream' \in [Streams -> Stream]
      BY <1>1, <2>1 DEF Connect
    <2> QED  BY <1>1, <2>2 DEF Connect
  <1>2. CASE Receive(s)
    <2>1. stream[s].buffered > 0 => stream[s].buffered - 1 \in 0..BufferSize
      BY <1>0, PipelineAssumption DEF Stream
    <2>2. stream' \in [Streams -> Stream]
      BY <1>0, <1>2, <2>1 DEF Receive, Stream
    <2> QED  BY <1>2, <2>2 DEF Receive
  <1>3. CASE Disconnect(s)
    <2>1. stream' \in [Streams -> Stream]
      BY <1>0, <1>3 DEF Disconnect, Stream
    <2> QED  BY <1>3, <2>1 DEF Disconnect
  <1>4. CASE Unsubscribe(s)
    <2>1. [at |-> "off", chan |-> "closed", buffered |-> 0] \in Stream
      BY PipelineAssumption DEF Stream
    <2>2. stream' \in [Streams -> Stream]
      BY <1>4, <2>1 DEF Unsubscribe
    <2>3. panicked' \in BOOLEAN
      BY <1>4 DEF Unsubscribe
    <2> QED  BY <1>4, <2>2, <2>3 DEF Unsubscribe
  <1> QED  BY <1>1, <1>2, <1>3, <1>4 DEF StreamSteps

\* A task's new state keeps the table of tasks well typed.
LEMMA NextWork ==
    ASSUME NEW w \in Work
    PROVE  /\ [phase |-> "end"] \in Work
           /\ [phase |-> "done"] \in Work
           /\ w.phase \in {"call", "log"} => [w EXCEPT !.expired = TRUE] \in Work
           /\ w.phase = "call" /\ w.attempt < MaxAttempts =>
                [w EXCEPT !.attempt = @ + 1] \in Work
           /\ w.phase \in {"call", "log"} => w.expired \in BOOLEAN
           /\ w.phase = "log" => w.status \in Statuses
  <1>1. CASE w.phase \in {"none", "end", "done"}
    BY <1>1 DEF Work
  <1>2. CASE w.phase = "call"
    <2>1. w \in [phase : {"call"}, attempt : 1..MaxAttempts, expired : BOOLEAN]
      BY <1>2 DEF Work
    <2>2. [w EXCEPT !.expired = TRUE]
             \in [phase : {"call"}, attempt : 1..MaxAttempts, expired : BOOLEAN]
      BY <2>1
    <2>3. ASSUME w.attempt < MaxAttempts
          PROVE  [w EXCEPT !.attempt = @ + 1]
                   \in [phase : {"call"}, attempt : 1..MaxAttempts, expired : BOOLEAN]
      <3>1. w.attempt + 1 \in 1..MaxAttempts
        BY <2>1, <2>3 DEF MaxAttempts
      <3> QED  BY <2>1, <3>1
    <2> QED  BY <1>2, <2>1, <2>2, <2>3 DEF Work
  <1>3. CASE w.phase = "log"
    <2>1. w \in [phase : {"log"}, status : Statuses, expired : BOOLEAN]
      BY <1>3 DEF Work
    <2>2. [w EXCEPT !.expired = TRUE]
             \in [phase : {"log"}, status : Statuses, expired : BOOLEAN]
      BY <2>1
    <2> QED  BY <1>3, <2>1, <2>2 DEF Work
  <1> QED  BY <1>1, <1>2, <1>3 DEF Work

\* A task that ends its action has its status to log.
LEMMA LogType ==
    ASSUME work \in [Tasks -> Work], NEW t \in Tasks, work[t].phase = "call",
           NEW status \in Statuses, Log(t, status)
    PROVE  work' \in [Tasks -> Work]
  <1>1. work[t].expired \in BOOLEAN
    BY NextWork
  <1>2. [phase |-> "log", status |-> status, expired |-> work[t].expired] \in Work
    BY <1>1 DEF Work
  <1> QED  BY <1>2 DEF Log

LEMMA RetryType ==
    ASSUME work \in [Tasks -> Work], NEW t \in Tasks, work[t].phase = "call",
           RetryOrFail(t)
    PROVE  work' \in [Tasks -> Work]
  <1>1. CASE work[t].attempt < MaxAttempts
    <2>1. [work[t] EXCEPT !.attempt = @ + 1] \in Work
      BY <1>1, NextWork
    <2> QED  BY <1>1, <2>1 DEF RetryOrFail
  <1>2. CASE ~(work[t].attempt < MaxAttempts)
    BY <1>2, LogType DEF RetryOrFail, Statuses
  <1> QED  BY <1>1, <1>2

LEMMA TaskType ==
    ASSUME TypeOK, NEW t \in Tasks, TaskSteps(t) \/ Expire(t)
    PROVE  TypeOK'
  <1> USE DEF TypeOK, sse, tasks, shutdown
  <1>0. work[t] \in Work
    OBVIOUS
  <1>1. CASE Skip(t)
    <2>1. work' \in [Tasks -> Work]
      BY <1>1, LogType DEF Skip, Calling, Statuses
    <2> QED  BY <1>1, <2>1 DEF Skip
  <1>2. CASE RunStatement(t)
    <2>1. work' \in [Tasks -> Work]
      BY <1>2, LogType DEF RunStatement, Calling, Statuses
    <2> QED  BY <1>2, <2>1 DEF RunStatement
  <1>3. CASE CallWebhook(t)
    <2>1. work' \in [Tasks -> Work]
      BY <1>3, LogType, RetryType DEF CallWebhook, Calling, Statuses
    <2>2. delivered' \subseteq Tasks
      BY <1>3 DEF CallWebhook
    <2> QED  BY <1>3, <2>1, <2>2 DEF CallWebhook
  <1>4. CASE LogRun(t)
    <2>1. work' \in [Tasks -> Work]
      BY <1>4, NextWork DEF LogRun
    <2>2. <<t, work[t].status>> \in Tasks \X Statuses
      <3>1. work[t].status \in Statuses
        BY <1>0, <1>4, NextWork DEF LogRun
      <3> QED  BY <3>1
    <2>4. runs' \subseteq Tasks \X Statuses
      BY <1>4, <2>2 DEF LogRun
    <2>3. faults' \in 0..MaxFaults
      BY <1>4, PipelineAssumption DEF LogRun
    <2> QED  BY <1>4, <2>1, <2>3, <2>4 DEF LogRun
  <1>5. CASE EndTask(t)
    <2>1. work' \in [Tasks -> Work]
      BY <1>5, NextWork DEF EndTask
    <2> QED  BY <1>5, <2>1 DEF EndTask
  <1>6. CASE Expire(t)
    <2>1. [work[t] EXCEPT !.expired = TRUE] \in Work
      BY <1>0, <1>6, NextWork DEF Expire
    <2>2. work' \in [Tasks -> Work]
      BY <1>6, <2>1 DEF Expire
    <2>3. faults' \in 0..MaxFaults
      BY <1>6, PipelineAssumption DEF Expire
    <2> QED  BY <1>6, <2>2, <2>3 DEF Expire
  <1> QED  BY <1>1, <1>2, <1>3, <1>4, <1>5, <1>6 DEF TaskSteps

LEMMA StopType ==
    ASSUME TypeOK, Signal \/ Stop
    PROVE  TypeOK'
  <1> USE DEF TypeOK, sse, tasks, shutdown
  <1>1. CASE Signal \/ EndWait \/ Drain \/ ClosePool \/ Exit
    BY <1>1 DEF Signal, EndWait, Drain, ClosePool, Exit, Enter, Phases
  <1>2. CASE CloseBroker
    <2>1. \A s \in Streams : [stream[s] EXCEPT !.chan = "closed"] \in Stream
      BY DEF Stream
    <2>2. stream' \in [Streams -> Stream]
      BY <1>2, <2>1 DEF CloseBroker
    <2>3. panicked' \in BOOLEAN
      BY <1>2 DEF CloseBroker
    <2> QED  BY <1>2, <2>2, <2>3 DEF CloseBroker, Enter, Phases
  <1>3. CASE TakeSlot
    <2>1. held' \in 0..MaxWorkers
      BY <1>3, PipelineAssumption DEF TakeSlot
    <2> QED  BY <1>3, <2>1 DEF TakeSlot
  <1>4. CASE GiveSlot
    <2>1. held' \in 0..MaxWorkers
      BY <1>4, PipelineAssumption DEF GiveSlot
    <2> QED  BY <1>4, <2>1 DEF GiveSlot
  <1> QED  BY <1>1, <1>2, <1>3, <1>4 DEF Stop

LEMMA InitType == Init => TypeOK
  <1> SUFFICES ASSUME Init PROVE TypeOK
    OBVIOUS
  <1>1. stream \in [Streams -> Stream]
    BY PipelineAssumption DEF Init, Stream
  <1>2. work \in [Tasks -> Work]
    BY DEF Init, Work
  <1>3. req \in [Requests -> Request]
    BY NextRequests DEF Init
  <1>4. phase \in Phases /\ held \in 0..MaxWorkers /\ faults \in 0..MaxFaults
    BY PipelineAssumption DEF Init, Phases
  <1> QED  BY <1>1, <1>2, <1>3, <1>4 DEF Init, TypeOK

LEMMA NextType == TypeOK /\ [Next]_vars => TypeOK'
  <1> SUFFICES ASSUME TypeOK, [Next]_vars PROVE TypeOK'
    OBVIOUS
  <1>1. CASE UNCHANGED vars
    BY <1>1 DEF TypeOK, vars, sse, tasks, shutdown
  <1>2. CASE Next
    BY <1>2, DeliverType, StreamType, TaskType, StopType DEF Next
  <1> QED  BY <1>1, <1>2

\* Requests, streams, tasks and shutdown keep their types.
THEOREM TypeCorrect == Spec => []TypeOK
  BY InitType, NextType, PTL DEF Spec

(***************************************************************************)
(* The broker.  NoPanic alone is not inductive: the channels of Broker.     *)
(* clients are open, and what a broadcast has still to send to is among     *)
(* them, because nobody leaves the map under the read lock.                 *)
(***************************************************************************)
RegisteredOpen == \A s \in registered : stream[s].chan = "open"
BroadcastRegistered ==
    \A r \in Requests : At(r, "broadcast") => req[r].todo \subseteq registered

BrokerInv == TypeOK /\ NoPanic /\ RegisteredOpen /\ BroadcastRegistered

\* Where a request goes is not a broadcast unless it says so.
LEMMA Phase ==
    /\ Idle.phase = "idle"
    /\ \A e, T : /\ Broadcast(e, T).phase = "broadcast"
                 /\ Broadcast(e, T).ev = e
                 /\ Broadcast(e, T).todo = T
    /\ \A e : Recipient(e).phase = "recipients" /\ Recipient(e).ev = e
    /\ \A e, T : /\ Notify(e, T).phase = "notify"
                 /\ Notify(e, T).ev = e
    /\ \A e : Load(e).phase = "load" /\ Load(e).ev = e
    /\ \A e, T : /\ Submit(e, T).phase = "submit"
                 /\ Submit(e, T).ev = e
                 /\ Submit(e, T).todo = T
  BY DEF Idle, Broadcast, Recipient, Notify, Load, Submit

\* Steps of requests outside Broadcast leave the broker alone.
LEMMA QuietDeliver ==
    ASSUME TypeOK, NEW r \in Requests,
           \/ FinishBroadcast(r) \/ QueryRecipients(r) \/ InsertNotification(r)
           \/ FinishNotify(r) \/ LoadAutomations(r) \/ SubmitTask(r) \/ FinishSubmit(r)
           \/ RequestCancelled(r)
    PROVE  /\ UNCHANGED sse
           /\ \A q \in Requests : At(q, "broadcast")' =>
                At(q, "broadcast") /\ UNCHANGED req[q]
  <1>1. \E q : Goto(r, q) /\ q.phase # "broadcast"
    BY Phase DEF FinishBroadcast, QueryRecipients, InsertNotification, FinishNotify,
                 LoadAutomations, SubmitTask, FinishSubmit, RequestCancelled
  <1>2. UNCHANGED sse
    BY DEF FinishBroadcast, QueryRecipients, InsertNotification, FinishNotify,
           LoadAutomations, SubmitTask, FinishSubmit, RequestCancelled, sse
  <1> QED  BY <1>1, <1>2 DEF Goto, At, TypeOK

LEMMA InitBroker == Init => BrokerInv
  <1> SUFFICES ASSUME Init PROVE BrokerInv
    OBVIOUS
  <1> QED  BY InitType, Phase
           DEF Init, BrokerInv, NoPanic, RegisteredOpen, BroadcastRegistered, At

LEMMA NextBroker == BrokerInv /\ [Next]_vars => BrokerInv'
  <1> SUFFICES ASSUME BrokerInv, [Next]_vars PROVE BrokerInv'
    OBVIOUS
  <1> USE DEF NoPanic, RegisteredOpen, BroadcastRegistered
  <1>0. TypeOK /\ TypeOK'
    BY NextType DEF BrokerInv
  <1>1. CASE UNCHANGED <<req, sse>>
    BY <1>0, <1>1 DEF BrokerInv, sse, At
  <1>2. ASSUME NEW r \in Requests, Publish(r)
        PROVE  BrokerInv'
    <2>1. PICK e \in Events \ seen : Goto(r, Broadcast(e, registered))
      BY <1>2 DEF Publish
    <2> QED  BY <1>0, <1>2, <2>1, Phase DEF Publish, Goto, BrokerInv, TypeOK, sse, At
  <1>3. ASSUME NEW r \in Requests, Send(r)
        PROVE  BrokerInv'
    <2>1. PICK s \in req[r].todo :
            /\ Goto(r, Broadcast(req[r].ev, req[r].todo \ {s}))
            /\ IF stream[s].chan = "closed"
               THEN panicked' = TRUE /\ UNCHANGED stream
               ELSE /\ stream' = [stream EXCEPT ![s].buffered = Buffered(@)]
                    /\ UNCHANGED panicked
      BY <1>3 DEF Send
    <2>2. s \in registered /\ stream[s].chan = "open"
      BY <1>3, <2>1 DEF Send, BrokerInv
    <2>3. UNCHANGED <<registered, panicked>> /\ \A x \in Streams : stream'[x].chan = stream[x].chan
      BY <1>0, <1>3, <2>1, <2>2 DEF Send, TypeOK, Stream
    <2>4. BroadcastRegistered'
      BY <1>0, <1>3, <2>1, <2>3, Phase DEF Send, Goto, BrokerInv, TypeOK, At
    <2> QED  BY <1>0, <2>3, <2>4 DEF BrokerInv, TypeOK
  <1>4. ASSUME NEW r \in Requests, Deliver(r) \/ RequestCancelled(r), ~Send(r)
        PROVE  BrokerInv'
    <2>1. UNCHANGED sse /\ \A q \in Requests : At(q, "broadcast")' =>
                             At(q, "broadcast") /\ UNCHANGED req[q]
      BY <1>0, <1>4, QuietDeliver DEF Deliver
    <2> QED  BY <1>0, <2>1 DEF BrokerInv, sse
  <1>5. ASSUME NEW s \in Streams, StreamSteps(s)
        PROVE  BrokerInv'
    <2>0. UNCHANGED req
      BY <1>5 DEF StreamSteps, Connect, Receive, Disconnect, Unsubscribe
    <2>1. CASE Connect(s)
      BY <1>0, <2>0, <2>1 DEF Connect, BrokerInv, TypeOK, At
    <2>2. CASE Receive(s) \/ Disconnect(s)
      <3>1. UNCHANGED <<registered, panicked>>
            /\ \A x \in Streams : stream'[x].chan = stream[x].chan
        BY <1>0, <2>2 DEF Receive, Disconnect, TypeOK, Stream
      <3> QED  BY <1>0, <2>0, <3>1 DEF BrokerInv, TypeOK, At
    <2>3. CASE Unsubscribe(s)
      BY <1>0, <2>0, <2>3 DEF Unsubscribe, NoReader, BrokerInv, TypeOK, At
    <2> QED  BY <1>5, <2>1, <2>2, <2>3 DEF StreamSteps
  <1>6. CASE CloseBroker
    BY <1>0, <1>6 DEF CloseBroker, NoReader, BrokerInv, At
  <1>7. ASSUME NEW t \in Tasks, TaskSteps(t) \/ Expire(t)
        PROVE  UNCHANGED <<req, sse>>
    BY <1>7 DEF TaskSteps, Skip, RunStatement, CallWebhook, LogRun, EndTask, Expire
  <1>8. ASSUME Signal \/ Stop, ~CloseBroker
        PROVE  UNCHANGED <<req, sse>>
    BY <1>8 DEF Stop, Signal, TakeSlot, EndWait, GiveSlot, Drain, ClosePool, Exit
  <1>9. CASE UNCHANGED vars
    BY <1>1, <1>9 DEF vars
  <1> QED
    BY <1>1, <1>2, <1>3, <1>4, <1>5, <1>6, <1>7, <1>8, <1>9 DEF Next, Deliver

\* No interleaving of Broadcast, unsubscribe and Close sends to a closed channel
\* or closes one twice.
THEOREM NoPanicCorrect == Spec => []NoPanic
  <1>1. BrokerInv => NoPanic
    BY DEF BrokerInv
  <1> QED  BY <1>1, InitBroker, NextBroker, PTL DEF Spec

(***************************************************************************)
(* The pool.  Tasks and Wait share MaxWorkers slots; when Wait has all of   *)
(* them, no task has one.                                                  *)
(***************************************************************************)
PoolInv ==
    /\ TypeOK
    /\ IsFiniteSet(Running)
    /\ Cardinality(Running) + held <= MaxWorkers

LEMMA InitPool == Init => PoolInv
  <1> SUFFICES ASSUME Init PROVE PoolInv
    OBVIOUS
  <1>1. Running = {}
    BY DEF Init, Running
  <1>2. IsFiniteSet(Running) /\ Cardinality(Running) = 0
    BY <1>1, FS_EmptySet
  <1> QED  BY <1>2, InitType, PipelineAssumption DEF Init, PoolInv

\* A task that goes on or ends takes no slot.
LEMMA TaskSlots ==
    ASSUME TypeOK, NEW t \in Tasks, TaskSteps(t) \/ Expire(t)
    PROVE  Running' \subseteq Running /\ UNCHANGED held
  <1>1. work[t].phase \notin {"none", "done"}
    BY DEF TaskSteps, Skip, RunStatement, CallWebhook, LogRun, EndTask, Expire, Calling
  <1>2. \E w : work' = [work EXCEPT ![t] = w]
    BY DEF TaskSteps, Skip, RunStatement, CallWebhook, RetryOrFail, LogRun, EndTask,
           Expire, Log
  <1>3. UNCHANGED held
    BY DEF TaskSteps, Skip, RunStatement, CallWebhook, LogRun, EndTask, Expire, shutdown
  <1> QED  BY <1>1, <1>2, <1>3 DEF Running, TypeOK

LEMMA NextPool == PoolInv /\ [Next]_vars => PoolInv'
  <1> SUFFICES ASSUME PoolInv, [Next]_vars PROVE PoolInv'
    OBVIOUS
  <1>0. /\ TypeOK /\ TypeOK'
        /\ held \in Nat /\ MaxWorkers \in Nat
        /\ IsFiniteSet(Running) /\ Cardinality(Running) \in Nat
        /\ Cardinality(Running) + held <= MaxWorkers
    BY NextType, FS_CardinalityType, PipelineAssumption DEF PoolInv, TypeOK
  <1>1. CASE UNCHANGED <<work, held>>
    BY <1>0, <1>1 DEF PoolInv, Running
  <1>2. ASSUME NEW r \in Requests, SubmitTask(r)
        PROVE  PoolInv'
    <2>1. PICK a \in req[r].todo :
            work' = [work EXCEPT ![<<req[r].ev, a>>] =
                       [phase |-> "call", attempt |-> 1, expired |-> FALSE]]
      BY <1>2 DEF SubmitTask
    <2>2. SlotFree /\ UNCHANGED held
      BY <1>2 DEF SubmitTask, shutdown
    <2>3. Running' \subseteq Running \cup {<<req[r].ev, a>>}
      BY <1>0, <2>1 DEF Running, TypeOK
    <2> DEFINE R == Running \cup {<<req[r].ev, a>>}
    <2>4. IsFiniteSet(R) /\ Cardinality(R) <= Cardinality(Running) + 1
      <3>1. IsFiniteSet(R) /\ (\/ Cardinality(R) = Cardinality(Running)
                               \/ Cardinality(R) = Cardinality(Running) + 1)
        BY <1>0, FS_AddElement
      <3> HIDE DEF R
      <3> QED  BY <1>0, <3>1
    <2>5. IsFiniteSet(Running') /\ Cardinality(Running') <= Cardinality(R)
      BY <2>3, <2>4, FS_Subset
    <2>6. Cardinality(Running') \in Nat /\ Cardinality(R) \in Nat
      BY <2>4, <2>5, FS_CardinalityType
    <2>7. Cardinality(Running) + held < MaxWorkers
      BY <2>2 DEF SlotFree
    <2>8. Cardinality(Running') + held <= MaxWorkers
      <3> HIDE DEF R
      <3> QED  BY <1>0, <2>4, <2>5, <2>6, <2>7
    <2> QED  BY <1>0, <2>2, <2>5, <2>8 DEF PoolInv
  <1>3. ASSUME NEW t \in Tasks, TaskSteps(t) \/ Expire(t)
        PROVE  PoolInv'
    <2>1. Running' \subseteq Running /\ UNCHANGED held
      BY <1>0, <1>3, TaskSlots
    <2>2. IsFiniteSet(Running') /\ Cardinality(Running') <= Cardinality(Running)
      BY <1>0, <2>1, FS_Subset
    <2>3. Cardinality(Running') \in Nat
      BY <2>2, FS_CardinalityType
    <2> QED  BY <1>0, <2>1, <2>2, <2>3 DEF PoolInv
  <1>4. CASE TakeSlot \/ GiveSlot
    <2>1. UNCHANGED Running
      BY <1>4 DEF TakeSlot, GiveSlot, tasks, Running
    <2>2. \/ held' = held + 1 /\ Cardinality(Running) + held < MaxWorkers
          \/ held' = held - 1
      BY <1>4 DEF TakeSlot, GiveSlot, SlotFree
    <2> QED  BY <1>0, <2>1, <2>2 DEF PoolInv
  <1>5. ASSUME NEW r \in Requests,
               Publish(r) \/ Deliver(r) \/ RequestCancelled(r), ~SubmitTask(r)
        PROVE  UNCHANGED <<work, held>>
    BY <1>5 DEF Publish, Deliver, RequestCancelled, Send, FinishBroadcast, QueryRecipients,
                InsertNotification, FinishNotify, LoadAutomations, FinishSubmit, tasks, shutdown
  <1>6. ASSUME NEW s \in Streams, StreamSteps(s)
        PROVE  UNCHANGED <<work, held>>
    BY <1>6 DEF StreamSteps, Connect, Receive, Disconnect, Unsubscribe, tasks, shutdown
  <1>7. ASSUME Signal \/ Stop, ~TakeSlot, ~GiveSlot
        PROVE  UNCHANGED <<work, held>>
    BY <1>7 DEF Signal, Stop, CloseBroker, EndWait, Drain, ClosePool, Exit, tasks
  <1>8. CASE UNCHANGED vars
    BY <1>1, <1>8 DEF vars, tasks, shutdown
  <1> QED  BY <1>1, <1>2, <1>3, <1>4, <1>5, <1>6, <1>7, <1>8 DEF Next

\* Wait ends its collection of slots in no other step than the one that finds
\* them all taken.
LEMMA WaitEnds ==
    ASSUME Next, phase = "waiting", phase' = "releasing"
    PROVE  AllTaken
  <1>1. ASSUME NEW r \in Requests, Publish(r) \/ Deliver(r) \/ RequestCancelled(r)
        PROVE  UNCHANGED phase
    BY <1>1 DEF Publish, Deliver, RequestCancelled, Send, FinishBroadcast, QueryRecipients,
                InsertNotification, FinishNotify, LoadAutomations, SubmitTask, FinishSubmit,
                shutdown
  <1>2. ASSUME NEW s \in Streams, StreamSteps(s)
        PROVE  UNCHANGED phase
    BY <1>2 DEF StreamSteps, Connect, Receive, Disconnect, Unsubscribe, shutdown
  <1>3. ASSUME NEW t \in Tasks, TaskSteps(t) \/ Expire(t)
        PROVE  UNCHANGED phase
    BY <1>3 DEF TaskSteps, Skip, RunStatement, CallWebhook, LogRun, EndTask, Expire, shutdown
  <1>4. ASSUME Signal \/ Stop
        PROVE  EndWait
    BY <1>4 DEF Signal, Stop, CloseBroker, TakeSlot, EndWait, GiveSlot, Drain, ClosePool,
                Exit, Enter
  <1> QED  BY <1>1, <1>2, <1>3, <1>4 DEF Next, EndWait

\* Whatever is submitted while it collects the slots, Wait ends when no task
\* runs.
THEOREM WaitQuiescesCorrect == Spec => WaitQuiesces
  <1>1. PoolInv /\ Next /\ phase = "waiting" /\ phase' = "releasing" => Running = {}
    <2> SUFFICES ASSUME PoolInv, Next, phase = "waiting", phase' = "releasing"
                 PROVE  Running = {}
      OBVIOUS
    <2>1. held = MaxWorkers
      BY WaitEnds DEF AllTaken
    <2>2. IsFiniteSet(Running) /\ Cardinality(Running) \in Nat /\ MaxWorkers \in Nat
      BY FS_CardinalityType, PipelineAssumption DEF PoolInv
    <2>3. Cardinality(Running) = 0
      BY <2>1, <2>2 DEF PoolInv
    <2> QED  BY <2>2, <2>3, FS_EmptySet
  <1>2. PoolInv /\ [Next]_vars =>
          [phase = "waiting" /\ phase' = "releasing" => Running = {}]_vars
    BY <1>1
  <1> QED  BY <1>2, InitPool, NextPool, PTL DEF Spec, WaitQuiesces

(***************************************************************************)
(* The run log.  A run is written when its task ends, so a second one needs *)
(* a second task for the same event and automation: an event is published   *)
(* once, and a request submits each of its automations once (Ahead).        *)
(***************************************************************************)
\* Tasks a request may still submit.
Ahead(r) == {t \in Tasks : /\ ~At(r, "idle")
                           /\ t[1] = req[r].ev
                           /\ At(r, "submit") => t[2] \in req[r].todo}

EventsOnce ==
    /\ \A r \in Requests : ~At(r, "idle") => req[r].ev \in seen
    /\ \A r, q \in Requests :
         ~At(r, "idle") /\ ~At(q, "idle") /\ req[r].ev = req[q].ev => r = q
    /\ \A t \in Tasks : work[t].phase # "none" => t[1] \in seen
    /\ \A r \in Requests : \A t \in Ahead(r) : work[t].phase = "none"

RunsOfEnded == \A p \in runs : work[p[1]].phase \in {"end", "done"}
LogsHonest == \A t \in Tasks :
    t[2] \in Webhooks /\ work[t].phase = "log" /\ work[t].status = "success" => t \in delivered

RunInv == TypeOK /\ EventsOnce /\ RunsOfEnded /\ LogsHonest /\ RunsHonest

LEMMA InitRun == Init => RunInv
  <1> SUFFICES ASSUME Init PROVE RunInv
    OBVIOUS
  <1>1. \A r \in Requests : At(r, "idle")
    BY Phase DEF Init, At
  <1>2. \A t \in Tasks : work[t].phase = "none"
    BY DEF Init
  <1>3. EventsOnce
    BY <1>1, <1>2 DEF EventsOnce, Ahead
  <1>4. runs = {}
    BY DEF Init
  <1> QED  BY InitType, <1>2, <1>3, <1>4 DEF RunInv, RunsOfEnded, LogsHonest, RunsHonest

\* A step that leaves events and tasks alone, and moves no request back.
LEMMA Onward ==
    ASSUME RunInv, TypeOK', NEW r \in Requests, NEW q \in Request, Goto(r, q),
           q.phase # "idle" => ~At(r, "idle") /\ q.ev = req[r].ev,
           At(r, "submit") /\ q.phase # "idle" =>
             q.phase = "submit" /\ q.todo \subseteq req[r].todo,
           UNCHANGED <<seen, tasks>>
    PROVE  RunInv'
  <1> USE DEF TypeOK, RunInv
  <1>1. /\ req'[r] = q
        /\ \A x \in Requests : x # r => req'[x] = req[x]
    BY DEF Goto
  <1>2. \A x \in Requests : At(x, "idle")' \/ (~At(x, "idle") /\ req'[x].ev = req[x].ev)
    BY <1>1 DEF At
  <1>3. \A x \in Requests : Ahead(x)' \subseteq Ahead(x)
    BY <1>1, <1>2 DEF Ahead, At
  <1>4. EventsOnce'
    <2> USE DEF EventsOnce, tasks
    <2>1. \A x \in Requests : ~At(x, "idle")' => req'[x].ev \in seen'
      BY <1>2
    <2>2. \A x, y \in Requests : ~At(x, "idle")' /\ ~At(y, "idle")'
                                   /\ req'[x].ev = req'[y].ev => x = y
      BY <1>2
    <2>3. \A x \in Requests : \A t \in Ahead(x)' : work'[t].phase = "none"
      BY <1>3
    <2> QED  BY <2>1, <2>2, <2>3
  <1> QED  BY <1>4 DEF tasks, RunsOfEnded, LogsHonest, RunsHonest

LEMMA DeliverRun ==
    ASSUME RunInv, TypeOK', NEW r \in Requests,
           Publish(r) \/ Deliver(r) \/ RequestCancelled(r)
    PROVE  RunInv'
  <1>0. TypeOK /\ req[r] \in Request
    BY DEF RunInv, TypeOK
  <1>1. CASE Publish(r)
    <2>1. PICK e \in Events \ seen : seen' = seen \cup {e} /\ Goto(r, Broadcast(e, registered))
      BY <1>1 DEF Publish
    <2>2. UNCHANGED <<work, delivered, runs>>
      BY <1>1 DEF Publish, tasks
    <2>3. /\ ~At(r, "idle")' /\ ~At(r, "submit")' /\ req'[r].ev = e
          /\ \A x \in Requests : x # r => req'[x] = req[x]
      BY <1>0, <2>1, Phase DEF Goto, At, TypeOK
    <2>4. \A x \in Requests : x # r => Ahead(x)' = Ahead(x)
      BY <2>3 DEF Ahead, At
    <2>5. \A t \in Ahead(r)' : work[t].phase = "none"
      BY <2>1, <2>3 DEF Ahead, RunInv, EventsOnce
    <2>6. EventsOnce'
      <3>1. \A x \in Requests : ~At(x, "idle")' => req'[x].ev \in seen'
        BY <2>1, <2>3 DEF RunInv, EventsOnce, At
      <3>2. \A x, y \in Requests : ~At(x, "idle")' /\ ~At(y, "idle")'
                                     /\ req'[x].ev = req'[y].ev => x = y
        BY <2>1, <2>3 DEF RunInv, EventsOnce, At
      <3>3. \A t \in Tasks : work'[t].phase # "none" => t[1] \in seen'
        BY <2>1, <2>2 DEF RunInv, EventsOnce
      <3>4. \A x \in Requests : \A t \in Ahead(x)' : work'[t].phase = "none"
        BY <2>2, <2>4, <2>5 DEF RunInv, EventsOnce
      <3> QED  BY <3>1, <3>2, <3>3, <3>4 DEF EventsOnce
    <2> QED  BY <2>2, <2>6 DEF RunInv, RunsOfEnded, LogsHonest, RunsHonest
  <1>2. CASE SubmitTask(r)
    <2> DEFINE e == req[r].ev
    <2>0. e \in Events \ Comments /\ req[r].todo \in SUBSET Automations
      BY <1>0, <1>2, Locals DEF SubmitTask, At
    <2>1. PICK a \in req[r].todo :
            /\ work' = [work EXCEPT ![<<e, a>>] =
                          [phase |-> "call", attempt |-> 1, expired |-> FALSE]]
            /\ Goto(r, Submit(e, req[r].todo \ {a}))
      BY <1>2 DEF SubmitTask
    <2>2. UNCHANGED <<seen, delivered, runs>> /\ At(r, "submit")
      BY <1>2 DEF SubmitTask
    <2> DEFINE t == <<e, a>>
    <2>3. t \in Tasks /\ t \in Ahead(r)
      BY <2>0, <2>1, <2>2 DEF Tasks, Ahead, At
    <2>4. work[t].phase = "none"
      BY <2>3 DEF RunInv, EventsOnce
    <2>5. /\ work'[t].phase = "call"
          /\ \A x \in Tasks : x # t => work'[x] = work[x]
      BY <1>0, <2>1, <2>3 DEF TypeOK
    <2>6. /\ At(r, "submit")' /\ ~At(r, "idle")' /\ req'[r].ev = e
          /\ req'[r].todo = req[r].todo \ {a}
          /\ \A x \in Requests : x # r => req'[x] = req[x]
      BY <1>0, <2>1, Phase DEF Goto, At, TypeOK
    <2>7. \A x \in Requests : Ahead(x)' \subseteq Ahead(x) \ {t}
      <3>1. Ahead(r)' \subseteq Ahead(r) \ {t}
        BY <2>2, <2>6 DEF Ahead, At
      <3>2. \A x \in Requests : x # r => Ahead(x)' = Ahead(x)
        BY <2>6 DEF Ahead, At
      <3>3. \A x \in Requests : x # r => t \notin Ahead(x)
        BY <2>2 DEF RunInv, EventsOnce, Ahead, At
      <3> QED  BY <3>1, <3>2, <3>3
    <2>8. EventsOnce'
      <3>1. \A x \in Requests : ~At(x, "idle")' => req'[x].ev \in seen'
        BY <2>2, <2>6 DEF RunInv, EventsOnce, At
      <3>2. \A x, y \in Requests : ~At(x, "idle")' /\ ~At(y, "idle")'
                                     /\ req'[x].ev = req'[y].ev => x = y
        BY <2>2, <2>6 DEF RunInv, EventsOnce, At
      <3>3. \A x \in Tasks : work'[x].phase # "none" => x[1] \in seen'
        BY <2>2, <2>5 DEF RunInv, EventsOnce, At
      <3>4. \A x \in Requests : \A y \in Ahead(x)' : work'[y].phase = "none"
        BY <2>5, <2>7 DEF RunInv, EventsOnce, Ahead
      <3> QED  BY <3>1, <3>2, <3>3, <3>4 DEF EventsOnce
    <2>9. RunsOfEnded' /\ LogsHonest'
      BY <1>0, <2>2, <2>4, <2>5 DEF RunInv, RunsOfEnded, LogsHonest, TypeOK
    <2> QED  BY <2>2, <2>8, <2>9 DEF RunInv, RunsHonest
  <1>3. CASE \/ Send(r) \/ FinishBroadcast(r) \/ QueryRecipients(r) \/ InsertNotification(r)
             \/ LoadAutomations(r)
    <2>1. UNCHANGED <<seen, tasks>> /\ ~At(r, "idle") /\ ~At(r, "submit")
      BY <1>3 DEF Send, FinishBroadcast, QueryRecipients, InsertNotification,
                  LoadAutomations, At
    <2>2. \E q : Goto(r, q) /\ (q = Idle \/ q.ev = req[r].ev)
      <3>1. CASE Send(r)
        <4>1. PICK s \in req[r].todo : Goto(r, Broadcast(req[r].ev, req[r].todo \ {s}))
          BY <3>1 DEF Send
        <4> QED  BY <4>1, Phase
      <3>2. CASE InsertNotification(r)
        <4>1. PICK u \in req[r].todo : Goto(r, Notify(req[r].ev, req[r].todo \ {u}))
          BY <3>2 DEF InsertNotification
        <4> QED  BY <4>1, Phase
      <3>3. CASE FinishBroadcast(r)
        BY <3>3, Phase DEF FinishBroadcast
      <3>4. CASE QueryRecipients(r)
        BY <3>4, Phase DEF QueryRecipients
      <3>5. CASE LoadAutomations(r)
        BY <3>5, Phase DEF LoadAutomations
      <3> QED  BY <1>3, <3>1, <3>2, <3>3, <3>4, <3>5
    <2>3. PICK q : Goto(r, q) /\ (q = Idle \/ q.ev = req[r].ev)
      BY <2>2
    <2>4. q \in Request
      BY <1>0, <2>3 DEF Goto, TypeOK
    <2> QED  BY <2>1, <2>3, <2>4, Onward, Phase
  <1>4. CASE FinishNotify(r) \/ FinishSubmit(r) \/ RequestCancelled(r)
    <2>1. UNCHANGED <<seen, tasks>> /\ Goto(r, Idle)
      BY <1>4 DEF FinishNotify, FinishSubmit, RequestCancelled
    <2> QED  BY <2>1, Onward, NextRequests, Phase
  <1> QED  BY <1>1, <1>2, <1>3, <1>4 DEF Deliver

LEMMA TaskRun ==
    ASSUME RunInv, TypeOK', NEW t \in Tasks, TaskSteps(t) \/ Expire(t)
    PROVE  RunInv'
  <1>0. TypeOK
    BY DEF RunInv
  <1>1. UNCHANGED <<req, seen>> /\ work[t].phase \notin {"none", "done"}
    BY DEF TaskSteps, Skip, RunStatement, CallWebhook, LogRun, EndTask, Expire, Calling
  <1>2. \A x \in Tasks : x # t => work'[x] = work[x]
    BY <1>0 DEF TaskSteps, Skip, RunStatement, CallWebhook, RetryOrFail, LogRun, EndTask,
                Expire, Log, TypeOK
  <1>3. EventsOnce'
    <2>1. \A r \in Requests : Ahead(r)' = Ahead(r)
      BY <1>1 DEF Ahead, At
    <2>2. \A r \in Requests : t \notin Ahead(r)
      BY <1>1 DEF RunInv, EventsOnce
    <2>3. t[1] \in seen
      BY <1>1 DEF RunInv, EventsOnce
    <2>4. \A r \in Requests : \A x \in Ahead(r)' : work'[x].phase = "none"
      BY <1>2, <2>1, <2>2 DEF RunInv, EventsOnce, Ahead
    <2>5. \A x \in Tasks : work'[x].phase # "none" => x[1] \in seen'
      BY <1>1, <1>2, <2>3 DEF RunInv, EventsOnce
    <2>6. /\ \A r \in Requests : ~At(r, "idle")' => req'[r].ev \in seen'
          /\ \A r, q \in Requests : ~At(r, "idle")' /\ ~At(q, "idle")'
                                      /\ req'[r].ev = req'[q].ev => r = q
      BY <1>1 DEF RunInv, EventsOnce, At
    <2> QED  BY <2>4, <2>5, <2>6 DEF EventsOnce
  <1>4. ASSUME work[t].phase \in {"call", "log"}, UNCHANGED runs
        PROVE  RunsOfEnded' /\ RunsHonest'
    <2>1. \A p \in runs : p[1] # t
      BY <1>4 DEF RunInv, RunsOfEnded
    <2>2. RunsOfEnded'
      BY <1>0, <1>2, <1>4, <2>1 DEF RunInv, RunsOfEnded, TypeOK
    <2>3. delivered \subseteq delivered'
      BY <1>4 DEF TaskSteps, Skip, RunStatement, CallWebhook, LogRun, EndTask, Expire
    <2> QED  BY <1>4, <2>2, <2>3 DEF RunInv, RunsHonest
  <1>5. CASE Skip(t) \/ RunStatement(t)
    <2>1. UNCHANGED <<runs, delivered>> /\ work[t].phase = "call"
      BY <1>5 DEF Skip, RunStatement, Calling
    <2>2. t[2] \in Webhooks => work'[t].status = "skipped"
      BY <1>0, <1>5 DEF Skip, RunStatement, Log, TypeOK
    <2>3. LogsHonest'
      BY <1>2, <2>1, <2>2 DEF RunInv, LogsHonest
    <2> QED  BY <1>3, <1>4, <2>1, <2>3 DEF RunInv
  <1>6. CASE CallWebhook(t)
    <2>1. UNCHANGED runs /\ work[t].phase = "call" /\ delivered \subseteq delivered'
      BY <1>6 DEF CallWebhook, Calling
    <2>2. ASSUME RetryOrFail(t)
          PROVE  ~(work'[t].phase = "log" /\ work'[t].status = "success")
      <3>1. CASE work[t].attempt < MaxAttempts
        <4>1. work'[t] = [work[t] EXCEPT !.attempt = @ + 1]
          BY <1>0, <2>2, <3>1 DEF RetryOrFail, TypeOK
        <4>2. work[t] \in [phase : {"call"}, attempt : 1..MaxAttempts, expired : BOOLEAN]
          BY <1>0, <2>1 DEF TypeOK, Work
        <4> QED  BY <4>1, <4>2
      <3>2. CASE ~(work[t].attempt < MaxAttempts)
        BY <1>0, <2>2, <3>2 DEF RetryOrFail, Log, TypeOK
      <3> QED  BY <3>1, <3>2
    <2>3. work'[t].phase = "log" /\ work'[t].status = "success" => t \in delivered'
      <3>1. CASE t \in delivered'
        BY <3>1
      <3>2. CASE RetryOrFail(t)
        BY <2>2, <3>2
      <3>3. CASE Log(t, "error")
        BY <1>0, <3>3 DEF Log, TypeOK
      <3> QED  BY <1>6, <3>1, <3>2, <3>3 DEF CallWebhook
    <2>4. LogsHonest'
      BY <1>2, <2>1, <2>3 DEF RunInv, LogsHonest
    <2> QED  BY <1>3, <1>4, <2>1, <2>4 DEF RunInv
  <1>7. CASE LogRun(t)
    <2>1. /\ work[t].phase = "log" /\ work'[t].phase = "end" /\ UNCHANGED delivered
          /\ runs' = runs \cup {<<t, work[t].status>>} \/ runs' = runs
      BY <1>0, <1>7 DEF LogRun, TypeOK
    <2>2. \A p \in runs : p[1] # t
      BY <2>1 DEF RunInv, RunsOfEnded
    <2>3. LogsHonest'
      BY <1>2, <2>1 DEF RunInv, LogsHonest
    <2>4. RunsOfEnded'
      BY <1>0, <1>2, <2>1, <2>2 DEF RunInv, RunsOfEnded, TypeOK
    <2>5. \A p, q \in runs' : p[1] = q[1] => p = q
      BY <2>1, <2>2 DEF RunInv, RunsHonest
    <2>6. \A x \in Tasks : x[2] \in Webhooks /\ <<x, "success">> \in runs' => x \in delivered'
      BY <2>1 DEF RunInv, RunsHonest, LogsHonest
    <2> QED  BY <1>3, <2>3, <2>4, <2>5, <2>6 DEF RunInv, RunsHonest
  <1>8. CASE EndTask(t)
    <2>1. UNCHANGED <<runs, delivered>> /\ work'[t].phase = "done"
      BY <1>0, <1>8 DEF EndTask, TypeOK
    <2>2. LogsHonest'
      BY <1>2, <2>1 DEF RunInv, LogsHonest
    <2>3. RunsOfEnded'
      BY <1>0, <1>2, <2>1 DEF RunInv, RunsOfEnded, TypeOK
    <2> QED  BY <1>3, <2>1, <2>2, <2>3 DEF RunInv, RunsHonest
  <1>9. CASE Expire(t)
    <2>1. UNCHANGED <<runs, delivered>> /\ work[t].phase \in {"call", "log"}
      BY <1>9 DEF Expire
    <2>2. work'[t].phase = work[t].phase /\ work'[t].status = work[t].status
      BY <1>0, <1>9 DEF Expire, TypeOK, Work
    <2>3. LogsHonest'
      BY <1>2, <2>1, <2>2 DEF RunInv, LogsHonest
    <2> QED  BY <1>3, <1>4, <2>1, <2>3 DEF RunInv
  <1> QED  BY <1>5, <1>6, <1>7, <1>8, <1>9 DEF TaskSteps

LEMMA NextRun == RunInv /\ [Next]_vars => RunInv'
  <1> SUFFICES ASSUME RunInv, [Next]_vars PROVE RunInv'
    OBVIOUS
  <1>0. TypeOK /\ TypeOK'
    BY NextType DEF RunInv
  <1>1. CASE UNCHANGED <<req, seen, tasks>>
    BY <1>0, <1>1 DEF RunInv, EventsOnce, Ahead, At, RunsOfEnded, LogsHonest, RunsHonest, tasks
  <1>2. ASSUME NEW s \in Streams, StreamSteps(s)
        PROVE  UNCHANGED <<req, seen, tasks>>
    BY <1>2 DEF StreamSteps, Connect, Receive, Disconnect, Unsubscribe
  <1>3. ASSUME Signal \/ Stop
        PROVE  UNCHANGED <<req, seen, tasks>>
    BY <1>3 DEF Signal, Stop, CloseBroker, TakeSlot, EndWait, GiveSlot, Drain, ClosePool, Exit
  <1>4. CASE UNCHANGED vars
    BY <1>1, <1>4 DEF vars
  <1> QED  BY <1>0, <1>1, <1>2, <1>3, <1>4, DeliverRun, TaskRun DEF Next

\* A task has one run at most, and a webhook's run says success only if the call
\* reached its receiver, however often it was retried.
THEOREM RunsHonestCorrect == Spec => []RunsHonest
  <1>1. RunInv => RunsHonest
    BY DEF RunInv
  <1> QED  BY <1>1, InitRun, NextRun, PTL DEF Spec

(***************************************************************************)
(* Every finished task has its run.  RunsLogged looks at the last step of a *)
(* task only; that its run was inserted before, and that its context had    *)
(* not ended then, is what the invariant adds.  Neither the end of serving  *)
(* nor a fault is ever taken back.                                          *)
(***************************************************************************)
HasRun(t) == \E s \in Statuses : <<t, s>> \in runs
Undisturbed == phase = "serving" /\ faults = 0

LoggedInTime ==
    Undisturbed =>
        \A t \in Tasks : /\ work[t].phase \in {"call", "log"} => ~work[t].expired
                         /\ work[t].phase \in {"end", "done"} => HasRun(t)

LogInv == TypeOK /\ LoggedInTime

LEMMA InitLog == Init => LogInv
  <1> SUFFICES ASSUME Init PROVE LogInv
    OBVIOUS
  <1>1. \A t \in Tasks : work[t].phase = "none"
    BY DEF Init
  <1> QED  BY <1>1, InitType DEF LogInv, LoggedInTime

\* Undisturbed once it is not, never again.
LEMMA DisturbedForGood ==
    ASSUME TypeOK, Next, Undisturbed'
    PROVE  Undisturbed
  <1> USE DEF Undisturbed, TypeOK, shutdown
  <1>1. CASE \E r \in Requests : Publish(r) \/ Deliver(r) \/ RequestCancelled(r)
    BY <1>1 DEF Publish, Deliver, RequestCancelled, Send, FinishBroadcast, QueryRecipients,
                InsertNotification, FinishNotify, LoadAutomations, SubmitTask, FinishSubmit
  <1>2. CASE \E s \in Streams : StreamSteps(s)
    BY <1>2 DEF StreamSteps, Connect, Receive, Disconnect, Unsubscribe
  <1>3. CASE \E t \in Tasks : TaskSteps(t) \/ Expire(t)
    <2>1. PICK t \in Tasks : TaskSteps(t) \/ Expire(t)
      BY <1>3
    <2>2. UNCHANGED phase /\ (UNCHANGED faults \/ faults' = faults + 1)
      BY <2>1 DEF TaskSteps, Skip, RunStatement, CallWebhook, LogRun, EndTask, Expire
    <2> QED  BY <2>2
  <1>4. CASE Signal \/ Stop
    BY <1>4 DEF Signal, Stop, CloseBroker, TakeSlot, EndWait, GiveSlot, Drain, ClosePool,
                Exit, Enter
  <1> QED  BY <1>1, <1>2, <1>3, <1>4 DEF Next

\* A step that touches one task, after which that task is as it should be.
LEMMA OneTask ==
    ASSUME LogInv, TypeOK', Next, NEW t \in Tasks,
           \A x \in Tasks : x # t => work'[x] = work[x],
           runs \subseteq runs',
           Undisturbed /\ Undisturbed' =>
             /\ work'[t].phase \in {"call", "log"} => ~work'[t].expired
             /\ work'[t].phase \in {"end", "done"} => HasRun(t)'
    PROVE  LogInv'
  <1>1. Undisturbed' => Undisturbed
    BY DisturbedForGood DEF LogInv
  <1>2. \A x \in Tasks : HasRun(x) => HasRun(x)'
    BY DEF HasRun
  <1> QED  BY <1>1, <1>2 DEF LogInv, LoggedInTime

LEMMA TaskLog ==
    ASSUME LogInv, TypeOK', Next, NEW t \in Tasks, TaskSteps(t) \/ Expire(t)
    PROVE  LogInv'
  <1>0. TypeOK /\ work[t] \in Work
    BY DEF LogInv, TypeOK
  <1>1. \A x \in Tasks : x # t => work'[x] = work[x]
    BY <1>0 DEF TaskSteps, Skip, RunStatement, CallWebhook, RetryOrFail, LogRun, EndTask,
                Expire, Log, TypeOK
  <1>2. runs \subseteq runs'
    BY DEF TaskSteps, Skip, RunStatement, CallWebhook, LogRun, EndTask, Expire
  <1>3. ASSUME Undisturbed, Undisturbed'
        PROVE  /\ work'[t].phase \in {"call", "log"} => ~work'[t].expired
               /\ work'[t].phase \in {"end", "done"} => HasRun(t)'
    <2>1. /\ work[t].phase \in {"call", "log"} => ~work[t].expired
          /\ work[t].phase \in {"end", "done"} => HasRun(t)
      BY <1>3 DEF LogInv, LoggedInTime
    <2>2. ASSUME NEW status \in Statuses, work[t].phase = "call", Log(t, status)
          PROVE  work'[t].phase = "log" /\ work'[t].expired = work[t].expired
      BY <1>0, <2>2 DEF Log, TypeOK
    <2>3. CASE Skip(t) \/ RunStatement(t)
      <3>1. work[t].phase = "call" /\ \E status \in Statuses : Log(t, status)
        BY <2>3 DEF Skip, RunStatement, Calling, Statuses
      <3> QED  BY <2>1, <2>2, <3>1
    <2>4. CASE CallWebhook(t)
      <3>1. work[t].phase = "call"
        BY <2>4 DEF CallWebhook, Calling
      <3>2. work[t] \in [phase : {"call"}, attempt : 1..MaxAttempts, expired : BOOLEAN]
        BY <1>0, <3>1 DEF Work
      <3>3. \/ \E status \in Statuses : Log(t, status)
            \/ work' = [work EXCEPT ![t].attempt = @ + 1]
        BY <2>4 DEF CallWebhook, RetryOrFail, Statuses
      <3>4. ASSUME work' = [work EXCEPT ![t].attempt = @ + 1]
            PROVE  work'[t].phase = "call" /\ work'[t].expired = work[t].expired
        BY <1>0, <3>2, <3>4 DEF TypeOK
      <3> QED  BY <2>1, <2>2, <3>1, <3>3, <3>4
    <2>5. CASE LogRun(t)
      <3>1. work[t].phase = "log" /\ work'[t].phase = "end"
        BY <1>0, <2>5 DEF LogRun, TypeOK
      <3>2. work[t].status \in Statuses
        BY <1>0, <3>1, NextWork
      <3>3. ~Cancelled(t) /\ faults' # faults + 1
        BY <1>0, <1>3, <2>1, <3>1 DEF Cancelled, Undisturbed, TypeOK
      <3>4. <<t, work[t].status>> \in runs'
        BY <2>5, <3>3 DEF LogRun
      <3> QED  BY <3>1, <3>2, <3>4 DEF HasRun
    <2>6. CASE EndTask(t)
      <3>1. work[t].phase = "end" /\ work'[t].phase = "done" /\ UNCHANGED runs
        BY <1>0, <2>6 DEF EndTask, TypeOK
      <3> QED  BY <2>1, <3>1 DEF HasRun
    <2>7. CASE Expire(t)
      \* A fault, so the step does not end undisturbed.
      <3>1. faults' = faults + 1 /\ faults \in Nat
        BY <1>0, <2>7, PipelineAssumption DEF Expire, TypeOK
      <3> QED  BY <1>3, <3>1 DEF Undisturbed
    <2> QED  BY <2>3, <2>4, <2>5, <2>6, <2>7 DEF TaskSteps
  <1> QED  BY <1>1, <1>2, <1>3, OneTask

LEMMA NextLog == LogInv /\ [Next]_vars => LogInv'
  <1> SUFFICES ASSUME LogInv, [Next]_vars PROVE LogInv'
    OBVIOUS
  <1>0. TypeOK /\ TypeOK'
    BY NextType DEF LogInv
  <1>1. ASSUME UNCHANGED tasks, Undisturbed' => Undisturbed
        PROVE  LogInv'
    BY <1>0, <1>1 DEF LogInv, LoggedInTime, HasRun, tasks
  <1>2. CASE UNCHANGED vars
    BY <1>1, <1>2 DEF vars, tasks, shutdown, Undisturbed
  <1>3. ASSUME NEW r \in Requests, SubmitTask(r), Next
        PROVE  LogInv'
    <2>0. req[r] \in Request /\ At(r, "submit")
      BY <1>0, <1>3 DEF TypeOK, SubmitTask
    <2>1. req[r].ev \in Events \ Comments /\ req[r].todo \in SUBSET Automations
      BY <2>0, Locals DEF At
    <2>2. PICK a \in req[r].todo :
            work' = [work EXCEPT ![<<req[r].ev, a>>] =
                       [phase |-> "call", attempt |-> 1, expired |-> FALSE]]
      BY <1>3 DEF SubmitTask
    <2> DEFINE t == <<req[r].ev, a>>
    <2>3. t \in Tasks
      BY <2>1 DEF Tasks
    <2>4. /\ work'[t] = [phase |-> "call", attempt |-> 1, expired |-> FALSE]
          /\ \A x \in Tasks : x # t => work'[x] = work[x]
      BY <1>0, <2>2, <2>3 DEF TypeOK
    <2>5. runs \subseteq runs'
      BY <1>3 DEF SubmitTask
    <2> HIDE DEF t
    <2> QED  BY <1>0, <1>3, <2>3, <2>4, <2>5, OneTask
  <1>4. CASE Next
    <2>1. Undisturbed' => Undisturbed
      BY <1>0, <1>4, DisturbedForGood
    <2>2. ASSUME NEW r \in Requests, Publish(r) \/ Deliver(r) \/ RequestCancelled(r)
          PROVE  SubmitTask(r) \/ UNCHANGED tasks
      BY <2>2 DEF Publish, Deliver, RequestCancelled, Send, FinishBroadcast, QueryRecipients,
                  InsertNotification, FinishNotify, LoadAutomations, FinishSubmit
    <2>3. ASSUME NEW s \in Streams, StreamSteps(s)
          PROVE  UNCHANGED tasks
      BY <2>3 DEF StreamSteps, Connect, Receive, Disconnect, Unsubscribe
    <2>4. ASSUME Signal \/ Stop
          PROVE  UNCHANGED tasks
      BY <2>4 DEF Signal, Stop, CloseBroker, TakeSlot, EndWait, GiveSlot, Drain, ClosePool, Exit
    <2> QED  BY <1>0, <1>1, <1>3, <1>4, <2>1, <2>2, <2>3, <2>4, TaskLog DEF Next
  <1> QED  BY <1>2, <1>4

\* While the server serves, no insert into the run log fails and no task runs out
\* of time, every finished task has its run: success, error or skipped.
THEOREM RunsLoggedCorrect == Spec => []RunsLogged
  <1>1. LogInv => RunsLogged
    BY DEF LogInv, LoggedInTime, RunsLogged, HasRun, Undisturbed
  <1> QED  BY <1>1, InitLog, NextLog, PTL DEF Spec
=============================================================================
