--------------------------- MODULE ProcessEditor ---------------------------
(***************************************************************************)
(* The process of an app: the page (pages/ProcessPage.tsx), its diagram         *)
(* (components/works/ProcessFlowDiagram.tsx) and what the server checks and      *)
(* stores (backend/internal/schema/process_validate.go, process_store.go).      *)
(* Drafts name statuses by position; the stored process gets an id with the     *)
(* first save, and the page takes the stored process over when its id changes.  *)
(***************************************************************************)
EXTENDS Screen, FiniteSetsExt

CONSTANTS StatusNames, Roles, MaxStatuses, MaxTransitions

\* The process that is stored from the start has two statuses and a transition.
ASSUME ProcessAssumption ==
    /\ MaxStatuses \in Nat /\ MaxStatuses >= 2
    /\ MaxTransitions \in Nat /\ MaxTransitions >= 1
    /\ \E n, m \in StatusNames : n # m

VARIABLES
    isEnabled, statuses, transitions, \* the drafts
    syncedProcessId,                  \* which stored process they come from
    process,                          \* the stored process as the page knows it
    sent,                             \* the save on its way
    places,                           \* how many nodes have a position; prevStatusCount with it
    connectFrom,                      \* Idle, Armed (-1) or a node
    selectedTransition                \* 0 or a position

processDrafts == <<isEnabled, statuses, transitions, syncedProcessId>>
processDiagram == <<places, connectFrom, selectedTransition>>
processVars == <<processDrafts, process, sent, processDiagram>>

NotConnecting == -1
Armed == 0
Status == [name : StatusNames, initial : BOOLEAN]
Positions == 1..MaxStatuses
Transition == [from : Positions, to : Positions, roles : SUBSET Roles]
Stored == [id : {"none", "p"}, enabled : BOOLEAN, statuses : Seq(Status), transitions : Seq(Transition)]
NoProcess == [id |-> "none", enabled |-> FALSE, statuses |-> <<>>, transitions |-> <<>>]
NotSent == [NoProcess EXCEPT !.id = "nothing"]
Unplaced == [nodes |-> 0, counted |-> 0]

ProcessTypeOK ==
    /\ isEnabled \in BOOLEAN /\ statuses \in Seq(Status) /\ transitions \in Seq(Transition)
    /\ Len(statuses) <= MaxStatuses /\ Len(transitions) <= MaxTransitions
    /\ syncedProcessId \in {"none", "p"} /\ process \in Stored /\ (sent = NotSent \/ sent \in Stored)
    /\ places \in [nodes : Positions \cup {0}, counted : Positions \cup {0}]
    /\ connectFrom \in NotConnecting..MaxStatuses /\ selectedTransition \in 0..MaxTransitions

\* The diagram is on the screen while statuses are in use and there are some.
hasDiagram(enabled, list) == enabled /\ list # <<>>

\* Nodes get positions when their number changes while the diagram is there.
PlaceNodes(enabled, list) ==
    LET was == hasDiagram(isEnabled, statuses)
        is == hasDiagram(enabled, list) IN
    IF was /\ is /\ Len(list) = places.counted THEN UNCHANGED processDiagram
    ELSE /\ places' = IF ~is THEN Unplaced
                     ELSE [nodes |-> IF was THEN Len(list) ELSE 0, counted |-> Len(list)]
         /\ connectFrom' = NotConnecting /\ selectedTransition' = 0

ProcessInit ==
    /\ LET n == CHOOSE n \in StatusNames : TRUE
           m == CHOOSE m \in StatusNames \ {n} : TRUE
       IN process \in {NoProcess,
            [id |-> "p", enabled |-> TRUE, transitions |-> <<[from |-> 1, to |-> 2, roles |-> {}]>>,
             statuses |-> <<[name |-> n, initial |-> TRUE], [name |-> m, initial |-> FALSE]>>]}
    /\ isEnabled = process.enabled /\ statuses = process.statuses /\ transitions = process.transitions
    /\ syncedProcessId = process.id
    /\ sent = NotSent
    /\ places = [nodes |-> 0, counted |-> Len(statuses)] /\ connectFrom = NotConnecting /\ selectedTransition = 0

ProcessAct == Act("process")

-----------------------------------------------------------------------------
(* Statuses *)

SetEnabled ==
    /\ ProcessAct
    /\ isEnabled' = ~isEnabled /\ PlaceNodes(~isEnabled, statuses)
    /\ UNCHANGED <<statuses, transitions, syncedProcessId, process, sent>>

SetStatuses(list) == statuses' = list /\ PlaceNodes(isEnabled, list)

addStatus ==
    /\ isEnabled /\ ProcessAct /\ Len(statuses) < MaxStatuses
    /\ \E name \in StatusNames : SetStatuses(Append(statuses, [name |-> name, initial |-> statuses = <<>>]))
    /\ UNCHANGED <<isEnabled, transitions, syncedProcessId, process, sent>>

Renumbered(t, idx) ==
    [t EXCEPT !.from = IF @ > idx THEN @ - 1 ELSE @, !.to = IF @ > idx THEN @ - 1 ELSE @]

\* The first status that is left becomes initial if the initial one goes; transitions
\* of the status go with it, and the others follow the statuses that move up.
removeStatus(idx) ==
    /\ isEnabled /\ ProcessAct
    /\ LET rest == RemoveAt(statuses, idx)
           kept == Filter(transitions, LAMBDA t : idx \notin {t.from, t.to})
       IN /\ SetStatuses([i \in DOMAIN rest |->
                IF i = 1 /\ statuses[idx].initial THEN [rest[i] EXCEPT !.initial = TRUE] ELSE rest[i]])
          /\ transitions' = [i \in DOMAIN kept |-> Renumbered(kept[i], idx)]
    /\ UNCHANGED <<isEnabled, syncedProcessId, process, sent>>

setInitial ==
    /\ isEnabled /\ ProcessAct
    /\ \E idx \in DOMAIN statuses :
        SetStatuses([i \in DOMAIN statuses |-> [statuses[i] EXCEPT !.initial = i = idx]])
    /\ UNCHANGED <<isEnabled, transitions, syncedProcessId, process, sent>>

RemoveStatus == \E idx \in DOMAIN statuses : removeStatus(idx)

-----------------------------------------------------------------------------
(* The diagram: without positions it renders nothing *)

DiagramShown == hasDiagram(isEnabled, statuses) /\ places.nodes > 0

\* The button arms the diagram; the first node clicked is the source, the second the
\* target.  A node can be the source without the button.
ToggleConnect ==
    /\ DiagramShown /\ ProcessAct
    /\ IF connectFrom = NotConnecting THEN connectFrom' = Armed /\ selectedTransition' = 0
       ELSE connectFrom' = NotConnecting /\ UNCHANGED selectedTransition
    /\ UNCHANGED <<processDrafts, process, sent, places>>

handleNodeClick(index) ==
    /\ DiagramShown /\ ProcessAct
    /\ CASE connectFrom = Armed -> connectFrom' = index /\ UNCHANGED <<transitions, selectedTransition>>
         [] connectFrom = NotConnecting -> connectFrom' = index /\ selectedTransition' = 0 /\ UNCHANGED transitions
         [] connectFrom = index -> connectFrom' = NotConnecting /\ UNCHANGED <<transitions, selectedTransition>>
         [] OTHER -> /\ Len(transitions) < MaxTransitions
                     /\ transitions' = Append(transitions, [from |-> connectFrom, to |-> index, roles |-> {}])
                     /\ connectFrom' = NotConnecting /\ UNCHANGED selectedTransition
    /\ UNCHANGED <<isEnabled, statuses, syncedProcessId, process, sent, places>>

ClickNode == \E index \in DOMAIN statuses : index <= places.nodes /\ handleNodeClick(index)

handleTransitionClick ==
    /\ DiagramShown /\ ProcessAct
    /\ \E i \in DOMAIN transitions : selectedTransition' = IF selectedTransition = i THEN 0 ELSE i
    /\ connectFrom' = NotConnecting
    /\ UNCHANGED <<processDrafts, process, sent, places>>

handleBgClick ==
    /\ DiagramShown /\ ProcessAct
    /\ connectFrom' = NotConnecting /\ selectedTransition' = 0
    /\ UNCHANGED <<processDrafts, process, sent, places>>

\* The panel of the selected transition.
EditTransition ==
    /\ DiagramShown /\ selectedTransition \in DOMAIN transitions /\ ProcessAct
    /\ \/ /\ transitions' = RemoveAt(transitions, selectedTransition) /\ selectedTransition' = 0
       \/ \E r \in Roles :
            /\ transitions' = [transitions EXCEPT ![selectedTransition].roles =
                                    IF r \in @ THEN @ \ {r} ELSE @ \cup {r}]
            /\ UNCHANGED selectedTransition
    /\ UNCHANGED <<isEnabled, statuses, syncedProcessId, process, sent, places, connectFrom>>

-----------------------------------------------------------------------------
(* Saving *)

\* ValidateProcessSave: a process that is not in use is not looked at.
OneInitial(p) == Cardinality({i \in DOMAIN p.statuses : p.statuses[i].initial}) = 1
InRange(p) == \A i \in DOMAIN p.transitions : {p.transitions[i].from, p.transitions[i].to} \subseteq DOMAIN p.statuses
DistinctNames(p) == \A i, j \in DOMAIN p.statuses : p.statuses[i].name = p.statuses[j].name => i = j
Reachable(p) ==
    p.transitions # <<>> =>
        \A i \in DOMAIN p.statuses : p.statuses[i].initial \/ \E k \in DOMAIN p.transitions : p.transitions[k].to = i
ValidateProcessSave(p) ==
    p.enabled => p.statuses # <<>> /\ OneInitial(p) /\ InRange(p) /\ DistinctNames(p) /\ Reachable(p)

Drafts(id) == [id |-> id, enabled |-> isEnabled, statuses |-> statuses, transitions |-> transitions]

saveProcess ==
    /\ sent = NotSent /\ ProcessAct
    /\ sent' = Drafts("p")
    /\ UNCHANGED <<processDrafts, process, processDiagram>>

\* The saved process is fetched; the drafts are replaced if they came from another one.
SaveSucceeds ==
    /\ sent # NotSent /\ ValidateProcessSave(sent)
    /\ process' = sent /\ sent' = NotSent
    /\ syncedProcessId' = "p"
    /\ IF syncedProcessId = "p"
       THEN UNCHANGED <<isEnabled, statuses, transitions, processDiagram>>
       ELSE /\ isEnabled' = sent.enabled /\ statuses' = sent.statuses /\ transitions' = sent.transitions
            /\ PlaceNodes(sent.enabled, sent.statuses)
    /\ UNCHANGED acts

SaveFails ==
    /\ sent # NotSent /\ sent' = NotSent
    /\ UNCHANGED <<acts, processDrafts, process, processDiagram>>

ProcessNext ==
    \/ SetEnabled \/ addStatus \/ RemoveStatus \/ setInitial
    \/ ToggleConnect \/ ClickNode \/ handleTransitionClick \/ handleBgClick \/ EditTransition
    \/ saveProcess \/ SaveSucceeds \/ SaveFails

-----------------------------------------------------------------------------
(* Properties *)

\* Whatever is added, connected and removed, the drafts are none the server refuses for
\* its positions or its initial status; names and reachability are the user's affair.
DraftsWellFormed == statuses # <<>> => OneInitial(Drafts("p")) /\ InRange(Drafts("p"))

\* The transitions as the diagram shows them.
ShownNodes(list, of) == {<<list[t.from].name, list[t.to].name, t.roles>> : t \in of}

\* Removing a status leaves every transition between other statuses where it was.
RemovalKeepsTransitions ==
    [][statuses' # statuses => \A idx \in DOMAIN statuses :
        removeStatus(idx) =>
            ShownNodes(statuses', Range(transitions')) =
            ShownNodes(statuses, {t \in Range(transitions) : idx \notin {t.from, t.to}})]_processVars
=============================================================================
