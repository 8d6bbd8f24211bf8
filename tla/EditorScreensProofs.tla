----------------------------- MODULE EditorScreensProofs -----------------------------
(***************************************************************************)
(* Proofs about the pages that configure an app: processes, the options of a  *)
(* field, automations, the designer of interfaces and the app builder, laid out   *)
(* as in RecordScreensProofs.                                               *)
(***************************************************************************)
EXTENDS SequenceLemmas, ProcessEditor, FieldOptions, AutomationForm, InterfaceDesigner, Builder,
        FormLayout

-----------------------------------------------------------------------------
(* The process page: drafts stay well formed *)

\* What DraftsWellFormed needs: transitions lie between statuses also while there are
\* none, the save on its way was such a draft, and the node a connection starts from is
\* one of the statuses, because a diagram with other positions is placed again.
WellFormed(p) == InRange(p) /\ (p.statuses # <<>> => OneInitial(p))

ConnectInv ==
    /\ hasDiagram(isEnabled, statuses) => places.counted = Len(statuses)
    /\ connectFrom <= Len(statuses)

ProcessInv ==
    /\ ProcessTypeOK /\ ConnectInv
    /\ WellFormed(Drafts("p"))
    /\ sent # NotSent => /\ WellFormed(sent)
                         /\ Len(sent.statuses) <= MaxStatuses /\ Len(sent.transitions) <= MaxTransitions

\* One status is initial: there is one, and it is the only one.
Single(list) == \E i \in DOMAIN list : \A j \in DOMAIN list : list[j].initial <=> j = i

LEMMA OneInitialIsSingle ==
    ASSUME NEW p, p.statuses \in Seq(Status)
    PROVE  OneInitial(p) <=> Single(p.statuses)
  <1> DEFINE list == p.statuses
             initials == {i \in DOMAIN list : list[i].initial}
  <1>1. IsFiniteSet(initials)
    <2>1. DOMAIN list = 1..Len(list) /\ Len(list) \in Nat
      BY LenProperties
    <2>2. PICK n \in Nat : n = Len(list)
      BY <2>1
    <2>3. IsFiniteSet(1..n)
      BY FS_Interval
    <2> QED  BY <2>1, <2>2, <2>3, FS_Subset
  <1>2. Cardinality(initials) = 1 <=> \E i : initials = {i}
    <2> HIDE DEF initials
    <2> QED  BY <1>1, FS_Singleton
  <1>3. OneInitial(p) <=> \E i : initials = {i}
    BY <1>2 DEF OneInitial
  <1>4. ASSUME NEW i, initials = {i} PROVE Single(list)
    <2>1. i \in DOMAIN list /\ \A j \in DOMAIN list : list[j].initial <=> j = i
      BY <1>4
    <2> QED  BY <2>1 DEF Single
  <1>5. ASSUME Single(list) PROVE \E i : initials = {i}
    <2>1. PICK i \in DOMAIN list : \A j \in DOMAIN list : list[j].initial <=> j = i
      BY <1>5 DEF Single
    <2>2. initials = {i}
      BY <2>1
    <2> QED  BY <2>2
  <1> HIDE DEF initials
  <1> QED  BY <1>3, <1>4, <1>5

LEMMA PlaceNodesKeeps ==
    ASSUME ProcessInv, NEW enabled \in BOOLEAN, NEW list \in Seq(Status), Len(list) <= MaxStatuses,
           PlaceNodes(enabled, list), isEnabled' = enabled, statuses' = list
    PROVE  /\ ConnectInv'
           /\ places' \in [nodes : Positions \cup {0}, counted : Positions \cup {0}]
           /\ connectFrom' \in NotConnecting..MaxStatuses
           /\ selectedTransition' \in 0..MaxTransitions
  <1>0. /\ places \in [nodes : Positions \cup {0}, counted : Positions \cup {0}]
        /\ connectFrom \in NotConnecting..MaxStatuses /\ selectedTransition \in 0..MaxTransitions
    BY DEF ProcessInv, ProcessTypeOK
  <1>C. /\ hasDiagram(isEnabled, statuses) => places.counted = Len(statuses)
        /\ connectFrom <= Len(statuses)
    BY DEF ProcessInv, ConnectInv
  <1>L. Len(list) \in Positions \cup {0} /\ Len(list) \in Nat /\ MaxStatuses \in Nat /\ MaxTransitions \in Nat
    <2>1. Len(list) \in Nat /\ MaxStatuses \in Nat /\ MaxTransitions \in Nat
      BY ProcessAssumption, LenProperties
    <2> QED  BY <2>1 DEF Positions
  <1>1. CASE hasDiagram(isEnabled, statuses) /\ hasDiagram(enabled, list) /\ Len(list) = places.counted
    <2>1. UNCHANGED processDiagram
      BY <1>1 DEF PlaceNodes
    <2>2. places' = places /\ connectFrom' = connectFrom /\ selectedTransition' = selectedTransition
      BY <2>1 DEF processDiagram
    <2>3. Len(list) = Len(statuses)
      BY <1>1, <1>C
    <2>4. ConnectInv'
      BY <1>1, <1>C, <2>2, <2>3 DEF ConnectInv
    <2> QED  BY <1>0, <2>2, <2>4
  <1>2. CASE ~(hasDiagram(isEnabled, statuses) /\ hasDiagram(enabled, list) /\ Len(list) = places.counted)
    <2>1. /\ places' = IF ~hasDiagram(enabled, list) THEN Unplaced
                     ELSE [nodes |-> IF hasDiagram(isEnabled, statuses) THEN Len(list) ELSE 0,
                           counted |-> Len(list)]
          /\ connectFrom' = NotConnecting /\ selectedTransition' = 0
      BY <1>2 DEF PlaceNodes
    <2>2. places' \in [nodes : Positions \cup {0}, counted : Positions \cup {0}]
      <3>1. PICK n \in Positions \cup {0} : n = Len(list)
        BY <1>L
      <3> QED  BY <2>1, <3>1 DEF Unplaced
    <2>3. hasDiagram(enabled, list) => places'.counted = Len(list)
      BY <2>1
    <2>4. connectFrom' \in NotConnecting..MaxStatuses /\ selectedTransition' \in 0..MaxTransitions
          /\ connectFrom' <= Len(list)
      BY <1>L, <2>1 DEF NotConnecting
    <2>5. hasDiagram(isEnabled, statuses)' <=> hasDiagram(enabled, list)
      BY DEF hasDiagram
    <2> QED  BY <2>2, <2>3, <2>4, <2>5 DEF ConnectInv
  <1> QED  BY <1>1, <1>2

\* Transitions that lie between statuses still do when there are not fewer of them.
LEMMA InRangeGrows ==
    ASSUME NEW p, NEW q, p.transitions = q.transitions, DOMAIN p.statuses \subseteq DOMAIN q.statuses, InRange(p)
    PROVE  InRange(q)
  BY DEF InRange

LEMMA RemoveStatusKeeps ==
    ASSUME statuses \in Seq(Status), transitions \in Seq(Transition), WellFormed(Drafts("p")),
           MaxStatuses \in Nat, Len(statuses) <= MaxStatuses,
           NEW idx \in DOMAIN statuses, removeStatus(idx)
    PROVE  /\ statuses' \in Seq(Status) /\ Len(statuses') = Len(statuses) - 1
           /\ transitions' \in Seq(Transition) /\ Len(transitions') <= Len(transitions)
           /\ WellFormed(Drafts("p"))'
  <1> DEFINE rest == RemoveAt(statuses, idx)
             places2 == {i \in DOMAIN transitions : idx \notin {transitions[i].from, transitions[i].to}}
             kept == ElementsAt(transitions, places2)
             raised(i) == IF i = 1 /\ statuses[idx].initial THEN [rest[i] EXCEPT !.initial = TRUE] ELSE rest[i]
  <1>0. /\ DOMAIN statuses = 1..Len(statuses) /\ Len(statuses) \in Nat /\ idx \in 1..Len(statuses)
        /\ DOMAIN transitions = 1..Len(transitions) /\ Len(transitions) \in Nat
        /\ \A i \in 1..Len(statuses) : statuses[i] \in Status
        /\ \A i \in 1..Len(transitions) : transitions[i] \in Transition
    BY LenProperties, ElementOfSeq
  <1>1. statuses' = [i \in DOMAIN rest |-> raised(i)]
        /\ transitions' = [i \in DOMAIN kept |-> Renumbered(kept[i], idx)]
    BY DEF removeStatus, SetStatuses, Filter
  <1>2. rest \in Seq(Status) /\ Len(rest) = Len(statuses) - 1
        /\ \A i \in 1..Len(statuses) - 1 : rest[i] = IF i < idx THEN statuses[i] ELSE statuses[i + 1]
    BY <1>0, RemoveAtType
  <1>3. DOMAIN rest = 1..Len(statuses) - 1 /\ \A i \in 1..Len(statuses) - 1 : rest[i] \in Status
    BY <1>0, <1>2, LenProperties, ElementOfSeq
  <1>4. \A i \in 1..Len(statuses) - 1 : raised(i) \in Status
    <2> SUFFICES ASSUME NEW i \in 1..Len(statuses) - 1 PROVE raised(i) \in Status
      OBVIOUS
    <2>1. rest[i] \in Status
      BY <1>3
    <2> HIDE DEF rest
    <2> QED  BY <2>1 DEF Status
  <1>5. \A i \in 1..Len(statuses) - 1 : raised(i).initial <=> rest[i].initial \/ (i = 1 /\ statuses[idx].initial)
    <2> SUFFICES ASSUME NEW i \in 1..Len(statuses) - 1
                 PROVE  raised(i).initial <=> rest[i].initial \/ (i = 1 /\ statuses[idx].initial)
      OBVIOUS
    <2>1. rest[i] \in Status
      BY <1>3
    <2> HIDE DEF rest
    <2> QED  BY <2>1 DEF Status
  <1> HIDE DEF raised, rest
  <1>6. statuses' \in Seq(Status) /\ Len(statuses') = Len(statuses) - 1 /\ DOMAIN statuses' = 1..Len(statuses) - 1
    <2>1. statuses' = [i \in 1..Len(statuses) - 1 |-> raised(i)] /\ Len(statuses) - 1 \in Nat
      BY <1>0, <1>1, <1>3
    <2>2. statuses' \in Seq(Status) /\ DOMAIN statuses' = 1..Len(statuses) - 1
      BY <1>4, <2>1, IsASeq
    <2> QED  BY <2>1, <2>2, LenProperties
  <1>7. /\ kept \in Seq(Transition) /\ Len(kept) = Cardinality(places2)
        /\ \A n \in 1..Cardinality(places2) : \E i \in places2 : kept[n] = transitions[i]
        /\ IsFiniteSet(places2) /\ Cardinality(places2) \in Nat
    <2>1. places2 \in SUBSET (DOMAIN transitions)
      OBVIOUS
    <2> HIDE DEF places2
    <2> QED  BY <2>1, ElementsAtType
  <1>8. Cardinality(places2) <= Len(transitions)
    <2>1. IsFiniteSet(1..Len(transitions)) /\ Cardinality(1..Len(transitions)) = Len(transitions)
      <3>1. PICK c \in Nat : c = Len(transitions)
        BY <1>0
      <3>3. 1 \in Int /\ c \in Int
        OBVIOUS
      <3>2. IsFiniteSet(1..c) /\ Cardinality(1..c) = IF 1 > c THEN 0 ELSE c - 1 + 1
        BY <3>3, FS_Interval
      <3> QED  BY <3>1, <3>2
    <2>2. places2 \subseteq 1..Len(transitions)
      BY <1>0
    <2> HIDE DEF places2
    <2>3. Cardinality(places2) <= Cardinality(1..Len(transitions))
      BY <2>1, <2>2, FS_Subset
    <2> QED  BY <2>1, <2>3
  <1>9. ASSUME NEW n \in DOMAIN kept
        PROVE  /\ transitions'[n] \in Transition
               /\ transitions'[n].from \in 1..Len(statuses) - 1
               /\ transitions'[n].to \in 1..Len(statuses) - 1
    <2>1. PICK i \in places2 : kept[n] = transitions[i]
      BY <1>7, LenProperties
    <2> DEFINE t == transitions[i]
    <2>2. t \in Transition /\ t.from # idx /\ t.to # idx
      BY <1>0
    <2>3. t.from \in 1..Len(statuses) /\ t.to \in 1..Len(statuses)
      BY <1>0 DEF WellFormed, InRange, Drafts
    <2>4. transitions'[n] = Renumbered(t, idx)
      BY <1>1, <2>1
    <2> DEFINE down(k) == IF k > idx THEN k - 1 ELSE k
    <2>5. Renumbered(t, idx) = [t EXCEPT !.from = down(t.from), !.to = down(t.to)]
      BY <2>2 DEF Renumbered, Transition
    <2>6. \A k \in 1..Len(statuses) : k # idx => down(k) \in 1..Len(statuses) - 1 /\ down(k) \in Positions
      BY <1>0 DEF Positions
    <2>7. /\ down(t.from) \in 1..Len(statuses) - 1 /\ down(t.to) \in 1..Len(statuses) - 1
          /\ down(t.from) \in Positions /\ down(t.to) \in Positions
      BY <2>2, <2>3, <2>6
    <2> HIDE DEF t, down
    <2>8. /\ Renumbered(t, idx) \in Transition
          /\ Renumbered(t, idx).from = down(t.from) /\ Renumbered(t, idx).to = down(t.to)
      BY <2>2, <2>5, <2>7 DEF Transition
    <2> QED  BY <2>4, <2>7, <2>8
  <1> HIDE DEF kept, places2
  <1>10. transitions' \in Seq(Transition) /\ Len(transitions') = Len(kept) /\ DOMAIN transitions' = DOMAIN kept
    <2>1. DOMAIN kept = 1..Len(kept) /\ Len(kept) \in Nat /\ DOMAIN transitions' = 1..Len(kept)
      BY <1>1, <1>7, LenProperties
    <2>2. transitions' = [n \in 1..Len(kept) |-> transitions'[n]]
      BY <1>1, <2>1
    <2>3. transitions' \in Seq(Transition)
      BY <1>9, <2>1, <2>2, IsASeq
    <2> QED  BY <2>1, <2>3, LenProperties
  <1>11. InRange(Drafts("p"))'
    BY <1>6, <1>9, <1>10 DEF InRange, Drafts
  <1>12. ASSUME statuses' # <<>> PROVE Single(statuses')
    <2>1. PICK i \in 1..Len(statuses) : \A j \in 1..Len(statuses) : statuses[j].initial <=> j = i
      <3>1. Single(statuses)
        <4>1. statuses # <<>> /\ Drafts("p").statuses = statuses
          BY <1>0 DEF Drafts
        <4> QED  BY <4>1, OneInitialIsSingle DEF WellFormed
      <3>2. PICK i \in DOMAIN statuses : \A j \in DOMAIN statuses : statuses[j].initial <=> j = i
        BY <3>1, Zenon DEF Single
      <3>3. DOMAIN statuses = 1..Len(statuses)
        BY <1>0
      <3>4. i \in 1..Len(statuses)
        BY <3>2, <3>3
      <3>5. \A j \in 1..Len(statuses) : statuses[j].initial <=> j = i
        BY <3>2, <3>3
      <3> QED  BY <3>4, <3>5
    <2>2. Len(statuses) - 1 > 0
      BY <1>0, <1>6, <1>12, EmptySeq
    <2>3. \A j \in 1..Len(statuses) - 1 :
            statuses'[j].initial <=> (IF j < idx THEN j = i ELSE j + 1 = i) \/ (j = 1 /\ idx = i)
      <3> SUFFICES ASSUME NEW j \in 1..Len(statuses) - 1
                   PROVE  statuses'[j].initial <=> (IF j < idx THEN j = i ELSE j + 1 = i) \/ (j = 1 /\ idx = i)
        OBVIOUS
      <3>1. statuses'[j].initial <=> rest[j].initial \/ (j = 1 /\ statuses[idx].initial)
        BY <1>1, <1>3, <1>5
      <3>2. j \in 1..Len(statuses) /\ j + 1 \in 1..Len(statuses)
        BY <1>0
      <3>3. rest[j] = IF j < idx THEN statuses[j] ELSE statuses[j + 1]
        BY <1>2
      <3>4. statuses[idx].initial <=> idx = i
        BY <1>0, <2>1
      <3>5. (statuses[j].initial <=> j = i) /\ (statuses[j + 1].initial <=> j + 1 = i)
        BY <2>1, <3>2
      <3>6. CASE j < idx
        BY <3>1, <3>3, <3>4, <3>5, <3>6
      <3>7. CASE ~(j < idx)
        BY <3>1, <3>3, <3>4, <3>5, <3>7
      <3> QED  BY <3>6, <3>7
    <2> DEFINE k == IF i = idx THEN 1 ELSE IF i < idx THEN i ELSE i - 1
    <2>4. k \in 1..Len(statuses) - 1
      BY <1>0, <2>2
    <2>5. \A j \in 1..Len(statuses) - 1 : (IF j < idx THEN j = i ELSE j + 1 = i) \/ (j = 1 /\ idx = i) <=> j = k
      BY <1>0, <2>2
    <2> HIDE DEF k
    <2>6. \A j \in 1..Len(statuses) - 1 : statuses'[j].initial <=> j = k
      BY <2>3, <2>5
    <2>7. DOMAIN statuses' = 1..Len(statuses) - 1
      BY <1>6
    <2>8. k \in DOMAIN statuses'
      BY <2>4, <2>7
    <2>9. \A j \in DOMAIN statuses' : statuses'[j].initial <=> j = k
      BY <2>6, <2>7
    <2> QED  BY <2>8, <2>9, Zenon DEF Single
  <1>13. WellFormed(Drafts("p"))'
    <2>1. Drafts("p")'.statuses = statuses'
      BY DEF Drafts
    <2>2. Drafts("p")'.statuses # <<>> => OneInitial(Drafts("p"))'
      <3> DEFINE q == Drafts("p")'
      <3>1. q.statuses = statuses' /\ q.statuses \in Seq(Status)
        BY <1>6, <2>1
      <3>2. OneInitial(q) <=> Single(q.statuses)
        BY <3>1, OneInitialIsSingle
      <3> QED  BY <1>12, <3>1, <3>2 DEF OneInitial
    <2> QED  BY <1>11, <2>1, <2>2 DEF WellFormed
  <1> QED  BY <1>6, <1>7, <1>8, <1>10, <1>13

LEMMA ProcessStarts == ProcessInit => ProcessInv
  <1> SUFFICES ASSUME ProcessInit PROVE ProcessInv
    OBVIOUS
  <1>M. MaxStatuses \in Nat /\ MaxStatuses >= 2 /\ MaxTransitions \in Nat /\ MaxTransitions >= 1
    BY ProcessAssumption
  <1>1. /\ process \in Stored /\ process.id \in {"none", "p"} /\ process.enabled \in BOOLEAN
        /\ process.statuses \in Seq(Status) /\ process.transitions \in Seq(Transition)
        /\ Len(process.statuses) <= MaxStatuses /\ Len(process.transitions) <= MaxTransitions
        /\ Len(process.statuses) \in Positions \cup {0}
        /\ InRange(process)
        /\ (process.statuses # <<>> => Single(process.statuses))
    <2> DEFINE n == CHOOSE n \in StatusNames : TRUE
               m == CHOOSE m \in StatusNames \ {n} : TRUE
               list == <<[name |-> n, initial |-> TRUE], [name |-> m, initial |-> FALSE]>>
               arrows == <<[from |-> 1, to |-> 2, roles |-> {}]>>
               two == [id |-> "p", enabled |-> TRUE, transitions |-> arrows, statuses |-> list]
    <2>1. process = NoProcess \/ process = two
      BY DEF ProcessInit
    <2>2. n \in StatusNames /\ m \in StatusNames
      <3>1. n \in StatusNames
        BY ProcessAssumption
      <3>2. \E k \in StatusNames \ {n} : TRUE
        <4> HIDE DEF n
        <4>1. PICK a \in StatusNames, b \in StatusNames : a # b
          BY ProcessAssumption
        <4>2. a # n \/ b # n
          BY <4>1
        <4> QED  BY <4>1, <4>2
      <3> HIDE DEF n
      <3> QED  BY <3>1, <3>2
    <2> HIDE DEF n, m
    <2>3. list \in Seq(Status) /\ DOMAIN list = {1, 2} /\ Len(list) = 2 /\ list # <<>>
          /\ list[1].initial = TRUE /\ list[2].initial = FALSE
          /\ Len(list) \in Nat /\ Len(list) > 0 /\ Len(list) < 3
      <3>1. [name |-> n, initial |-> TRUE] \in Status /\ [name |-> m, initial |-> FALSE] \in Status
        BY <2>2 DEF Status
      <3> QED  BY <3>1
    <2>4. arrows \in Seq(Transition) /\ arrows = [i \in 1..1 |-> [from |-> 1, to |-> 2, roles |-> {}]]
      <3>1. 1 \in Positions /\ 2 \in Positions
        BY <1>M DEF Positions
      <3>2. [from |-> 1, to |-> 2, roles |-> {}] \in Transition
        BY <3>1 DEF Transition
      <3> QED  BY <3>2
    <2>5. Len(arrows) <= 1 /\ \A i \in DOMAIN arrows : arrows[i].from = 1 /\ arrows[i].to = 2
      BY DEF arrows
    <2> HIDE DEF list, arrows
    <2>6. CASE process = two
      <3>1. /\ process.id = "p" /\ process.enabled = TRUE /\ process.statuses = list
            /\ process.transitions = arrows /\ process \in Stored
        BY <2>3, <2>4, <2>6 DEF Stored
      <3>2. InRange(process)
        BY <2>3, <2>5, <3>1 DEF InRange
      <3>3. Single(list)
        <4>1. 1 \in DOMAIN list /\ \A j \in DOMAIN list : list[j].initial <=> j = 1
          BY <2>3
        <4> QED  BY <4>1 DEF Single
      <3>4. Len(process.statuses) \in Positions \cup {0} /\ Len(process.statuses) <= MaxStatuses
        <4>1. PICK k : k = Len(list)
          OBVIOUS
        <4>2. k \in Nat /\ k > 0 /\ k < 3
          BY <2>3, <4>1
        <4>3. k \in Positions \cup {0} /\ k <= MaxStatuses
          BY <1>M, <4>2 DEF Positions
        <4> QED  BY <3>1, <4>1, <4>3
      <3>5. Len(process.transitions) <= MaxTransitions
        <4>1. Len(arrows) \in Nat
          BY <2>4, LenProperties
        <4> QED  BY <1>M, <2>5, <3>1, <4>1
      <3> QED  BY <2>3, <2>4, <3>1, <3>2, <3>3, <3>4, <3>5
    <2>7. CASE process = NoProcess
      <3>1. /\ process.id = "none" /\ process.enabled = FALSE /\ process.statuses = <<>>
            /\ process.transitions = <<>> /\ process \in Stored
        BY <2>7 DEF NoProcess, Stored
      <3>2. Len(<<>>) = 0 /\ <<>> \in Seq(Status) /\ <<>> \in Seq(Transition) /\ DOMAIN <<>> = {}
        OBVIOUS
      <3>3. InRange(process)
        BY <3>1, <3>2 DEF InRange
      <3>4. 0 \in Positions \cup {0} /\ 0 <= MaxStatuses /\ 0 <= MaxTransitions
        BY <1>M
      <3>5. Len(process.statuses) = 0 /\ Len(process.transitions) = 0
        BY <3>1, <3>2
      <3>6. /\ Len(process.statuses) <= MaxStatuses /\ Len(process.transitions) <= MaxTransitions
            /\ Len(process.statuses) \in Positions \cup {0}
        BY <3>4, <3>5, Zenon
      <3> QED  BY <3>1, <3>2, <3>3, <3>6
    <2> QED  BY <2>1, <2>6, <2>7
  <1>2. /\ isEnabled = process.enabled /\ statuses = process.statuses /\ transitions = process.transitions
        /\ syncedProcessId = process.id /\ sent = NotSent
        /\ places = [nodes |-> 0, counted |-> Len(statuses)] /\ connectFrom = NotConnecting
        /\ selectedTransition = 0
    BY DEF ProcessInit
  <1>3. places \in [nodes : Positions \cup {0}, counted : Positions \cup {0}] /\ places.counted = Len(statuses)
    <2>1. PICK k \in Positions \cup {0} : k = Len(statuses)
      BY <1>1, <1>2
    <2> QED  BY <1>2, <2>1
  <1>4. connectFrom \in NotConnecting..MaxStatuses /\ selectedTransition \in 0..MaxTransitions
        /\ connectFrom <= Len(statuses)
    <2>1. Len(statuses) \in Nat
      BY <1>1, <1>2, LenProperties
    <2> QED  BY <1>M, <1>2, <2>1 DEF NotConnecting
  <1>5. ProcessTypeOK
    BY <1>1, <1>2, <1>3, <1>4 DEF ProcessTypeOK
  <1>6. WellFormed(Drafts("p"))
    <2>1. Drafts("p").statuses = process.statuses /\ Drafts("p").transitions = process.transitions
      BY <1>2 DEF Drafts
    <2>2. InRange(Drafts("p"))
      BY <1>1, <2>1 DEF InRange
    <2> QED  BY <1>1, <2>1, <2>2, OneInitialIsSingle DEF WellFormed
  <1> QED  BY <1>2, <1>3, <1>4, <1>5, <1>6 DEF ProcessInv, ConnectInv

LEMMA ProcessStep == ProcessInv /\ (ProcessNext \/ UNCHANGED processVars) => ProcessInv'
  <1> SUFFICES ASSUME ProcessInv, ProcessNext \/ UNCHANGED processVars PROVE ProcessInv'
    OBVIOUS
  <1>M. MaxStatuses \in Nat /\ MaxTransitions \in Nat
    BY ProcessAssumption
  <1>0. /\ isEnabled \in BOOLEAN /\ statuses \in Seq(Status) /\ transitions \in Seq(Transition)
        /\ Len(statuses) <= MaxStatuses /\ Len(transitions) <= MaxTransitions
        /\ syncedProcessId \in {"none", "p"} /\ process \in Stored /\ (sent = NotSent \/ sent \in Stored)
        /\ places \in [nodes : Positions \cup {0}, counted : Positions \cup {0}]
        /\ connectFrom \in NotConnecting..MaxStatuses /\ selectedTransition \in 0..MaxTransitions
    BY DEF ProcessInv, ProcessTypeOK
  <1>S. sent # NotSent => /\ WellFormed(sent)
                          /\ Len(sent.statuses) <= MaxStatuses /\ Len(sent.transitions) <= MaxTransitions
    BY DEF ProcessInv
  <1>W. WellFormed(Drafts("p")) /\ ConnectInv
    BY DEF ProcessInv
  <1>D. /\ DOMAIN statuses = 1..Len(statuses) /\ Len(statuses) \in Nat
        /\ DOMAIN transitions = 1..Len(transitions) /\ Len(transitions) \in Nat
        /\ \A i \in 1..Len(statuses) : statuses[i] \in Status
        /\ \A i \in 1..Len(transitions) : transitions[i] \in Transition
    BY <1>0, LenProperties, ElementOfSeq
  \* The drafts change and the diagram with them.
  <1>P. ASSUME isEnabled' \in BOOLEAN, statuses' \in Seq(Status), Len(statuses') <= MaxStatuses,
               PlaceNodes(isEnabled', statuses'),
               transitions' \in Seq(Transition), Len(transitions') <= MaxTransitions,
               WellFormed(Drafts("p"))',
               UNCHANGED <<syncedProcessId, process, sent>>
        PROVE  ProcessInv'
    <2>1. /\ ConnectInv'
          /\ places' \in [nodes : Positions \cup {0}, counted : Positions \cup {0}]
          /\ connectFrom' \in NotConnecting..MaxStatuses
          /\ selectedTransition' \in 0..MaxTransitions
      BY <1>P, PlaceNodesKeeps
    <2>2. ProcessTypeOK'
      BY <1>0, <1>P, <2>1 DEF ProcessTypeOK
    <2>3. (sent # NotSent => /\ WellFormed(sent)
                             /\ Len(sent.statuses) <= MaxStatuses /\ Len(sent.transitions) <= MaxTransitions)'
      BY <1>S, <1>P DEF WellFormed, InRange, OneInitial
    <2> QED  BY <1>P, <2>1, <2>2, <2>3 DEF ProcessInv
  \* Only the diagram and the transitions change.
  <1>Q. ASSUME UNCHANGED <<isEnabled, statuses, syncedProcessId, process, sent, places>>,
               connectFrom' \in NotConnecting..Len(statuses), selectedTransition' \in 0..MaxTransitions,
               transitions' \in Seq(Transition), Len(transitions') <= MaxTransitions,
               \A i \in DOMAIN transitions' : {transitions'[i].from, transitions'[i].to} \subseteq DOMAIN statuses
        PROVE  ProcessInv'
    <2>1. connectFrom' \in NotConnecting..MaxStatuses /\ connectFrom' <= Len(statuses)
      BY <1>0, <1>D, <1>M, <1>Q DEF NotConnecting
    <2>2. ProcessTypeOK'
      BY <1>0, <1>Q, <2>1 DEF ProcessTypeOK
    <2>3. (sent # NotSent => /\ WellFormed(sent)
                             /\ Len(sent.statuses) <= MaxStatuses /\ Len(sent.transitions) <= MaxTransitions)'
      BY <1>S, <1>Q DEF WellFormed, InRange, OneInitial
    <2>4. WellFormed(Drafts("p"))'
      BY <1>W, <1>Q DEF WellFormed, InRange, OneInitial, Drafts
    <2>5. ConnectInv'
      BY <1>W, <1>Q, <2>1 DEF ConnectInv, hasDiagram
    <2> QED  BY <2>2, <2>3, <2>4, <2>5 DEF ProcessInv
  <1>T. /\ \A i \in DOMAIN transitions : {transitions[i].from, transitions[i].to} \subseteq DOMAIN statuses
        /\ connectFrom \in NotConnecting..Len(statuses)
    <2>1. \A i \in DOMAIN transitions : {transitions[i].from, transitions[i].to} \subseteq DOMAIN statuses
      BY <1>W DEF WellFormed, InRange, Drafts
    <2>2. connectFrom \in NotConnecting..Len(statuses)
      BY <1>0, <1>D, <1>M, <1>W DEF ConnectInv, NotConnecting
    <2> QED  BY <2>1, <2>2
  \* A list of statuses of the same length with one that is initial.
  <1>R. ASSUME NEW list \in Seq(Status), DOMAIN statuses \subseteq DOMAIN list, Single(list),
               statuses' = list, UNCHANGED transitions
        PROVE  WellFormed(Drafts("p"))'
    <2> DEFINE q == Drafts("p")'
    <2>1. q.statuses = list /\ q.transitions = transitions
      BY <1>R DEF Drafts
    <2>2. InRange(q)
      BY <1>T, <1>R, <2>1 DEF InRange
    <2>3. OneInitial(q)
      BY <1>R, <2>1, OneInitialIsSingle
    <2> QED  BY <2>2, <2>3 DEF WellFormed, InRange, OneInitial
  <1>1. CASE SetEnabled
    <2>1. isEnabled' = ~isEnabled /\ isEnabled' \in BOOLEAN /\ PlaceNodes(isEnabled', statuses')
          /\ UNCHANGED <<statuses, transitions, syncedProcessId, process, sent>>
      BY <1>1 DEF SetEnabled
    <2>2. WellFormed(Drafts("p"))'
      BY <1>W, <2>1 DEF WellFormed, InRange, OneInitial, Drafts
    <2> QED  BY <1>0, <1>P, <2>1, <2>2
  <1>2. CASE addStatus
    <2>1. PICK name \in StatusNames : SetStatuses(Append(statuses, [name |-> name, initial |-> statuses = <<>>]))
      BY <1>2 DEF addStatus
    <2>2. Len(statuses) < MaxStatuses /\ isEnabled' = isEnabled
          /\ UNCHANGED <<transitions, syncedProcessId, process, sent>>
      BY <1>2 DEF addStatus
    <2> DEFINE e == [name |-> name, initial |-> statuses = <<>>]
    <2>3. e \in Status /\ (e.initial <=> statuses = <<>>)
      BY DEF Status
    <2>4. statuses' = Append(statuses, e) /\ PlaceNodes(isEnabled', statuses')
      BY <2>1, <2>2 DEF SetStatuses
    <2> HIDE DEF e
    <2>5. statuses' \in Seq(Status) /\ Len(statuses') = Len(statuses) + 1
          /\ (\A i \in 1..Len(statuses) + 1 : statuses'[i] = IF i <= Len(statuses) THEN statuses[i] ELSE e)
      BY <1>0, <2>3, <2>4, AppendType
    <2>6. DOMAIN statuses' = 1..Len(statuses) + 1 /\ DOMAIN statuses \subseteq DOMAIN statuses'
      BY <1>D, <2>5, LenProperties
    <2>7. Single(statuses')
      <3>1. CASE statuses = <<>>
        <4>1. Len(statuses) = 0
          BY <3>1
        <4>2. 1 \in DOMAIN statuses' /\ \A j \in DOMAIN statuses' : j = 1 /\ statuses'[j] = e
          BY <1>D, <2>5, <2>6, <4>1
        <4>3. \A j \in DOMAIN statuses' : statuses'[j].initial <=> j = 1
          BY <2>3, <3>1, <4>2
        <4> QED  BY <4>2, <4>3, Zenon DEF Single
      <3>2. CASE statuses # <<>>
        <4>1. Single(statuses)
          <5>1. Drafts("p").statuses = statuses
            BY DEF Drafts
          <5> QED  BY <1>0, <1>W, <3>2, <5>1, OneInitialIsSingle DEF WellFormed
        <4>2. PICK i \in DOMAIN statuses : \A j \in DOMAIN statuses : statuses[j].initial <=> j = i
          BY <4>1, Zenon DEF Single
        <4>3. i \in DOMAIN statuses'
          BY <2>6, <4>2
        <4>4. ASSUME NEW j \in DOMAIN statuses' PROVE statuses'[j].initial <=> j = i
          <5>1. CASE j <= Len(statuses)
            <6>1. j \in DOMAIN statuses /\ statuses'[j] = statuses[j]
              BY <1>D, <2>5, <2>6, <5>1
            <6> QED  BY <4>2, <6>1
          <5>2. CASE ~(j <= Len(statuses))
            <6>1. statuses'[j] = e /\ j # i
              BY <1>D, <2>5, <2>6, <4>2, <5>2
            <6> QED  BY <2>3, <3>2, <6>1
          <5> QED  BY <5>1, <5>2
        <4> QED  BY <4>3, <4>4, Zenon DEF Single
      <3> QED  BY <3>1, <3>2
    <2>8. WellFormed(Drafts("p"))'
      BY <1>R, <2>2, <2>5, <2>6, <2>7
    <2>9. Len(statuses') <= MaxStatuses
      BY <1>D, <1>M, <2>2, <2>5
    <2> QED  BY <1>0, <1>P, <2>2, <2>4, <2>5, <2>8, <2>9
  <1>3. CASE RemoveStatus
    <2>1. PICK idx \in DOMAIN statuses : removeStatus(idx)
      BY <1>3 DEF RemoveStatus
    <2>2. /\ statuses' \in Seq(Status) /\ Len(statuses') = Len(statuses) - 1
          /\ transitions' \in Seq(Transition) /\ Len(transitions') <= Len(transitions)
          /\ WellFormed(Drafts("p"))'
      BY <1>0, <1>M, <1>W, <2>1, RemoveStatusKeeps
    <2>3. isEnabled' = isEnabled /\ UNCHANGED <<syncedProcessId, process, sent>>
          /\ PlaceNodes(isEnabled', statuses')
      BY <2>1 DEF removeStatus, SetStatuses
    <2>4. Len(statuses') <= MaxStatuses /\ Len(transitions') <= MaxTransitions
      <3>1. Len(transitions') \in Nat
        BY <2>2, LenProperties
      <3> QED  BY <1>0, <1>D, <1>M, <2>2, <3>1
    <2> QED  BY <1>0, <1>P, <2>2, <2>3, <2>4
  <1>4. CASE setInitial
    <2>1. PICK idx \in DOMAIN statuses :
            SetStatuses([i \in DOMAIN statuses |-> [statuses[i] EXCEPT !.initial = i = idx]])
      BY <1>4 DEF setInitial
    <2> DEFINE marked(i) == [statuses[i] EXCEPT !.initial = (i = idx)]
    <2>2. statuses' = [i \in DOMAIN statuses |-> marked(i)] /\ isEnabled' = isEnabled
          /\ PlaceNodes(isEnabled', statuses') /\ UNCHANGED <<transitions, syncedProcessId, process, sent>>
      BY <1>4, <2>1 DEF setInitial, SetStatuses
    <2>3. ASSUME NEW i \in DOMAIN statuses PROVE marked(i) \in Status /\ (marked(i).initial <=> i = idx)
      <3>1. statuses[i] \in Status
        BY <1>D
      <3> QED  BY <3>1 DEF Status
    <2> HIDE DEF marked
    <2>4. statuses' \in Seq(Status) /\ Len(statuses') = Len(statuses) /\ DOMAIN statuses' = DOMAIN statuses
      <3>1. statuses' = [i \in 1..Len(statuses) |-> marked(i)]
        BY <1>D, <2>2
      <3>2. statuses' \in Seq(Status) /\ DOMAIN statuses' = 1..Len(statuses)
        BY <1>D, <2>3, <3>1, IsASeq
      <3> QED  BY <1>D, <3>1, <3>2, LenProperties
    <2>5. Single(statuses')
      <3>1. idx \in DOMAIN statuses' /\ \A j \in DOMAIN statuses' : statuses'[j].initial <=> j = idx
        BY <2>2, <2>3, <2>4
      <3> QED  BY <3>1, Zenon DEF Single
    <2>6. WellFormed(Drafts("p"))'
      BY <1>R, <2>2, <2>4, <2>5
    <2> QED  BY <1>0, <1>P, <2>2, <2>4, <2>6
  <1>5. CASE ToggleConnect
    <2>1. /\ UNCHANGED <<isEnabled, statuses, transitions, syncedProcessId, process, sent, places>>
          /\ connectFrom' = Armed \/ connectFrom' = NotConnecting
          /\ selectedTransition' = 0 \/ selectedTransition' = selectedTransition
      BY <1>5 DEF ToggleConnect, processDrafts
    <2>2. connectFrom' \in NotConnecting..Len(statuses) /\ selectedTransition' \in 0..MaxTransitions
      BY <1>0, <1>D, <1>M, <2>1 DEF NotConnecting, Armed
    <2> QED  BY <1>0, <1>T, <1>Q, <2>1, <2>2
  <1>6. CASE ClickNode
    <2>1. PICK index \in DOMAIN statuses : handleNodeClick(index)
      BY <1>6 DEF ClickNode
    <2>2. index \in 1..Len(statuses) /\ UNCHANGED <<isEnabled, statuses, syncedProcessId, process, sent, places>>
      BY <1>D, <2>1 DEF handleNodeClick
    <2>3. CASE connectFrom \in {Armed, NotConnecting, index}
      <3>1. /\ connectFrom' = index \/ connectFrom' = NotConnecting
            /\ transitions' = transitions
            /\ selectedTransition' = 0 \/ selectedTransition' = selectedTransition
        BY <2>1, <2>3 DEF handleNodeClick
      <3>2. connectFrom' \in NotConnecting..Len(statuses) /\ selectedTransition' \in 0..MaxTransitions
        BY <1>0, <1>D, <1>M, <2>2, <3>1 DEF NotConnecting
      <3> QED  BY <1>0, <1>T, <1>Q, <2>2, <3>1, <3>2
    <2>4. CASE connectFrom \notin {Armed, NotConnecting, index}
      <3> DEFINE t == [from |-> connectFrom, to |-> index, roles |-> {}]
      <3>1. /\ Len(transitions) < MaxTransitions
            /\ transitions' = Append(transitions, t)
            /\ connectFrom' = NotConnecting /\ selectedTransition' = selectedTransition
        BY <2>1, <2>4 DEF handleNodeClick
      <3>2. connectFrom \in 1..Len(statuses)
        BY <1>D, <1>T, <2>4 DEF Armed, NotConnecting
      <3>3. connectFrom \in Positions /\ index \in Positions
        BY <1>0, <1>D, <1>M, <2>2, <3>2 DEF Positions
      <3>4. t \in Transition /\ t.from = connectFrom /\ t.to = index
        BY <3>3 DEF Transition
      <3> HIDE DEF t
      <3>5. transitions' \in Seq(Transition) /\ Len(transitions') = Len(transitions) + 1
            /\ \A i \in 1..Len(transitions) + 1 :
                  transitions'[i] = IF i <= Len(transitions) THEN transitions[i] ELSE t
        BY <1>0, <3>1, <3>4, AppendType
      <3>6. Len(transitions') <= MaxTransitions
        BY <1>D, <1>M, <3>1, <3>5
      <3>7. ASSUME NEW i \in DOMAIN transitions'
            PROVE  {transitions'[i].from, transitions'[i].to} \subseteq DOMAIN statuses
        <4>1. i \in 1..Len(transitions) + 1
          BY <3>5, LenProperties
        <4>2. CASE i <= Len(transitions)
          <5>1. i \in DOMAIN transitions /\ transitions'[i] = transitions[i]
            BY <1>D, <3>5, <4>1, <4>2
          <5> QED  BY <1>T, <5>1
        <4>3. CASE ~(i <= Len(transitions))
          <5>1. transitions'[i] = t
            BY <3>5, <4>1, <4>3
          <5> QED  BY <1>D, <2>2, <3>2, <3>4, <5>1
        <4> QED  BY <4>2, <4>3
      <3>8. connectFrom' \in NotConnecting..Len(statuses) /\ selectedTransition' \in 0..MaxTransitions
        BY <1>0, <1>D, <3>1 DEF NotConnecting
      <3> QED  BY <1>Q, <2>2, <3>5, <3>6, <3>7, <3>8
    <2> QED  BY <2>3, <2>4
  <1>7. CASE handleTransitionClick
    <2>1. /\ UNCHANGED <<isEnabled, statuses, transitions, syncedProcessId, process, sent, places>>
          /\ connectFrom' = NotConnecting
          /\ \E i \in DOMAIN transitions : selectedTransition' = IF selectedTransition = i THEN 0 ELSE i
      BY <1>7 DEF handleTransitionClick, processDrafts
    <2>2. connectFrom' \in NotConnecting..Len(statuses)
      BY <1>D, <2>1 DEF NotConnecting
    <2>3. selectedTransition' \in 0..MaxTransitions
      BY <1>0, <1>D, <1>M, <2>1
    <2> QED  BY <1>0, <1>T, <1>Q, <2>1, <2>2, <2>3
  <1>8. CASE handleBgClick
    <2>1. /\ UNCHANGED <<isEnabled, statuses, transitions, syncedProcessId, process, sent, places>>
          /\ connectFrom' = NotConnecting /\ selectedTransition' = 0
      BY <1>8 DEF handleBgClick, processDrafts
    <2>2. connectFrom' \in NotConnecting..Len(statuses) /\ selectedTransition' \in 0..MaxTransitions
      BY <1>D, <1>M, <2>1 DEF NotConnecting
    <2> QED  BY <1>0, <1>T, <1>Q, <2>1, <2>2
  <1>9. CASE EditTransition
    <2>1. UNCHANGED <<isEnabled, statuses, syncedProcessId, process, sent, places, connectFrom>>
          /\ selectedTransition \in 1..Len(transitions)
      BY <1>9, <1>D DEF EditTransition
    <2>2. CASE transitions' = RemoveAt(transitions, selectedTransition) /\ selectedTransition' = 0
      <3>1. /\ transitions' \in Seq(Transition) /\ Len(transitions') = Len(transitions) - 1
            /\ \A i \in 1..Len(transitions) - 1 : transitions'[i] =
                  IF i < selectedTransition THEN transitions[i] ELSE transitions[i + 1]
        BY <1>0, <2>1, <2>2, RemoveAtType
      <3>2. Len(transitions') <= MaxTransitions /\ selectedTransition' \in 0..MaxTransitions
        BY <1>0, <1>D, <1>M, <2>2, <3>1
      <3>3. ASSUME NEW i \in DOMAIN transitions'
            PROVE  {transitions'[i].from, transitions'[i].to} \subseteq DOMAIN statuses
        <4>1. i \in 1..Len(transitions) - 1
          BY <1>D, <3>1, LenProperties
        <4>2. i \in DOMAIN transitions /\ i + 1 \in DOMAIN transitions
              /\ (transitions'[i] = transitions[i] \/ transitions'[i] = transitions[i + 1])
          BY <1>D, <3>1, <4>1
        <4> QED  BY <1>T, <4>2
      <3> QED  BY <1>T, <1>Q, <2>1, <3>1, <3>2, <3>3
    <2>3. ASSUME NEW r \in Roles,
                 transitions' = [transitions EXCEPT ![selectedTransition].roles =
                                    IF r \in @ THEN @ \ {r} ELSE @ \cup {r}],
                 UNCHANGED selectedTransition
          PROVE  ProcessInv'
      <3> DEFINE t == transitions[selectedTransition]
                 u == [t EXCEPT !.roles = IF r \in t.roles THEN t.roles \ {r} ELSE t.roles \cup {r}]
      <3>1. transitions' = [transitions EXCEPT ![selectedTransition] = u]
        BY <1>D, <2>1, <2>3
      <3>2. t \in Transition
        BY <1>D, <2>1
      <3>3. u \in Transition /\ u.from = t.from /\ u.to = t.to
        <4> HIDE DEF t
        <4> QED  BY <3>2 DEF Transition
      <3> HIDE DEF u
      <3>4. transitions' \in Seq(Transition) /\ Len(transitions') = Len(transitions)
        BY <1>0, <2>1, <3>1, <3>3, ExceptSeq
      <3>5. ASSUME NEW i \in DOMAIN transitions'
            PROVE  {transitions'[i].from, transitions'[i].to} \subseteq DOMAIN statuses
        <4>1. i \in DOMAIN transitions
          BY <1>D, <3>4, LenProperties
        <4>2. transitions'[i] = IF i = selectedTransition THEN u ELSE transitions[i]
          BY <3>1, <4>1
        <4>3. transitions'[i].from = transitions[i].from /\ transitions'[i].to = transitions[i].to
          BY <3>3, <4>2
        <4> QED  BY <1>T, <4>1, <4>3
      <3>6. selectedTransition' \in 0..MaxTransitions
        BY <1>0, <2>3
      <3> QED  BY <1>0, <1>T, <1>Q, <2>1, <3>4, <3>5, <3>6
    <2> QED  BY <1>9, <2>2, <2>3 DEF EditTransition
  <1>N. NotSent.id = "nothing" /\ \A p \in Stored : p # NotSent
    <2>1. NotSent.id = "nothing"
      BY DEF NotSent, NoProcess
    <2>2. \A p \in Stored : p.id \in {"none", "p"}
      BY DEF Stored
    <2> QED  BY <2>1, <2>2
  <1>10. CASE saveProcess
    <2>1. sent' = Drafts("p") /\ UNCHANGED <<isEnabled, statuses, transitions, syncedProcessId, process,
                                             places, connectFrom, selectedTransition>>
      BY <1>10 DEF saveProcess, processDrafts, processDiagram
    <2>2. /\ sent' \in Stored /\ sent'.statuses = statuses /\ sent'.transitions = transitions
      BY <1>0, <2>1 DEF Drafts, Stored
    <2>3. WellFormed(sent)' /\ WellFormed(Drafts("p"))'
      BY <1>W, <2>1 DEF WellFormed, InRange, OneInitial, Drafts
    <2>4. ProcessTypeOK'
      BY <1>0, <2>1, <2>2 DEF ProcessTypeOK
    <2>5. ConnectInv'
      BY <1>W, <2>1 DEF ConnectInv, hasDiagram
    <2> QED  BY <1>0, <2>2, <2>3, <2>4, <2>5 DEF ProcessInv
  <1>11. CASE SaveSucceeds
    <2>1. sent # NotSent /\ process' = sent /\ sent' = NotSent /\ syncedProcessId' = "p"
      BY <1>11 DEF SaveSucceeds
    <2>2. sent \in Stored
      BY <1>0, <2>1
    <2>3. CASE UNCHANGED <<isEnabled, statuses, transitions, processDiagram>>
      <3>1. ProcessTypeOK'
        BY <1>0, <2>1, <2>2, <2>3 DEF ProcessTypeOK, processDiagram
      <3>2. WellFormed(Drafts("p"))'
        BY <1>W, <2>3 DEF WellFormed, InRange, OneInitial, Drafts
      <3>3. ConnectInv'
        BY <1>W, <2>3 DEF ConnectInv, hasDiagram, processDiagram
      <3>4. (sent # NotSent)' = FALSE
        BY <2>1 DEF NotSent, NoProcess
      <3> QED  BY <3>1, <3>2, <3>3, <3>4 DEF ProcessInv
    <2>4. CASE /\ isEnabled' = sent.enabled /\ statuses' = sent.statuses /\ transitions' = sent.transitions
               /\ PlaceNodes(sent.enabled, sent.statuses)
      <3>1. sent.enabled \in BOOLEAN /\ sent.statuses \in Seq(Status) /\ sent.transitions \in Seq(Transition)
        BY <2>2 DEF Stored
      <3>2. /\ ConnectInv'
            /\ places' \in [nodes : Positions \cup {0}, counted : Positions \cup {0}]
            /\ connectFrom' \in NotConnecting..MaxStatuses
            /\ selectedTransition' \in 0..MaxTransitions
        BY <1>S, <2>1, <2>4, <3>1, PlaceNodesKeeps
      <3>3. ProcessTypeOK'
        BY <1>0, <1>S, <2>1, <2>2, <2>4, <3>1, <3>2 DEF ProcessTypeOK
      <3>4. WellFormed(Drafts("p"))'
        BY <1>S, <2>1, <2>4 DEF WellFormed, InRange, OneInitial, Drafts
      <3>5. (sent # NotSent)' = FALSE
        BY <2>1 DEF NotSent, NoProcess
      <3> QED  BY <3>2, <3>3, <3>4, <3>5 DEF ProcessInv
    <2> QED  BY <1>11, <2>3, <2>4 DEF SaveSucceeds
  <1>12. CASE SaveFails
    <2>1. sent' = NotSent /\ UNCHANGED <<isEnabled, statuses, transitions, syncedProcessId, process,
                                         places, connectFrom, selectedTransition>>
      BY <1>12 DEF SaveFails, processDrafts, processDiagram
    <2>2. ProcessTypeOK'
      BY <1>0, <2>1 DEF ProcessTypeOK, NotSent, NoProcess
    <2>3. WellFormed(Drafts("p"))'
      BY <1>W, <2>1 DEF WellFormed, InRange, OneInitial, Drafts
    <2>4. ConnectInv'
      BY <1>W, <2>1 DEF ConnectInv, hasDiagram
    <2>5. (sent # NotSent)' = FALSE
      BY <2>1 DEF NotSent, NoProcess
    <2> QED  BY <2>2, <2>3, <2>4, <2>5 DEF ProcessInv
  <1>13. CASE UNCHANGED processVars
    <2>1. UNCHANGED <<isEnabled, statuses, transitions, syncedProcessId, process, sent,
                      places, connectFrom, selectedTransition>>
      BY <1>13 DEF processVars, processDrafts, processDiagram
    <2> QED  BY <1>0, <1>T, <1>Q, <2>1
  <1> QED  BY <1>1, <1>2, <1>3, <1>4, <1>5, <1>6, <1>7, <1>8, <1>9, <1>10, <1>11, <1>12, <1>13 DEF ProcessNext

LEMMA ProcessMeans == ProcessInv => DraftsWellFormed
  BY DEF ProcessInv, WellFormed, DraftsWellFormed, Drafts

\* A removed status takes its transitions along and leaves the remaining between the
\* statuses they were between.
LEMMA RemovalKeeps ==
    ASSUME statuses \in Seq(Status), transitions \in Seq(Transition), InRange(Drafts("p")),
           NEW idx \in DOMAIN statuses, removeStatus(idx)
    PROVE  ShownNodes(statuses', Range(transitions')) =
           ShownNodes(statuses, {t \in Range(transitions) : idx \notin {t.from, t.to}})
  <1> DEFINE rest == RemoveAt(statuses, idx)
             spots == {i \in DOMAIN transitions : idx \notin {transitions[i].from, transitions[i].to}}
             kept == ElementsAt(transitions, spots)
             remaining == {t \in Range(transitions) : idx \notin {t.from, t.to}}
             down(n) == IF n > idx THEN n - 1 ELSE n
             raised(i) == IF i = 1 /\ statuses[idx].initial THEN [rest[i] EXCEPT !.initial = TRUE] ELSE rest[i]
  <1>1. PICK k \in Nat : k = Len(statuses) /\ DOMAIN statuses = 1..k
    BY LenProperties
  <1>2. PICK l \in Nat : l = k - 1 /\ idx \in 1..k
    BY <1>1
  <1>3. statuses' = [i \in DOMAIN rest |-> raised(i)] /\ transitions' = [i \in DOMAIN kept |-> Renumbered(kept[i], idx)]
    BY DEF removeStatus, SetStatuses, Filter
  <1>4. /\ rest \in Seq(Status) /\ DOMAIN rest = 1..l
        /\ \A i \in 1..l : rest[i] = IF i < idx THEN statuses[i] ELSE statuses[i + 1]
    <2>1. idx \in 1..Len(statuses)
      BY <1>1, <1>2
    <2>2. /\ rest \in Seq(Status) /\ Len(rest) = Len(statuses) - 1
          /\ \A i \in 1..Len(statuses) - 1 : rest[i] = IF i < idx THEN statuses[i] ELSE statuses[i + 1]
      BY <2>1, RemoveAtType
    <2> HIDE DEF rest
    <2> QED  BY <1>1, <1>2, <2>2, LenProperties
  <1>5. \A i \in 1..l : rest[i] \in Status
    BY <1>4, ElementOfSeq, LenProperties
  <1> HIDE DEF rest
  <1>6. \A i \in 1..l : statuses'[i].name = rest[i].name
    <2> SUFFICES ASSUME NEW i \in 1..l  PROVE statuses'[i].name = rest[i].name
      OBVIOUS
    <2>1. statuses'[i] = raised(i)
      BY <1>3, <1>4
    <2>2. rest[i] \in Status
      BY <1>5
    <2> QED  BY <2>1, <2>2 DEF Status
  <1>7. ASSUME NEW n \in 1..k, n # idx
        PROVE  down(n) \in 1..l /\ statuses'[down(n)].name = statuses[n].name
    <2>1. CASE n < idx
      <3>1. down(n) = n /\ n \in 1..l
        BY <1>1, <1>2, <2>1
      <3> QED  BY <1>4, <1>6, <2>1, <3>1
    <2>2. CASE n > idx
      <3>1. PICK m \in 1..l : m = n - 1 /\ m + 1 = n /\ ~(m < idx)
        BY <1>1, <1>2, <2>2
      <3>2. down(n) = m
        BY <2>2, <3>1
      <3> QED  BY <1>4, <1>6, <3>1, <3>2
    <2> QED  BY <1>1, <1>2, <1>7, <2>1, <2>2
  <1>8. ASSUME NEW t \in Transition, t.from \in 1..k, t.to \in 1..k, idx \notin {t.from, t.to}
        PROVE  LET u == Renumbered(t, idx) IN
               <<statuses'[u.from].name, statuses'[u.to].name, u.roles>> =
               <<statuses[t.from].name, statuses[t.to].name, t.roles>>
    <2>1. PICK u : u = Renumbered(t, idx)
      OBVIOUS
    <2>2. u = [t EXCEPT !.from = down(t.from), !.to = down(t.to)]
      BY <1>8, <2>1 DEF Renumbered, Transition
    <2> HIDE DEF down
    <2>3. u.from = down(t.from) /\ u.to = down(t.to) /\ u.roles = t.roles
      BY <1>8, <2>2 DEF Transition
    <2>4. statuses'[u.from].name = statuses[t.from].name /\ statuses'[u.to].name = statuses[t.to].name
      <3>1. t.from \in 1..k /\ t.from # idx /\ t.to \in 1..k /\ t.to # idx
        BY <1>8
      <3> QED  BY <1>7, <2>3, <3>1
    <2> QED  BY <2>1, <2>3, <2>4
  <1>9. /\ \A t \in Range(transitions') : \E s \in remaining : t = Renumbered(s, idx)
        /\ \A s \in remaining : Renumbered(s, idx) \in Range(transitions')
    <2>1. /\ DOMAIN kept = 1..Cardinality(spots)
          /\ \A n \in 1..Cardinality(spots) : \E i \in spots : kept[n] = transitions[i]
          /\ \A i \in spots : \E n \in 1..Cardinality(spots) : kept[n] = transitions[i]
      <3>1. spots \in SUBSET (DOMAIN transitions)
        OBVIOUS
      <3> HIDE DEF spots
      <3>2. /\ kept \in Seq(Transition) /\ Len(kept) = Cardinality(spots)
            /\ \A n \in 1..Cardinality(spots) : \E i \in spots : kept[n] = transitions[i]
            /\ \A i \in spots : \E n \in 1..Cardinality(spots) : kept[n] = transitions[i]
        BY <3>1, ElementsAtType
      <3> HIDE DEF kept
      <3> QED  BY <3>2, LenProperties
    <2> HIDE DEF kept
    <2>2. ASSUME NEW t \in Range(transitions')  PROVE \E s \in remaining : t = Renumbered(s, idx)
      <3>1. PICK n \in DOMAIN kept : t = Renumbered(kept[n], idx)
        BY <1>3, <2>2 DEF Range
      <3>2. PICK i \in spots : kept[n] = transitions[i]
        BY <2>1, <3>1
      <3>3. transitions[i] \in remaining
        BY <3>2 DEF Range
      <3> QED  BY <3>1, <3>2, <3>3
    <2>3. ASSUME NEW s \in remaining  PROVE Renumbered(s, idx) \in Range(transitions')
      <3>1. PICK i \in spots : s = transitions[i]
        BY <2>3 DEF Range
      <3>2. PICK n \in DOMAIN kept : kept[n] = transitions[i]
        BY <2>1, <3>1
      <3>3. n \in DOMAIN transitions' /\ transitions'[n] = Renumbered(s, idx)
        BY <1>3, <3>1, <3>2
      <3> QED  BY <3>3 DEF Range
    <2> QED  BY <2>2, <2>3
  <1>10. ASSUME NEW s \in remaining
         PROVE  s \in Transition /\ s.from \in 1..k /\ s.to \in 1..k /\ idx \notin {s.from, s.to}
    <2>1. PICK i \in DOMAIN transitions : s = transitions[i]
      BY <1>10 DEF Range
    <2>2. s \in Transition
      BY <2>1, ElementOfSeq, LenProperties
    <2>3. {transitions[i].from, transitions[i].to} \subseteq 1..k
      BY <1>1, <2>1 DEF InRange, Drafts
    <2> QED  BY <1>10, <2>1, <2>2, <2>3
  <1> DEFINE drawn(t) == <<statuses[t.from].name, statuses[t.to].name, t.roles>>
             after(t) == <<statuses'[t.from].name, statuses'[t.to].name, t.roles>>
  <1>11. \A s \in remaining : after(Renumbered(s, idx)) = drawn(s)
    BY <1>8, <1>10
  <1>12. ShownNodes(statuses', Range(transitions')) = {after(t) : t \in Range(transitions')}
         /\ ShownNodes(statuses, remaining) = {drawn(s) : s \in remaining}
    BY DEF ShownNodes
  <1> HIDE DEF drawn, after, remaining
  <1>13. {after(t) : t \in Range(transitions')} = {drawn(s) : s \in remaining}
    BY <1>9, <1>11
  <1> QED  BY <1>12, <1>13 DEF remaining

-----------------------------------------------------------------------------
(* The options of a field: no blank lines *)

\* What NothingBlank needs: the sub columns are such that each has a key and only
\* select columns have choices.
Usable == {c \in SubColumn : c.key[1] # "" /\ (c.type # "select" => c.choices = <<>>)}

OptionsInv == OptionsTypeOK /\ field.columns \in Seq(Usable)

\* Without its blank lines a text is a list of words.
LEMMA CleanedType ==
    ASSUME NEW lines \in Seq(Words \cup {""})
    PROVE  Cleaned(lines) \in Seq(Words)
  <1> DEFINE kept == {i \in DOMAIN lines : lines[i] # ""}
  <1>1. Cleaned(lines) = ElementsAt(lines, kept)
    BY DEF Cleaned, Filter
  <1>2. \A i \in DOMAIN lines : lines[i] \in Words \cup {""}
    BY LenProperties, ElementOfSeq
  <1>3. kept \in SUBSET (DOMAIN lines) /\ \A i \in kept : lines[i] \in Words
    BY <1>2
  <1> HIDE DEF kept
  <1> QED  BY <1>1, <1>3, PassedType

\* What the text areas hold are lines.
LEMMA OptionTextsType ==
    ASSUME NEW list \in Seq(Words), NEW typed \in OptionTexts(list)
    PROVE  typed \in Seq(Words \cup {""})
  <1> DEFINE Line == Words \cup {""}
             lines == LinesOf(list)
  <1>0. list \in Seq(Line) /\ "" \in Line
    <2>1. DOMAIN list = 1..Len(list) /\ Len(list) \in Nat /\ list = [n \in 1..Len(list) |-> list[n]]
          /\ \A n \in 1..Len(list) : list[n] \in Line
      BY LenProperties, ElementOfSeq
    <2> HIDE DEF Line
    <2>2. list \in Seq(Line)
      BY <2>1
    <2> QED  BY <2>2 DEF Line
  <1>1. lines \in Seq(Line) /\ Len(lines) \in Nat /\ DOMAIN lines = 1..Len(lines)
    <2>1. <<"">> \in Seq(Line)
      <3> HIDE DEF Line
      <3> QED  BY <1>0, TupleType
    <2>2. lines \in Seq(Line)
      BY <1>0, <2>1 DEF LinesOf
    <2> HIDE DEF lines, Line
    <2> QED  BY <2>2, LenProperties
  <1>2. \/ \E i \in DOMAIN lines : typed = InsertAt(lines, i + 1, "")
        \/ \E i \in DOMAIN lines, w \in Line : typed = [lines EXCEPT ![i] = w]
        \/ \E v, w \in Words : typed = list \o <<v, "", w>>
    <2>1. \/ typed \in {Entered(list, i) : i \in DOMAIN lines}
          \/ typed \in Edited(list) \/ typed \in Pasted(list)
      BY DEF OptionTexts
    <2>3. ASSUME typed \in {Entered(list, i) : i \in DOMAIN lines}
          PROVE  \E i \in DOMAIN lines : typed = InsertAt(lines, i + 1, "")
      BY <2>3, Zenon DEF Entered
    <2>4. ASSUME typed \in Edited(list) PROVE \E i \in DOMAIN lines, w \in Line : typed = [lines EXCEPT ![i] = w]
      BY <2>4, Zenon DEF Edited, ReplaceAt
    <2>5. ASSUME typed \in Pasted(list) PROVE \E v, w \in Words : typed = list \o <<v, "", w>>
      BY <2>5 DEF Pasted
    <2> HIDE DEF lines, Line
    <2> QED  BY <2>1, <2>3, <2>4, <2>5
  <1> HIDE DEF lines
  <1>3. ASSUME NEW i \in DOMAIN lines, typed = InsertAt(lines, i + 1, "") PROVE typed \in Seq(Line)
    <2> HIDE DEF Line
    <2>1. i \in 1..Len(lines)
      BY <1>1
    <2>2. i + 1 \in 1..Len(lines) + 1
      BY <1>1, <2>1
    <2> QED  BY <1>0, <1>1, <1>3, <2>2, InsertAtType
  <1>4. ASSUME NEW i \in DOMAIN lines, NEW w \in Line, typed = [lines EXCEPT ![i] = w] PROVE typed \in Seq(Line)
    <2> HIDE DEF Line
    <2> QED  BY <1>1, <1>4, ExceptSeq
  <1>5. ASSUME NEW v \in Words, NEW w \in Words, typed = list \o <<v, "", w>> PROVE typed \in Seq(Line)
    <2>0. v \in Line /\ w \in Line
      OBVIOUS
    <2> HIDE DEF Line
    <2>1. <<v, "", w>> \in Seq(Line)
      BY <1>0, <2>0, TupleType
    <2> QED  BY <1>0, <1>5, <2>1, ConcatProperties
  <1> QED  BY <1>2, <1>3, <1>4, <1>5

LEMMA OptionsStarts == OptionsInit => OptionsInv
  <1> SUFFICES ASSUME OptionsInit PROVE OptionsInv
    OBVIOUS
  <1>1. PICK t \in Types : field = NewField(t)
    BY DEF OptionsInit
  <1>2. <<>> \in Seq(Words) /\ <<>> \in Seq(Rule) /\ <<>> \in Seq(SubColumn) /\ <<>> \in Seq(Usable)
    BY EmptySeq
  <1>3. NoLink \in Link
    BY DEF NoLink, Link, LinkKinds
  <1>4. field \in Field
    BY <1>1, <1>2, <1>3 DEF Field, NewField, Functions, Formats
  <1>5. field.columns = <<>>
    BY <1>1 DEF NewField
  <1> QED  BY <1>2, <1>4, <1>5 DEF OptionsInv, OptionsTypeOK, OptionsInit

\* Every step of the panel: what it writes has the type of what it replaces, and a sub
\* column that is added, renamed, retyped or given choices stays usable.
LEMMA OptionsStep == OptionsInv /\ (OptionsNext \/ UNCHANGED optionVars) => OptionsInv'
  <1> SUFFICES ASSUME OptionsInv, OptionsNext \/ UNCHANGED optionVars
               PROVE  keys' \in Nat /\ field' \in Field /\ field'.columns \in Seq(Usable)
    BY DEF OptionsInv, OptionsTypeOK
  <1>0. keys \in Nat /\ field \in Field /\ field.columns \in Seq(Usable)
    BY DEF OptionsInv, OptionsTypeOK
  <1>1. ASSUME UNCHANGED keys, NEW t \in Types, field' = [field EXCEPT !.type = t]
        PROVE  keys' \in Nat /\ field' \in Field /\ field'.columns \in Seq(Usable)
    BY <1>0, <1>1 DEF Field
  <1>2. ASSUME UNCHANGED keys, NEW s \in SUBSET Plain, field' = [field EXCEPT !.set = s]
        PROVE  keys' \in Nat /\ field' \in Field /\ field'.columns \in Seq(Usable)
    BY <1>0, <1>2 DEF Field
  <1>3. ASSUME UNCHANGED keys, NEW v \in Words \cup {""}, field' = [field EXCEPT !.default = v]
        PROVE  keys' \in Nat /\ field' \in Field /\ field'.columns \in Seq(Usable)
    BY <1>0, <1>3 DEF Field
  <1>4. ASSUME UNCHANGED keys, NEW v \in Formats \cup {"regex"}, NEW d \in Formats,
               field' = [field EXCEPT !.display = d, !.validation = v]
        PROVE  keys' \in Nat /\ field' \in Field /\ field'.columns \in Seq(Usable)
    BY <1>0, <1>4 DEF Field
  <1>5. ASSUME UNCHANGED keys, NEW cs \in Seq(Words), field' = [field EXCEPT !.choices = cs]
        PROVE  keys' \in Nat /\ field' \in Field /\ field'.columns \in Seq(Usable)
    BY <1>0, <1>5 DEF Field
  <1>6. ASSUME keys' \in Nat, NEW cs \in Seq(Usable), field' = [field EXCEPT !.columns = cs]
        PROVE  keys' \in Nat /\ field' \in Field /\ field'.columns \in Seq(Usable)
    <2>1. cs \in Seq(SubColumn)
      <3>1. \A n \in 1..Len(cs) : cs[n] \in Usable
        BY ElementOfSeq
      <3>2. \A n \in 1..Len(cs) : cs[n] \in SubColumn
        BY <3>1 DEF Usable
      <3> QED  BY <3>2, Retype
    <2> QED  BY <1>0, <1>6, <2>1 DEF Field
  <1>7. ASSUME UNCHANGED keys, NEW r \in Link, field' = [field EXCEPT !.relation = r]
        PROVE  keys' \in Nat /\ field' \in Field /\ field'.columns \in Seq(Usable)
    BY <1>0, <1>7 DEF Field
  <1>8. ASSUME UNCHANGED keys, NEW r \in Seq(Rule), field' = [field EXCEPT !.rules = r]
        PROVE  keys' \in Nat /\ field' \in Field /\ field'.columns \in Seq(Usable)
    BY <1>0, <1>8 DEF Field
  <1>9. CASE SetType
    <2>1. PICK t \in Types : field' = [field EXCEPT !.type = t]
      BY <1>9 DEF SetType, update
    <2> QED  BY <1>1, <1>9, <2>1 DEF SetType
  <1>10. ASSUME NEW some \in SUBSET Plain, Toggle(some)
         PROVE  keys' \in Nat /\ field' \in Field /\ field'.columns \in Seq(Usable)
    <2>1. PICK p \in some : field' = [field EXCEPT !.set = IF p \in @ THEN @ \ {p} ELSE @ \cup {p}]
      BY <1>10 DEF Toggle, update
    <2>2. PICK s \in SUBSET Plain : field' = [field EXCEPT !.set = s]
      <3>1. field.set \in SUBSET Plain
        BY <1>0 DEF Field
      <3> QED  BY <2>1, <3>1
    <2> QED  BY <1>2, <1>10, <2>2 DEF Toggle
  <1>11. CASE SetContent
    BY <1>10, <1>11 DEF SetContent, Plain
  <1>12. CASE SetExpression
    BY <1>10, <1>12 DEF SetExpression, Plain
  <1>13. CASE SetRequired
    BY <1>10, <1>13 DEF SetRequired, Plain
  <1>14. CASE SetSize
    BY <1>10, <1>14 DEF SetSize, Plain
  <1>15. CASE SetAdvanced
    BY <1>10, <1>15 DEF SetAdvanced, Plain
  <1>16. CASE SetLimits
    BY <1>10, <1>16 DEF SetLimits, Plain
  <1>17. CASE SetLook
    BY <1>10, <1>17 DEF SetLook, Plain
  <1>18. CASE SetDefault
    <2>1. Range(field.choices) \subseteq Words
      <3>1. field.choices \in Seq(Words)
        BY <1>0 DEF Field
      <3>2. \A n \in DOMAIN field.choices : field.choices[n] \in Words
        BY <3>1, LenProperties, ElementOfSeq
      <3> QED  BY <3>2 DEF Range
    <2>2. PICK v \in Words \cup {""} : field' = [field EXCEPT !.default = v]
      BY <1>18, <2>1 DEF SetDefault, update
    <2> QED  BY <1>3, <1>18, <2>2 DEF SetDefault
  <1>19. CASE SetDisplay
    <2>1. PICK d \in Formats : field' = [field EXCEPT !.display = d, !.validation = IF d = "" THEN @ ELSE d]
      BY <1>19 DEF SetDisplay, update
    <2>2. field.validation \in Formats \cup {"regex"}
      BY <1>0 DEF Field
    <2>3. PICK v \in Formats \cup {"regex"} : field' = [field EXCEPT !.display = d, !.validation = v]
      BY <1>0, <2>1, <2>2 DEF Field
    <2> QED  BY <1>4, <1>19, <2>3 DEF SetDisplay
  <1>20. CASE SetValidation
    <2>1. PICK v \in Formats \cup {"regex"} : field' = [field EXCEPT !.validation = v]
      BY <1>20 DEF SetValidation, update
    <2>2. field' \in Field /\ field'.columns = field.columns
      BY <1>0, <2>1 DEF Field
    <2> QED  BY <1>0, <1>20, <2>2 DEF SetValidation
  <1>21. CASE SetChoices
    <2>1. PICK typed \in OptionTexts(field.choices) : field' = [field EXCEPT !.choices = Cleaned(typed)]
      BY <1>21 DEF SetChoices, EditChoices, update
    <2>2. field.choices \in Seq(Words)
      BY <1>0 DEF Field
    <2>3. Cleaned(typed) \in Seq(Words)
      BY <2>1, <2>2, OptionTextsType, CleanedType
    <2> QED  BY <1>5, <1>21, <2>1, <2>3 DEF SetChoices
  <1>22. CASE addColumn
    <2> DEFINE col == [key |-> <<"col", keys + 1>>, label |-> "", type |-> "text", choices |-> <<>>]
    <2>1. keys' = keys + 1 /\ field' = [field EXCEPT !.columns = Append(field.columns, col)]
      BY <1>0, <1>22 DEF addColumn, update, Field
    <2>2. col \in SubColumn
      <3>1. <<>> \in Seq(Words)
        BY EmptySeq
      <3>2. "" \in Titles
        BY FieldOptionsAssumption
      <3>3. <<"col", keys + 1>> \in (Titles \cup {"col"}) \X Nat
        BY <1>0
      <3> QED  BY <3>1, <3>2, <3>3 DEF SubColumn
    <2>3. col \in Usable
      BY <2>2 DEF Usable
    <2> HIDE DEF col
    <2>4. Append(field.columns, col) \in Seq(Usable)
      BY <1>0, <2>3, AppendType
    <2>5. keys' \in Nat
      BY <1>0, <2>1
    <2>6. PICK cs \in Seq(Usable) : field' = [field EXCEPT !.columns = cs]
      BY <2>1, <2>4, Zenon
    <2> QED  BY <1>6, <2>5, <2>6
  <1>23. CASE updateColumn
    <2>1. PICK i \in DOMAIN field.columns :
            LET col == field.columns[i]
                store(c) == c # col /\ update([field EXCEPT !.columns[i] = c])
            IN \/ \E title \in Titles : store(Labelled(col, title))
               \/ \E type \in {"text", "number", "select"} : store(RetypedColumn(col, type))
               \/ /\ col.type = "select"
                  /\ \E typed \in OptionTexts(col.choices) :
                        Len(Cleaned(typed)) <= MaxItems /\ store([col EXCEPT !.choices = Cleaned(typed)])
      BY <1>23, Zenon DEF updateColumn
    <2> DEFINE col == field.columns[i]
    <2>2. i \in 1..Len(field.columns) /\ col \in Usable
      BY <1>0, LenProperties, ElementOfSeq
    <2>3. col \in SubColumn /\ col.key[1] # "" /\ (col.type # "select" => col.choices = <<>>)
      BY <2>2 DEF Usable
    <2> HIDE DEF col
    <2>4. col.choices \in Seq(Words)
      BY <2>3 DEF SubColumn
    <2>5. \E c \in Usable : update([field EXCEPT !.columns[i] = c])
      <3>1. ASSUME NEW title \in Titles PROVE Labelled(col, title) \in Usable
        <4>1. KeyOf[title] \in Titles
          BY FieldOptionsAssumption
        <4>2. Labelled(col, title) \in SubColumn
          BY <2>3, <4>1 DEF SubColumn, Labelled
        <4>3. /\ Labelled(col, title).key[1] # "" /\ Labelled(col, title).type = col.type
              /\ Labelled(col, title).choices = col.choices
          BY <2>3, <4>1 DEF SubColumn, Labelled
        <4> QED  BY <2>3, <4>2, <4>3 DEF Usable
      <3>2. ASSUME NEW type \in {"text", "number", "select"} PROVE RetypedColumn(col, type) \in Usable
        <4>1. <<>> \in Seq(Words)
          BY EmptySeq
        <4>2. RetypedColumn(col, type) \in SubColumn
          BY <2>3, <4>1 DEF SubColumn, RetypedColumn
        <4>3. /\ RetypedColumn(col, type).key = col.key /\ RetypedColumn(col, type).type = type
              /\ type # "select" => RetypedColumn(col, type).choices = <<>>
          BY <2>3 DEF SubColumn, RetypedColumn
        <4> QED  BY <2>3, <4>2, <4>3 DEF Usable
      <3>3. ASSUME NEW typed \in OptionTexts(col.choices), col.type = "select"
            PROVE  [col EXCEPT !.choices = Cleaned(typed)] \in Usable
        <4> DEFINE new == [col EXCEPT !.choices = Cleaned(typed)]
        <4>1. Cleaned(typed) \in Seq(Words)
          BY <2>4, OptionTextsType, CleanedType
        <4>2. new \in SubColumn /\ new.key = col.key /\ new.type = col.type
          BY <2>3, <4>1 DEF SubColumn
        <4> HIDE DEF new
        <4>3. new \in Usable
          BY <2>3, <3>3, <4>2 DEF Usable
        <4> QED  BY <4>3 DEF new
      <3> QED  BY <2>1, <3>1, <3>2, <3>3 DEF col
    <2>6. PICK c \in Usable : field' = [field EXCEPT !.columns[i] = c]
      BY <2>5 DEF update
    <2>7. [field.columns EXCEPT ![i] = c] \in Seq(Usable)
      BY <1>0, <2>2, ExceptSeq
    <2>8. field' = [field EXCEPT !.columns = [field.columns EXCEPT ![i] = c]]
      BY <1>0, <2>6 DEF Field
    <2> QED  BY <1>0, <1>6, <1>23, <2>7, <2>8 DEF updateColumn
  <1>24. CASE removeColumn
    <2>1. PICK i \in DOMAIN field.columns : field' = [field EXCEPT !.columns = RemoveAt(field.columns, i)]
      BY <1>0, <1>24 DEF removeColumn, update, Field
    <2>2. i \in 1..Len(field.columns)
      BY <1>0, LenProperties
    <2>3. RemoveAt(field.columns, i) \in Seq(Usable)
      BY <1>0, <2>2, RemoveAtType
    <2> QED  BY <1>0, <1>6, <1>24, <2>1, <2>3 DEF removeColumn
  <1>25. CASE moveColumn
    <2> DEFINE cs == field.columns
    <2>1. PICK i \in DOMAIN field.columns :
            i > 1 /\ field' = [field EXCEPT !.columns = InsertAt(RemoveAt(cs, i), i - 1, cs[i])]
      BY <1>0, <1>25 DEF moveColumn, update, Field
    <2>2. i \in 1..Len(cs) /\ cs[i] \in Usable /\ cs \in Seq(Usable) /\ Len(cs) \in Nat
      BY <1>0, LenProperties, ElementOfSeq
    <2> HIDE DEF cs
    <2>3. RemoveAt(cs, i) \in Seq(Usable) /\ Len(RemoveAt(cs, i)) = Len(cs) - 1
      BY <2>2, RemoveAtType
    <2>4. i - 1 \in 1..Len(RemoveAt(cs, i)) + 1
      BY <2>1, <2>2, <2>3
    <2>5. InsertAt(RemoveAt(cs, i), i - 1, cs[i]) \in Seq(Usable)
      BY <2>2, <2>3, <2>4, InsertAtType
    <2> QED  BY <1>0, <1>6, <1>25, <2>1, <2>5 DEF moveColumn
  <1>26. CASE SetRelation
    <2>1. field.relation \in Link
      BY <1>0 DEF Field
    <2>2. PICK r \in Link : field' = [field EXCEPT !.relation = r]
      <3>1. CASE \E app \in Apps : update([field EXCEPT !.relation.app = app])
        <4>1. PICK app \in Apps : field' = [field EXCEPT !.relation.app = app]
          BY <3>1 DEF update
        <4>2. [field.relation EXCEPT !.app = app] \in Link
          BY <2>1 DEF Link
        <4> QED  BY <1>0, <4>1, <4>2
      <3>2. CASE \E k \in LinkKinds : update([field EXCEPT !.relation.kind = k])
        <4>1. PICK k \in LinkKinds : field' = [field EXCEPT !.relation.kind = k]
          BY <3>2 DEF update
        <4>2. [field.relation EXCEPT !.kind = k] \in Link
          BY <2>1 DEF Link
        <4> QED  BY <1>0, <4>1, <4>2
      <3>3. CASE \E d \in {"SET NULL", "CASCADE"} : update([field EXCEPT !.relation.on_delete = d])
        <4>1. PICK d \in {"SET NULL", "CASCADE"} : field' = [field EXCEPT !.relation.on_delete = d]
          BY <3>3 DEF update
        <4>2. [field.relation EXCEPT !.on_delete = d] \in Link
          BY <2>1 DEF Link
        <4> QED  BY <1>0, <4>1, <4>2
      <3> QED  BY <1>26, <3>1, <3>2, <3>3, Zenon DEF SetRelation
    <2> QED  BY <1>7, <1>26, <2>2 DEF SetRelation
  <1>27. CASE SetReach
    <2>1. CASE \E r \in DOMAIN Reach : update([field EXCEPT !.via = r])
      <3>1. PICK r \in DOMAIN Reach : field' = [field EXCEPT !.via = r]
        BY <2>1 DEF update
      <3>2. field' \in Field /\ field'.columns = field.columns
        BY <1>0, <3>1 DEF Field
      <3> QED  BY <1>0, <1>27, <3>2 DEF SetReach
    <2>2. CASE field.via # "" /\ \E f \in Reach[field.via] : update([field EXCEPT !.target = f])
      <3>1. PICK f \in Reach[field.via] : field' = [field EXCEPT !.target = f]
        BY <2>2 DEF update
      <3>2. f \in UNION {Reach[r] : r \in DOMAIN Reach}
        <4>1. field.via \in DOMAIN Reach
          BY <1>0, <2>2 DEF Field
        <4> QED  BY <3>1, <4>1
      <3>3. field' \in Field /\ field'.columns = field.columns
        BY <1>0, <3>1, <3>2 DEF Field
      <3> QED  BY <1>0, <1>27, <3>3 DEF SetReach
    <2>3. CASE \E f \in Functions \ {""} : update([field EXCEPT !.function = f])
      <3>1. PICK f \in Functions : field' = [field EXCEPT !.function = f]
        BY <2>3 DEF update
      <3>2. field' \in Field /\ field'.columns = field.columns
        BY <1>0, <3>1 DEF Field
      <3> QED  BY <1>0, <1>27, <3>2 DEF SetReach
    <2> QED  BY <1>27, <2>1, <2>2, <2>3, Zenon DEF SetReach
  <1>28. CASE EditRules
    <2>1. field.rules \in Seq(Rule)
      BY <1>0 DEF Field
    <2>2. ASSUME NEW i \in DOMAIN field.rules, NEW r \in Rule PROVE [field.rules EXCEPT ![i] = r] \in Seq(Rule)
      BY <2>1, LenProperties, ExceptSeq
    <2>3. ASSUME NEW i \in DOMAIN field.rules PROVE field.rules[i] \in Rule
      BY <2>1, LenProperties, ElementOfSeq
    <2>4. PICK rs \in Seq(Rule) : field' = [field EXCEPT !.rules = rs]
      <3>1. CASE UpdateRules(Append(field.rules, [on |-> "", op |-> "eq", value |-> ""]))
        <4>1. [on |-> "", op |-> "eq", value |-> ""] \in Rule
          BY DEF Rule, RuleOps
        <4>2. Append(field.rules, [on |-> "", op |-> "eq", value |-> ""]) \in Seq(Rule)
          BY <2>1, <4>1, AppendType
        <4> QED  BY <3>1, <4>2 DEF UpdateRules, update
      <3>2. ASSUME NEW i \in DOMAIN field.rules, UpdateRules(RemoveAt(field.rules, i))
            PROVE  \E rs \in Seq(Rule) : field' = [field EXCEPT !.rules = rs]
        <4>1. RemoveAt(field.rules, i) \in Seq(Rule)
          BY <2>1, LenProperties, RemoveAtType
        <4> QED  BY <3>2, <4>1 DEF UpdateRules, update
      <3>3. ASSUME NEW i \in DOMAIN field.rules, NEW f \in DOMAIN Reach,
                   UpdateRules([field.rules EXCEPT ![i].on = f])
            PROVE  \E rs \in Seq(Rule) : field' = [field EXCEPT !.rules = rs]
        <4>1. [field.rules[i] EXCEPT !.on = f] \in Rule
          BY <2>3 DEF Rule
        <4>2. [field.rules EXCEPT ![i] = [field.rules[i] EXCEPT !.on = f]] \in Seq(Rule)
          BY <2>2, <4>1
        <4> QED  BY <3>3, <4>2 DEF UpdateRules, update
      <3>4. ASSUME NEW i \in DOMAIN field.rules, NEW op \in RuleOps,
                   UpdateRules([field.rules EXCEPT ![i].op = op])
            PROVE  \E rs \in Seq(Rule) : field' = [field EXCEPT !.rules = rs]
        <4>1. [field.rules[i] EXCEPT !.op = op] \in Rule
          BY <2>3 DEF Rule
        <4>2. [field.rules EXCEPT ![i] = [field.rules[i] EXCEPT !.op = op]] \in Seq(Rule)
          BY <2>2, <4>1
        <4> QED  BY <3>4, <4>2 DEF UpdateRules, update
      <3>5. ASSUME NEW i \in DOMAIN field.rules, NEW v \in Words,
                   UpdateRules([field.rules EXCEPT ![i].value = v])
            PROVE  \E rs \in Seq(Rule) : field' = [field EXCEPT !.rules = rs]
        <4>1. [field.rules[i] EXCEPT !.value = v] \in Rule
          BY <2>3 DEF Rule
        <4>2. [field.rules EXCEPT ![i] = [field.rules[i] EXCEPT !.value = v]] \in Seq(Rule)
          BY <2>2, <4>1
        <4> QED  BY <3>5, <4>2 DEF UpdateRules, update
      <3> QED  BY <1>28, <3>1, <3>2, <3>3, <3>4, <3>5, Zenon DEF EditRules
    <2> QED  BY <1>8, <1>28, <2>4 DEF EditRules
  <1>29. CASE UNCHANGED optionVars
    BY <1>0, <1>29 DEF optionVars
  <1> QED
    BY <1>9, <1>11, <1>12, <1>13, <1>14, <1>15, <1>16, <1>17, <1>18, <1>19, <1>20, <1>21, <1>22, <1>23,
       <1>24, <1>25, <1>26, <1>27, <1>28, <1>29 DEF OptionsNext

LEMMA OptionsMean == OptionsInv => NothingBlank
  <1> SUFFICES ASSUME OptionsInv PROVE NothingBlank
    OBVIOUS
  <1>1. field.choices \in Seq(Words) /\ field.columns \in Seq(Usable) /\ "" \notin Words
    BY FieldOptionsAssumption DEF OptionsInv, OptionsTypeOK, Field
  <1>2. \A i \in DOMAIN field.choices : field.choices[i] # ""
    BY <1>1, LenProperties, ElementOfSeq
  <1>3. ASSUME NEW i \in DOMAIN field.columns
        PROVE  /\ field.columns[i].key[1] # ""
               /\ field.columns[i].type # "select" => field.columns[i].choices = <<>>
               /\ \A j \in DOMAIN field.columns[i].choices : field.columns[i].choices[j] # ""
    <2>1. field.columns[i] \in Usable
      BY <1>1, LenProperties, ElementOfSeq
    <2>2. field.columns[i] \in SubColumn
      BY <2>1 DEF Usable
    <2>3. field.columns[i].choices \in Seq(Words)
      BY <2>2 DEF SubColumn
    <2>4. \A j \in DOMAIN field.columns[i].choices : field.columns[i].choices[j] # ""
      <3>1. PICK list : list = field.columns[i].choices
        OBVIOUS
      <3>2. \A j \in DOMAIN list : list[j] \in Words
        BY <2>3, <3>1, LenProperties, ElementOfSeq
      <3> QED  BY <1>1, <3>1, <3>2
    <2> QED  BY <2>1, <2>4 DEF Usable
  <1> QED  BY <1>2, <1>3 DEF NothingBlank

-----------------------------------------------------------------------------
(* The form of automations: the picker shows what is stored *)

\* The picker knows the expression of the form.  It shows what it reads in it, or the
\* text field the user has chosen instead; an expression it cannot read is shown as text.
Reads(p, c) ==
    /\ c.often \in Frequencies =>
          /\ p.frequency \in {c.often, "custom"}
          /\ p.hour = c.hour /\ p.day = IF c.often = "daily" THEN 1 ELSE c.day
    /\ c.often \notin Frequencies /\ c # NoCron => p.frequency = "custom"

PickerKnows == hasPicker(ruleForm) => picker.synced = ruleForm.cron /\ Reads(picker, ruleForm.cron)

\* Only a schedule has an expression, and one that can run.
Runnable(rule) == rule.trigger = "schedule" <=> isValidCron(rule.cron)

AutomationInv ==
    /\ AutomationTypeOK
    /\ PickerKnows
    /\ SchedulesCanRun
    /\ ruleSave.sent => Runnable(ruleSave.rule)

LEMMA CronsType ==
    /\ NoCron \in Crons /\ BadCron \in Crons /\ TypedCrons \subseteq Crons
    /\ \A c \in Crons : c.often \in Frequencies => c.hour \in ScheduleHours /\ c.day \in ScheduleDays
    /\ NoCron.often \notin Frequencies
  <1>1. NoCron.often = "" /\ BadCron.often = "bad"
    BY DEF NoCron, BadCron
  <1>2. ASSUME NEW c \in Crons, c.often \in Frequencies PROVE c.hour \in ScheduleHours /\ c.day \in ScheduleDays
    <2>1. c \notin {NoCron, BadCron}
      BY <1>1, <1>2 DEF Frequencies
    <2>2. c \in Built \/ c \in TypedCrons
      BY <1>2, <2>1 DEF Crons
    <2>3. CASE c \in Built
      BY <2>3 DEF Built
    <2>4. CASE c \in TypedCrons
      BY <2>4, AutomationAssumption
    <2> QED  BY <2>2, <2>3, <2>4
  <1>3. NoCron \in Crons /\ BadCron \in Crons /\ TypedCrons \subseteq Crons
    BY DEF Crons
  <1> QED  BY <1>1, <1>2, <1>3 DEF Frequencies

\* What the picker shows of an expression it is given.
LEMMA ShowingReads ==
    ASSUME NEW c \in Crons, NEW typed \in Crons
    PROVE  Showing(c, typed) \in Picker /\ Showing(c, typed).synced = c /\ Reads(Showing(c, typed), c)
  <1> DEFINE p == Showing(c, typed)
  <1>1. CASE c.often \in Frequencies
    <2>1. /\ p.frequency = c.often /\ p.hour = c.hour /\ p.day = IF c.often = "daily" THEN 1 ELSE c.day
          /\ p.custom = typed /\ p.synced = c
      BY <1>1 DEF Showing, parseCron
    <2>2. c.hour \in ScheduleHours /\ c.day \in ScheduleDays /\ 1 \in ScheduleDays
      BY <1>1, CronsType, AutomationAssumption
    <2>3. p = [frequency |-> p.frequency, hour |-> p.hour, day |-> p.day, custom |-> p.custom, synced |-> p.synced]
      BY DEF Showing
    <2> HIDE DEF p
    <2>4. p.day \in ScheduleDays
      BY <2>1, <2>2
    <2>5. p \in Picker
      BY <1>1, <2>1, <2>2, <2>3, <2>4 DEF Picker
    <2>6. Reads(p, c)
      BY <1>1, <2>1 DEF Reads
    <2> QED  BY <2>1, <2>5, <2>6 DEF p
  <1>2. CASE c.often \notin Frequencies
    <2>1. /\ p.frequency = (IF c = NoCron THEN "daily" ELSE "custom") /\ p.hour = 9 /\ p.day = 1
          /\ p.custom = typed /\ p.synced = c
      BY <1>2 DEF Showing, parseCron
    <2>2. 9 \in ScheduleHours /\ 1 \in ScheduleDays
      BY AutomationAssumption
    <2>3. p = [frequency |-> p.frequency, hour |-> p.hour, day |-> p.day, custom |-> p.custom, synced |-> p.synced]
      BY DEF Showing
    <2> HIDE DEF p
    <2>4. p.frequency \in Frequencies \cup {"custom"}
      BY <2>1 DEF Frequencies
    <2>5. p \in Picker
      BY <2>1, <2>2, <2>3, <2>4 DEF Picker
    <2>6. Reads(p, c)
      BY <1>2, <2>1 DEF Reads
    <2> QED  BY <2>1, <2>5, <2>6 DEF p
  <1> QED  BY <1>1, <1>2

LEMMA PickerForType ==
    ASSUME NEW c \in Crons
    PROVE  PickerFor(c) \in Picker /\ PickerFor(c).synced = c /\ Reads(PickerFor(c), c)
  <1>1. (IF parseCron(c).frequency = "custom" THEN c ELSE NoCron) \in Crons
    BY CronsType
  <1> QED  BY <1>1, ShowingReads DEF PickerFor

\* However the form changes, the picker knows its expression.  The caller shows that
\* the picker it leaves on the screen reads the expression if that is the same one.
LEMMA FormStep ==
    ASSUME NEW f \in RuleForm, NEW display \in Picker, SetForm(f, display),
           hasPicker(ruleForm) /\ hasPicker(f) /\ f.cron = display.synced => Reads(display, f.cron)
    PROVE  ruleForm' \in RuleForm /\ picker' \in Picker /\ PickerKnows'
  <1>1. f.cron \in Crons /\ display.custom \in Crons
    <2>1. f.cron \in Crons
      BY DEF RuleForm
    <2>2. display.custom \in Crons
      BY DEF Picker
    <2> QED  BY <2>1, <2>2
  <1>2. ruleForm' = f /\ hasPicker(ruleForm)' = hasPicker(f)
    BY DEF SetForm, hasPicker
  <1>3. CASE ~hasPicker(f)
    <2>1. picker' \in Picker
      BY <1>3, CronsType, PickerForType DEF SetForm, NoPicker
    <2> QED  BY <1>2, <1>3, <2>1 DEF PickerKnows
  <1>4. CASE hasPicker(f) /\ ~hasPicker(ruleForm)
    <2>1. picker' = PickerFor(f.cron)
      BY <1>4 DEF SetForm
    <2>2. picker' \in Picker /\ picker'.synced = f.cron /\ Reads(picker', f.cron)
      BY <1>1, <2>1, PickerForType
    <2> QED  BY <1>2, <2>2 DEF PickerKnows, Reads
  <1>5. CASE hasPicker(f) /\ hasPicker(ruleForm) /\ f.cron = display.synced
    <2>1. picker' = display
      BY <1>5 DEF SetForm
    <2>2. Reads(picker', f.cron) /\ picker'.synced = f.cron
      BY <1>5, <2>1
    <2> QED  BY <1>2, <2>1, <2>2 DEF PickerKnows, Reads
  <1>6. CASE hasPicker(f) /\ hasPicker(ruleForm) /\ f.cron # display.synced
    <2> DEFINE typed == IF parseCron(f.cron).frequency = "custom" THEN f.cron ELSE display.custom
    <2>1. picker' = Showing(f.cron, typed)
      BY <1>6 DEF SetForm
    <2>2. typed \in Crons
      BY <1>1
    <2>3. picker' \in Picker /\ picker'.synced = f.cron /\ Reads(picker', f.cron)
      BY <1>1, <2>1, <2>2, ShowingReads
    <2> QED  BY <1>2, <2>3 DEF PickerKnows, Reads
  <1> QED  BY <1>3, <1>4, <1>5, <1>6

LEMMA ListType ==
    ASSUME NEW stored \in [RuleIds -> Rules]
    PROVE  List(stored) \in [RuleIds -> Rules]
  <1>1. ASSUME NEW i \in RuleIds PROVE [stored[i] EXCEPT !.conditions = {}, !.actions = {}] \in Rules
    <2>1. stored[i] \in Automation \/ stored[i] = NoRule
      BY DEF Rules
    <2>2. CASE stored[i] \in Automation
      <3>1. [stored[i] EXCEPT !.conditions = {}, !.actions = {}] \in Automation
        BY <2>2 DEF Automation
      <3> QED  BY <3>1 DEF Rules
    <2>3. CASE stored[i] = NoRule
      <3>1. [stored[i] EXCEPT !.conditions = {}, !.actions = {}] = NoRule
        <4>1. [r \in {"trigger", "cron", "conditions", "actions"} |-> NoRule[r]] = NoRule
          BY DEF NoRule
        <4>2. NoRule.conditions = {} /\ NoRule.actions = {}
          BY DEF NoRule
        <4> QED  BY <2>3, <4>1, <4>2
      <3> QED  BY <3>1 DEF Rules
    <2> QED  BY <2>1, <2>2, <2>3
  <1> QED  BY <1>1 DEF List

LEMMA AutomationStarts == AutomationInit => AutomationInv
  <1> SUFFICES ASSUME AutomationInit PROVE AutomationInv
    OBVIOUS
  <1>1. PICK t \in Triggers, c \in TypedCrons : rules = OneRule(t, c)
    BY DEF AutomationInit
  <1>2. /\ listedRules = List(rules) /\ ruleForm = NewForm /\ picker = NoPicker /\ ruleSave = NoSave
        /\ assistant = "closed"
    BY DEF AutomationInit
  <1> DEFINE cron == IF t = "schedule" THEN c ELSE NoCron
             one == [trigger |-> t, cron |-> cron, conditions |-> Conditions, actions |-> Actions]
  <1>3. cron \in Crons /\ (t = "schedule" <=> isValidCron(cron))
    BY CronsType, AutomationAssumption DEF isValidCron
  <1> HIDE DEF cron
  <1>4. one \in Automation /\ Runnable(one)
    BY <1>3 DEF Automation, Runnable
  <1>5. rules = [i \in RuleIds |-> IF i = 1 THEN one ELSE NoRule]
    BY <1>1 DEF OneRule, cron
  <1>6. rules \in [RuleIds -> Rules] /\ SchedulesCanRun
    <2> HIDE DEF one
    <2>1. \A id \in RuleIds : rules[id] = one \/ rules[id] = NoRule
      BY <1>5
    <2>2. \A id \in RuleIds : rules[id] \in Rules
      BY <1>4, <2>1 DEF Rules
    <2>3. SchedulesCanRun
      BY <1>4, <2>1 DEF SchedulesCanRun, Runnable
    <2> QED  BY <1>5, <2>2, <2>3
  <1>7. listedRules \in [RuleIds -> Rules]
    BY <1>2, <1>6, ListType
  <1>8. ruleForm \in RuleForm /\ ~hasPicker(ruleForm)
    BY <1>2, CronsType, AutomationAssumption DEF NewForm, RuleForm, hasPicker
  <1>9. picker \in Picker
    BY <1>2, CronsType, PickerForType DEF NoPicker
  <1>10. ruleSave \in RuleSave /\ ~ruleSave.sent
    BY <1>2 DEF NoSave, RuleSave, Rules
  <1> QED  BY <1>2, <1>6, <1>7, <1>8, <1>9, <1>10 DEF AutomationInv, AutomationTypeOK, PickerKnows

LEMMA AutomationStep == AutomationInv /\ (AutomationNext \/ UNCHANGED automationVars) => AutomationInv'
  <1> SUFFICES ASSUME AutomationInv, AutomationNext \/ UNCHANGED automationVars
               PROVE  AutomationInv'
    OBVIOUS
  <1>0. /\ rules \in [RuleIds -> Rules] /\ listedRules \in [RuleIds -> Rules]
        /\ ruleForm \in RuleForm /\ picker \in Picker /\ ruleSave \in RuleSave
        /\ assistant \in {"closed", "open", "asked", "proposed"}
        /\ PickerKnows /\ SchedulesCanRun /\ (ruleSave.sent => Runnable(ruleSave.rule))
    BY DEF AutomationInv, AutomationTypeOK
  \* The steps of the form leave what is stored alone.
  <1>1. ASSUME UNCHANGED <<rules, listedRules, ruleSave>>, assistant' \in {"closed", "open", "asked", "proposed"},
               ruleForm' \in RuleForm, picker' \in Picker, PickerKnows'
        PROVE  AutomationInv'
    BY <1>0, <1>1 DEF AutomationInv, AutomationTypeOK, SchedulesCanRun, Runnable
  \* A form with the expression there was.
  <1>2. ASSUME NEW f \in RuleForm, SetForm(f, picker), f.cron = ruleForm.cron
        PROVE  ruleForm' \in RuleForm /\ picker' \in Picker /\ PickerKnows'
    BY <1>0, <1>2, FormStep DEF PickerKnows
  \* A form with any expression.
  <1>3. ASSUME NEW f \in RuleForm, SetForm(f, picker)
        PROVE  ruleForm' \in RuleForm /\ picker' \in Picker /\ PickerKnows'
    BY <1>0, <1>3, FormStep DEF PickerKnows
  <1>4. NewForm \in RuleForm
    BY CronsType, AutomationAssumption DEF NewForm, RuleForm
  <1>5. CASE OpenForm
    <2>1. [ruleForm EXCEPT !.open = TRUE] \in RuleForm
      BY <1>0 DEF RuleForm
    <2> QED  BY <1>0, <1>1, <1>3, <1>5, <2>1 DEF OpenForm
  <1>6. CASE CancelForm
    BY <1>0, <1>1, <1>3, <1>4, <1>6 DEF CancelForm, resetForm
  <1>7. CASE handleEdit
    <2>1. PICK id \in RuleIds :
            /\ listedRules[id] # NoRule
            /\ SetForm([open |-> TRUE, editing |-> id, named |-> TRUE, trigger |-> listedRules[id].trigger,
                        cron |-> listedRules[id].cron, conditions |-> listedRules[id].conditions,
                        actions |-> listedRules[id].actions], picker)
      BY <1>7 DEF handleEdit
    <2>2. listedRules[id] \in Automation
      BY <1>0, <2>1 DEF Rules
    <2> DEFINE f == [open |-> TRUE, editing |-> id, named |-> TRUE, trigger |-> listedRules[id].trigger,
                     cron |-> listedRules[id].cron, conditions |-> listedRules[id].conditions,
                     actions |-> listedRules[id].actions]
    <2>3. f \in RuleForm
      BY <2>2 DEF Automation, RuleForm
    <2> QED  BY <1>0, <1>1, <1>3, <1>7, <2>1, <2>3 DEF handleEdit
  <1>8. CASE EditTrigger
    <2>1. PICK f \in RuleForm : SetForm(f, picker)
      <3>1. [ruleForm EXCEPT !.named = TRUE] \in RuleForm
        BY <1>0 DEF RuleForm
      <3>2. \A t \in Triggers : [ruleForm EXCEPT !.trigger = t] \in RuleForm
        BY <1>0 DEF RuleForm
      <3> QED  BY <1>8, <3>1, <3>2 DEF EditTrigger
    <2> QED  BY <1>0, <1>1, <1>3, <1>8, <2>1 DEF EditTrigger
  <1>9. CASE EditConditions
    <2>1. PICK c \in Conditions : SetForm([ruleForm EXCEPT !.conditions = Toggled(@, c)], picker)
      BY <1>9 DEF EditConditions
    <2>2. [ruleForm EXCEPT !.conditions = Toggled(@, c)] \in RuleForm
      BY <1>0 DEF RuleForm, Toggled
    <2> QED  BY <1>0, <1>1, <1>3, <1>9, <2>1, <2>2 DEF EditConditions
  <1>10. CASE EditActions
    <2>1. PICK a \in Actions : SetForm([ruleForm EXCEPT !.actions = Toggled(@, a)], picker)
      BY <1>10 DEF EditActions
    <2>2. [ruleForm EXCEPT !.actions = Toggled(@, a)] \in RuleForm
      BY <1>0 DEF RuleForm, Toggled
    <2> QED  BY <1>0, <1>1, <1>3, <1>10, <2>1, <2>2 DEF EditActions
  \* What the picker emits: if the expression stays the same, the picker reads it.
  <1>11. ASSUME hasPicker(ruleForm), NEW p \in Picker, p.synced = picker.synced, pickerEmits(p),
                \/ p.frequency = "custom" /\ p.hour = picker.hour /\ p.day = picker.day
                \/ p.frequency # "custom" /\ p.hour = picker.hour /\ p.day = picker.day
                \/ p.frequency # "custom" /\ p.frequency = picker.frequency /\ p.day = picker.day
                \/ p.frequency \in {"weekly", "monthly"} /\ p.frequency = picker.frequency /\ p.hour = picker.hour
         PROVE  ruleForm' \in RuleForm /\ picker' \in Picker /\ PickerKnows'
    <2> DEFINE c == IF p.frequency = "custom" THEN p.custom ELSE buildCron(p)
               f == [ruleForm EXCEPT !.cron = c]
    <2>1. p.hour \in ScheduleHours /\ p.day \in ScheduleDays /\ p.custom \in Crons
          /\ p.frequency \in Frequencies \cup {"custom"}
      BY DEF Picker
    <2>2. p.frequency # "custom" => buildCron(p) \in Built
      BY <2>1, AutomationAssumption DEF buildCron, Built
    <2>3. c \in Crons
      BY <2>1, <2>2 DEF Crons
    <2>4. picker.synced = ruleForm.cron /\ Reads(picker, ruleForm.cron)
      BY <1>0, <1>11 DEF PickerKnows
    <2>5. ASSUME c = p.synced PROVE Reads(p, c)
      <3>1. Reads(picker, c)
        BY <1>11, <2>4, <2>5
      <3>2. CASE p.frequency = "custom"
        <4>1. p.hour = picker.hour /\ p.day = picker.day
          BY <1>11, <3>2
        <4> HIDE DEF c
        <4> QED  BY <3>1, <3>2, <4>1 DEF Reads
      <3>3. CASE p.frequency # "custom"
        <4>1. c.often = p.frequency /\ c.hour = p.hour /\ c.day = (IF p.frequency = "daily" THEN 1 ELSE p.day)
          BY <3>3 DEF buildCron
        <4>2. c.often \in Frequencies
          BY <2>1, <3>3, <4>1
        <4> HIDE DEF c
        <4>3. picker.hour = c.hour /\ picker.day = (IF c.often = "daily" THEN 1 ELSE c.day)
          BY <3>1, <4>2 DEF Reads
        <4>4. p.day = IF c.often = "daily" THEN 1 ELSE c.day
          BY <1>11, <3>3, <4>1, <4>3
        <4> QED  BY <4>1, <4>2, <4>4 DEF Reads
      <3> QED  BY <3>2, <3>3
    <2>6. SetForm(f, p)
      BY <1>11 DEF pickerEmits
    <2> HIDE DEF c
    <2>7. f \in RuleForm /\ f.cron = c
      BY <1>0, <2>3 DEF RuleForm
    <2> HIDE DEF f
    <2> QED  BY <2>5, <2>6, <2>7, FormStep
  <1>12. CASE PickSchedule
    <2>1. CASE \E fr \in Frequencies \cup {"custom"} :
                  fr # picker.frequency /\ pickerEmits([picker EXCEPT !.frequency = fr])
      <3>1. PICK fr \in Frequencies \cup {"custom"} : pickerEmits([picker EXCEPT !.frequency = fr])
        BY <2>1
      <3> DEFINE p == [picker EXCEPT !.frequency = fr]
      <3>2. p \in Picker /\ p.synced = picker.synced /\ p.hour = picker.hour /\ p.day = picker.day
        BY <1>0 DEF Picker
      <3> HIDE DEF p
      <3>3. ruleForm' \in RuleForm /\ picker' \in Picker /\ PickerKnows'
        BY <1>11, <1>12, <3>1, <3>2 DEF PickSchedule, p
      <3> QED  BY <1>0, <1>1, <1>12, <3>3 DEF PickSchedule
    <2>2. CASE picker.frequency # "custom" /\ \E h \in ScheduleHours : pickerEmits([picker EXCEPT !.hour = h])
      <3>1. PICK h \in ScheduleHours : pickerEmits([picker EXCEPT !.hour = h])
        BY <2>2
      <3> DEFINE p == [picker EXCEPT !.hour = h]
      <3>2. p \in Picker /\ p.synced = picker.synced /\ p.frequency = picker.frequency /\ p.day = picker.day
        BY <1>0 DEF Picker
      <3> HIDE DEF p
      <3>3. ruleForm' \in RuleForm /\ picker' \in Picker /\ PickerKnows'
        BY <1>11, <1>12, <2>2, <3>1, <3>2 DEF PickSchedule, p
      <3> QED  BY <1>0, <1>1, <1>12, <3>3 DEF PickSchedule
    <2>3. CASE picker.frequency \in {"weekly", "monthly"}
               /\ \E d \in ScheduleDays : pickerEmits([picker EXCEPT !.day = d])
      <3>1. PICK d \in ScheduleDays : pickerEmits([picker EXCEPT !.day = d])
        BY <2>3
      <3> DEFINE p == [picker EXCEPT !.day = d]
      <3>2. p \in Picker /\ p.synced = picker.synced /\ p.frequency = picker.frequency /\ p.hour = picker.hour
        BY <1>0 DEF Picker
      <3> HIDE DEF p
      <3>3. ruleForm' \in RuleForm /\ picker' \in Picker /\ PickerKnows'
        BY <1>11, <1>12, <2>3, <3>1, <3>2 DEF PickSchedule, p
      <3> QED  BY <1>0, <1>1, <1>12, <3>3 DEF PickSchedule
    <2> QED  BY <1>12, <2>1, <2>2, <2>3, Zenon DEF PickSchedule
  <1>13. CASE TypeCron
    <2>1. PICK c \in TypedCrons \cup {NoCron, BadCron} :
            IF isValidCron(c) \/ c = NoCron THEN pickerEmits([picker EXCEPT !.custom = c])
            ELSE SetForm(ruleForm, [picker EXCEPT !.custom = c])
      BY <1>13 DEF TypeCron
    <2> DEFINE p == [picker EXCEPT !.custom = c]
    <2>2. p \in Picker /\ p.synced = picker.synced /\ p.hour = picker.hour /\ p.day = picker.day
          /\ p.frequency = picker.frequency
      BY <1>0, CronsType DEF Picker
    <2>3. picker.frequency = "custom" /\ hasPicker(ruleForm)
      BY <1>13 DEF TypeCron
    <2> HIDE DEF p
    <2>4. ruleForm' \in RuleForm /\ picker' \in Picker /\ PickerKnows'
      <3>1. CASE pickerEmits(p)
        BY <1>11, <2>2, <2>3, <3>1
      <3>2. CASE SetForm(ruleForm, p)
        <4>1. Reads(p, ruleForm.cron)
          <5>1. Reads(picker, ruleForm.cron)
            BY <1>0, <2>3 DEF PickerKnows
          <5> QED  BY <2>2, <5>1 DEF Reads
        <4> QED  BY <1>0, <2>2, <3>2, <4>1, FormStep
      <3> QED  BY <2>1, <3>1, <3>2 DEF p
    <2> QED  BY <1>0, <1>1, <1>13, <2>4 DEF TypeCron
  <1>14. CASE saveRule
    <2> DEFINE cron == IF ruleForm.trigger = "schedule" THEN ruleForm.cron ELSE NoCron
               rule == [trigger |-> ruleForm.trigger, cron |-> cron, conditions |-> ruleForm.conditions,
                        actions |-> ruleForm.actions]
    <2>1. ruleSave' = [sent |-> TRUE, id |-> ruleForm.editing, rule |-> rule]
          /\ UNCHANGED <<rules, listedRules, ruleForm, picker, assistant>>
      BY <1>14 DEF saveRule
    <2>2. ruleForm.trigger = "schedule" => isValidCron(ruleForm.cron)
      BY <1>14 DEF saveRule, CanSave
    <2>3. /\ ruleForm.trigger \in Triggers /\ ruleForm.cron \in Crons /\ ruleForm.conditions \in SUBSET Conditions
          /\ ruleForm.actions \in SUBSET Actions /\ ruleForm.editing \in RuleIds \cup {0}
      BY <1>0 DEF RuleForm
    <2>4. cron \in Crons /\ (ruleForm.trigger = "schedule" <=> isValidCron(cron))
      BY <2>2, <2>3, CronsType DEF isValidCron
    <2> HIDE DEF cron
    <2>5. rule \in Automation /\ rule.trigger = ruleForm.trigger /\ rule.cron = cron
      BY <2>3, <2>4 DEF Automation
    <2> HIDE DEF rule
    <2>6. rule \in Rules /\ Runnable(rule)
      BY <2>4, <2>5 DEF Rules, Runnable
    <2>7. ruleSave' \in RuleSave /\ ruleSave'.rule = rule
      BY <2>1, <2>3, <2>6 DEF RuleSave
    <2> QED  BY <1>0, <2>1, <2>6, <2>7
             DEF AutomationInv, AutomationTypeOK, PickerKnows, hasPicker, Reads, SchedulesCanRun, Runnable
  <1>15. ASSUME NEW id \in RuleIds, SavedAs(id), ruleSave.sent PROVE AutomationInv'
    <2>1. /\ rules' = [rules EXCEPT ![id] = ruleSave.rule] /\ listedRules' = List(rules') /\ ruleSave' = NoSave
          /\ assistant' = assistant /\ SetForm(NewForm, picker)
      BY <1>15 DEF SavedAs, resetForm
    <2>2. ruleSave.rule \in Rules
      BY <1>0 DEF RuleSave
    <2>3. rules' \in [RuleIds -> Rules] /\ \A i \in RuleIds : rules'[i] = IF i = id THEN ruleSave.rule ELSE rules[i]
      BY <1>0, <2>1, <2>2
    <2>4. listedRules' \in [RuleIds -> Rules]
      BY <2>1, <2>3, ListType
    <2>5. SchedulesCanRun'
      BY <1>0, <1>15, <2>3 DEF SchedulesCanRun, Runnable
    <2>6. ruleSave' \in RuleSave /\ ~ruleSave'.sent
      BY <2>1 DEF NoSave, RuleSave, Rules
    <2>7. ruleForm' \in RuleForm /\ picker' \in Picker /\ PickerKnows'
      BY <1>3, <1>4, <2>1
    <2> QED  BY <1>0, <2>1, <2>3, <2>4, <2>5, <2>6, <2>7 DEF AutomationInv, AutomationTypeOK
  <1>16. CASE CreateRule
    BY <1>15, <1>16 DEF CreateRule
  <1>17. CASE UpdateRule
    <2>1. ruleSave.id \in RuleIds
      BY <1>0, <1>17 DEF UpdateRule, RuleSave
    <2> QED  BY <1>15, <1>17, <2>1 DEF UpdateRule
  <1>18. CASE NotSaved
    <2>1. ruleSave' \in RuleSave /\ ~ruleSave'.sent
      BY <1>18 DEF NotSaved, NoSave, RuleSave, Rules
    <2> QED  BY <1>0, <1>18, <2>1
             DEF NotSaved, AutomationInv, AutomationTypeOK, PickerKnows, hasPicker, Reads, SchedulesCanRun
  <1>19. CASE handleDelete
    <2>1. PICK id \in RuleIds : rules' = [rules EXCEPT ![id] = NoRule] /\ listedRules' = List(rules')
      BY <1>19 DEF handleDelete
    <2>2. rules' \in [RuleIds -> Rules] /\ \A i \in RuleIds : rules'[i] = IF i = id THEN NoRule ELSE rules[i]
      BY <1>0, <2>1 DEF Rules
    <2>3. listedRules' \in [RuleIds -> Rules]
      BY <2>1, <2>2, ListType
    <2>4. SchedulesCanRun'
      BY <1>0, <2>2 DEF SchedulesCanRun
    <2> QED  BY <1>0, <1>19, <2>2, <2>3, <2>4
             DEF handleDelete, AutomationInv, AutomationTypeOK, PickerKnows, hasPicker, Reads, Runnable
  <1>20. ASSUME UNCHANGED <<rules, listedRules, ruleForm, picker, ruleSave>>,
                assistant' \in {"closed", "open", "asked", "proposed"}
         PROVE  AutomationInv'
    BY <1>0, <1>20 DEF AutomationInv, AutomationTypeOK, PickerKnows, hasPicker, Reads, SchedulesCanRun, Runnable
  <1>21. CASE OpenAssistant
    BY <1>20, <1>21 DEF OpenAssistant
  <1>22. CASE handleGenerate
    BY <1>20, <1>22 DEF handleGenerate
  <1>23. CASE Generated
    BY <1>20, <1>23 DEF Generated
  <1>24. CASE CloseAssistant
    BY <1>20, <1>24 DEF CloseAssistant
  <1>25. CASE applyProposal
    <2>1. PICK t \in Triggers :
            SetForm([ruleForm EXCEPT !.open = TRUE, !.editing = 0, !.named = TRUE, !.trigger = t,
                                     !.conditions = {}, !.actions = Actions], picker)
      BY <1>25 DEF applyProposal
    <2>2. [ruleForm EXCEPT !.open = TRUE, !.editing = 0, !.named = TRUE, !.trigger = t,
                           !.conditions = {}, !.actions = Actions] \in RuleForm
      BY <1>0 DEF RuleForm
    <2>3. UNCHANGED <<rules, listedRules, ruleSave>> /\ assistant' = "closed"
      BY <1>25 DEF applyProposal
    <2> QED  BY <1>0, <1>1, <1>3, <2>1, <2>2, <2>3
  <1>26. CASE UNCHANGED automationVars
    BY <1>0, <1>20, <1>26 DEF automationVars
  <1> QED
    BY <1>5, <1>6, <1>7, <1>8, <1>9, <1>10, <1>12, <1>13, <1>14, <1>16, <1>17, <1>18, <1>19, <1>21, <1>22,
       <1>23, <1>24, <1>25, <1>26 DEF AutomationNext

LEMMA AutomationMeans == AutomationInv => PickerInStep /\ SchedulesCanRun
  <1> SUFFICES ASSUME AutomationInv, hasPicker(ruleForm), picker.frequency # "custom", ruleForm.cron # NoCron
               PROVE  [frequency |-> picker.frequency, hour |-> picker.hour, day |-> picker.day]
                        = parseCron(ruleForm.cron)
    BY DEF AutomationInv, PickerInStep
  <1>1. Reads(picker, ruleForm.cron)
    BY DEF AutomationInv, PickerKnows
  <1>2. ruleForm.cron.often \in Frequencies /\ picker.frequency = ruleForm.cron.often
    BY <1>1 DEF Reads
  <1> QED  BY <1>1, <1>2 DEF Reads, parseCron

-----------------------------------------------------------------------------
(* The designer of interfaces *)

\* Widgets have ids of their own, and the one in the air is the one that was taken.

DesignerInv ==
    /\ DesignerTypeOK /\ LayoutStored
    /\ OnceEach(config) /\ OnceEach(storedLayout)
    /\ dragIdx # 0 => config[dragIdx].id = draggedWidget

LEMMA DesignerStarts == DesignerInit => DesignerInv
  <1> SUFFICES ASSUME DesignerInit PROVE DesignerInv
    OBVIOUS
  <1>1. PICK n \in {0, MaxWidgets} : config \in EarlierLayout(n) /\ widgetIds = n
    BY DEF DesignerInit
  <1>2. n \in Nat
    BY <1>1, DesignerAssumption
  <1>3. \E t \in WidgetTypes : \E s \in WidgetSettings :
            config = [i \in 1..n |-> [id |-> i, type |-> t, width |-> 1, settings |-> s]]
    BY <1>1 DEF EarlierLayout
  <1>4. PICK t \in WidgetTypes, s \in WidgetSettings :
            config = [i \in 1..n |-> [id |-> i, type |-> t, width |-> 1, settings |-> s]]
    BY <1>3
  <1>5. /\ storedLayout = config /\ storageWorks \in BOOLEAN /\ editMode = FALSE /\ editingWidget = NoWidget
        /\ dragIdx = 0 /\ draggedWidget = NoWidget
    BY DEF DesignerInit
  <1>6. \A i \in 1..n : config[i] \in Widget /\ config[i].id = i
    BY <1>1, <1>2, <1>4 DEF Widget, IssuedIds, Widths
  <1>7. config \in Seq(Widget) /\ DOMAIN config = 1..n /\ Len(config) = n
    <2>1. [i \in 1..n |-> config[i]] \in Seq(Widget)
      BY <1>2, <1>6, IsASeq
    <2>2. config = [i \in 1..n |-> config[i]] /\ DOMAIN config = 1..n
      BY <1>4
    <2> QED  BY <1>2, <2>1, <2>2, LenProperties
  <1>8. OnceEach(config)
    BY <1>6, <1>7 DEF OnceEach
  <1>9. dragIdx \in 0..Len(config)
    BY <1>2, <1>5, <1>7
  <1>10. DesignerTypeOK
    BY <1>1, <1>2, <1>5, <1>7, <1>9 DEF DesignerTypeOK
  <1> QED  BY <1>5, <1>8, <1>10 DEF DesignerInv, LayoutStored

LEMMA DesignerStep == DesignerInv /\ (DesignerNext \/ UNCHANGED designerVars) => DesignerInv'
  <1> SUFFICES ASSUME DesignerInv, DesignerNext \/ UNCHANGED designerVars
               PROVE  DesignerInv'
    OBVIOUS
  <1>0. /\ widgetIds \in Nat /\ config \in Seq(Widget) /\ storedLayout \in Seq(Widget)
        /\ storageWorks \in BOOLEAN /\ editMode \in BOOLEAN
        /\ editingWidget \in IssuedIds \cup {NoWidget} /\ draggedWidget \in IssuedIds \cup {NoWidget}
        /\ dragIdx \in 0..Len(config)
    BY DEF DesignerInv, DesignerTypeOK
  <1>I. LayoutStored /\ OnceEach(config) /\ OnceEach(storedLayout) /\ (dragIdx # 0 => config[dragIdx].id = draggedWidget)
    BY DEF DesignerInv
  <1>D. Len(config) \in Nat /\ DOMAIN config = 1..Len(config) /\ \A i \in 1..Len(config) : config[i] \in Widget
    BY <1>0, LenProperties, ElementOfSeq
  \* A change of the widgets is stored when it can be.
  <1>1. ASSUME dragIdx = 0, UNCHANGED <<storageWorks, editMode, dragIdx, draggedWidget>>,
               widgetIds' \in Nat, widgetIds' >= widgetIds,
               saveConfig(config'), config' \in Seq(Widget'), OnceEach(config'),
               editingWidget' \in IssuedIds' \cup {NoWidget}
        PROVE  DesignerInv'
    <2>1. Widget \subseteq Widget' /\ IssuedIds \subseteq IssuedIds'
      BY <1>0, <1>1 DEF Widget, IssuedIds
    <2>2. storedLayout \in Seq(Widget')
      <3>1. \A i \in 1..Len(storedLayout) : storedLayout[i] \in Widget'
        BY <1>0, <2>1, ElementOfSeq
      <3> QED  BY <1>0, <3>1, Retype
    <2>3. storedLayout' \in Seq(Widget') /\ OnceEach(storedLayout')
      BY <1>1, <1>I, <2>2 DEF saveConfig, Store
    <2>4. LayoutStored'
      BY <1>1, <1>I DEF saveConfig, Store, LayoutStored
    <2>5. dragIdx' \in 0..Len(config')
      <3>1. Len(config') \in Nat
        BY <1>1, LenProperties
      <3> QED  BY <1>1, <3>1
    <2>6. draggedWidget' \in IssuedIds' \cup {NoWidget}
      BY <1>0, <1>1, <2>1
    <2> QED  BY <1>0, <1>1, <2>3, <2>4, <2>5, <2>6 DEF DesignerInv, DesignerTypeOK, OnceEach, NoWidget
  <1>2. CASE addWidget
    <2>1. dragIdx = 0 /\ widgetIds' = widgetIds + 1 /\ editingWidget' = widgetIds + 1
          /\ UNCHANGED <<storageWorks, editMode, dragIdx, draggedWidget>>
      BY <1>2 DEF addWidget, DesignerAct
    <2>2. \E t \in WidgetTypes, s \in WidgetSettings :
            saveConfig(Append(config, [id |-> widgetIds + 1, type |-> t, settings |-> s,
                                       width |-> IF t \in {"data_table", "text"} THEN 4 ELSE 1]))
      BY <1>2 DEF addWidget
    <2>3. PICK t \in WidgetTypes, s \in WidgetSettings :
            saveConfig(Append(config, [id |-> widgetIds + 1, type |-> t, settings |-> s,
                                       width |-> IF t \in {"data_table", "text"} THEN 4 ELSE 1]))
      BY <2>2
    <2> DEFINE w == [id |-> widgetIds + 1, type |-> t, settings |-> s,
                     width |-> IF t \in {"data_table", "text"} THEN 4 ELSE 1]
    <2>4. w \in Widget' /\ w.id = widgetIds + 1
      BY <1>0, <2>1 DEF Widget, IssuedIds, Widths
    <2>5. config' = Append(config, w) /\ saveConfig(config')
      BY <2>3 DEF saveConfig
    <2> HIDE DEF w
    <2>6. \A i \in 1..Len(config) : config[i] \in Widget' /\ config[i].id # widgetIds + 1
      <3>1. IssuedIds \subseteq IssuedIds' /\ \A n \in IssuedIds : n # widgetIds + 1
        BY <1>0, <2>1 DEF IssuedIds
      <3>2. \A v \in Widget : v \in Widget' /\ v.id \in IssuedIds
        BY <3>1 DEF Widget
      <3> QED  BY <1>D, <3>1, <3>2
    <2>7. config \in Seq(Widget')
      BY <1>0, <2>6, Retype
    <2>8. config' \in Seq(Widget') /\ Len(config') = Len(config) + 1
          /\ \A i \in 1..Len(config) + 1 : config'[i] = IF i <= Len(config) THEN config[i] ELSE w
      BY <2>4, <2>5, <2>7, AppendType
    <2>9. OnceEach(config')
      <3>1. DOMAIN config' = 1..Len(config) + 1
        BY <2>8, LenProperties
      <3>2. ASSUME NEW i \in 1..Len(config) + 1, NEW j \in 1..Len(config) + 1, config'[i].id = config'[j].id
            PROVE  i = j
        <4>1. CASE i <= Len(config) /\ j <= Len(config)
          BY <1>D, <1>I, <2>8, <3>2, <4>1 DEF OnceEach
        <4>2. CASE i <= Len(config) /\ ~(j <= Len(config))
          BY <1>D, <2>4, <2>6, <2>8, <3>2, <4>2
        <4>3. CASE j <= Len(config) /\ ~(i <= Len(config))
          BY <1>D, <2>4, <2>6, <2>8, <3>2, <4>3
        <4>4. CASE ~(i <= Len(config)) /\ ~(j <= Len(config))
          BY <1>D, <4>4
        <4> QED  BY <4>1, <4>2, <4>3, <4>4
      <3> QED  BY <3>1, <3>2 DEF OnceEach
    <2>10. widgetIds' \in Nat /\ widgetIds' >= widgetIds /\ editingWidget' \in IssuedIds' \cup {NoWidget}
      BY <1>0, <2>1 DEF IssuedIds
    <2> QED  BY <1>1, <2>1, <2>5, <2>8, <2>9, <2>10
  <1>3. CASE updateWidget
    <2>1. dragIdx = 0 /\ UNCHANGED <<storageWorks, editMode, editingWidget, dragIdx, draggedWidget, widgetIds>>
      BY <1>3 DEF updateWidget, DesignerAct
    <2>2. PICK n \in DOMAIN config :
            \/ \E w \in Widths : saveConfig([config EXCEPT ![n].width = w])
            \/ \E s \in WidgetSettings : saveConfig([config EXCEPT ![n].settings = s])
      BY <1>3 DEF updateWidget
    <2>3. n \in 1..Len(config) /\ config[n] \in Widget
      BY <1>D, <2>2
    <2>4. PICK w \in Widget : w.id = config[n].id /\ saveConfig([config EXCEPT ![n] = w])
      <3>1. ASSUME NEW v \in Widths, saveConfig([config EXCEPT ![n].width = v])
            PROVE  \E w \in Widget : w.id = config[n].id /\ saveConfig([config EXCEPT ![n] = w])
        <4>1. [config[n] EXCEPT !.width = v] \in Widget /\ [config[n] EXCEPT !.width = v].id = config[n].id
          BY <2>3 DEF Widget
        <4>2. saveConfig([config EXCEPT ![n] = [config[n] EXCEPT !.width = v]])
          BY <3>1
        <4> QED  BY <4>1, <4>2
      <3>2. ASSUME NEW s \in WidgetSettings, saveConfig([config EXCEPT ![n].settings = s])
            PROVE  \E w \in Widget : w.id = config[n].id /\ saveConfig([config EXCEPT ![n] = w])
        <4>1. [config[n] EXCEPT !.settings = s] \in Widget /\ [config[n] EXCEPT !.settings = s].id = config[n].id
          BY <2>3 DEF Widget
        <4>2. saveConfig([config EXCEPT ![n] = [config[n] EXCEPT !.settings = s]])
          BY <3>2
        <4> QED  BY <4>1, <4>2
      <3> QED  BY <2>2, <3>1, <3>2
    <2>5. config' = [config EXCEPT ![n] = w] /\ saveConfig(config')
      BY <2>4 DEF saveConfig
    <2>6. config' \in Seq(Widget) /\ Len(config') = Len(config)
          /\ \A i \in 1..Len(config) : config'[i] = IF i = n THEN w ELSE config[i]
      BY <1>0, <2>3, <2>5, ExceptSeq
    <2>7. OnceEach(config')
      <3>1. DOMAIN config' = DOMAIN config /\ \A i \in DOMAIN config : config'[i].id = config[i].id
        BY <1>D, <2>4, <2>6, LenProperties
      <3> QED  BY <1>I, <3>1 DEF OnceEach
    <2>8. Widget' = Widget /\ IssuedIds' = IssuedIds /\ widgetIds' \in Nat /\ widgetIds' >= widgetIds
      BY <1>0, <2>1 DEF Widget, IssuedIds
    <2> QED  BY <1>0, <1>1, <2>1, <2>5, <2>6, <2>7, <2>8
  <1>4. CASE removeWidget
    <2>1. dragIdx = 0 /\ UNCHANGED <<storageWorks, editMode, dragIdx, draggedWidget, widgetIds>>
      BY <1>4 DEF removeWidget, DesignerAct
    <2>2. PICK n \in DOMAIN config :
            /\ saveConfig(RemoveAt(config, n))
            /\ editingWidget' = IF editingWidget = config[n].id THEN NoWidget ELSE editingWidget
      BY <1>4 DEF removeWidget
    <2>3. config' = RemoveAt(config, n) /\ saveConfig(config')
      BY <2>2 DEF saveConfig
    <2>4. /\ config' \in Seq(Widget) /\ Len(config') = Len(config) - 1
          /\ \A i \in 1..Len(config) - 1 : config'[i] = IF i < n THEN config[i] ELSE config[i + 1]
      BY <1>0, <1>D, <2>2, <2>3, RemoveAtType
    <2>5. OnceEach(config')
      <3>1. DOMAIN config' = 1..Len(config) - 1
        BY <2>4, LenProperties
      <3> DEFINE was(i) == IF i < n THEN i ELSE i + 1
      <3>2. \A i \in 1..Len(config) - 1 : was(i) \in DOMAIN config /\ config'[i] = config[was(i)]
        BY <1>D, <2>4
      <3>3. \A i, j \in 1..Len(config) - 1 : was(i) = was(j) => i = j
        BY <1>D, <2>2
      <3> HIDE DEF was
      <3> QED  BY <1>I, <3>1, <3>2, <3>3 DEF OnceEach
    <2>6. Widget' = Widget /\ IssuedIds' = IssuedIds /\ widgetIds' \in Nat /\ widgetIds' >= widgetIds
      BY <1>0, <2>1 DEF Widget, IssuedIds
    <2>7. editingWidget' \in IssuedIds \cup {NoWidget}
      BY <1>0, <2>2
    <2> QED  BY <1>0, <1>1, <2>1, <2>3, <2>4, <2>5, <2>6, <2>7
  <1>5. ASSUME UNCHANGED <<config, storedLayout, storageWorks, dragIdx, draggedWidget, widgetIds>>,
               editMode' \in BOOLEAN, editingWidget' \in IssuedIds \cup {NoWidget}
        PROVE  DesignerInv'
    <2>1. Widget' = Widget /\ IssuedIds' = IssuedIds
      BY <1>5 DEF Widget, IssuedIds
    <2>2. DesignerTypeOK'
      BY <1>0, <1>5, <2>1 DEF DesignerTypeOK
    <2> QED  BY <1>5, <1>I, <2>2 DEF DesignerInv, LayoutStored, OnceEach
  <1>6. CASE TogglePanel
    <2>1. \A n \in DOMAIN config : config[n].id \in IssuedIds
      BY <1>D DEF Widget
    <2>2. editingWidget' \in IssuedIds \cup {NoWidget}
      BY <1>6, <2>1 DEF TogglePanel
    <2> QED  BY <1>0, <1>5, <1>6, <2>2 DEF TogglePanel
  <1>7. CASE ToggleEdit
    BY <1>0, <1>5, <1>7 DEF ToggleEdit
  <1>8. CASE handleDragStart
    <2>1. /\ dragIdx' \in DOMAIN config /\ draggedWidget' = config[dragIdx'].id
          /\ UNCHANGED <<config, storedLayout, storageWorks, editMode, editingWidget, widgetIds>>
      BY <1>8 DEF handleDragStart
    <2>2. Widget' = Widget /\ IssuedIds' = IssuedIds /\ draggedWidget' \in IssuedIds
      BY <1>D, <2>1 DEF Widget, IssuedIds
    <2>3. dragIdx' \in 0..Len(config) /\ dragIdx' # 0
      BY <1>D, <2>1
    <2>4. DesignerTypeOK'
      BY <1>0, <2>1, <2>2, <2>3 DEF DesignerTypeOK
    <2> QED  BY <1>I, <2>1, <2>3, <2>4 DEF DesignerInv, LayoutStored, OnceEach
  <1>9. CASE handleDragOver
    <2>1. /\ dragIdx # 0 /\ dragIdx' \in DOMAIN config /\ config' = MovedTo(dragIdx, dragIdx')
          /\ UNCHANGED <<storedLayout, storageWorks, editMode, editingWidget, draggedWidget, widgetIds>>
      BY <1>9 DEF handleDragOver
    <2> DEFINE rest == RemoveAt(config, dragIdx)
               w == config[dragIdx]
    <2>2. dragIdx \in 1..Len(config) /\ w \in Widget /\ dragIdx' \in 1..Len(config)
      BY <1>0, <1>D, <2>1
    <2>3. /\ rest \in Seq(Widget) /\ Len(rest) = Len(config) - 1
          /\ \A i \in 1..Len(config) - 1 : rest[i] = IF i < dragIdx THEN config[i] ELSE config[i + 1]
      BY <1>0, <2>2, RemoveAtType
    <2>4. config' = InsertAt(rest, dragIdx', w)
      BY <2>1 DEF MovedTo
    <2> HIDE DEF rest, w
    <2>5. /\ config' \in Seq(Widget) /\ Len(config') = Len(config)
          /\ \A i \in 1..Len(config) : config'[i] =
                IF i < dragIdx' THEN rest[i] ELSE IF i = dragIdx' THEN w ELSE rest[i - 1]
      <3>1. dragIdx' \in 1..Len(rest) + 1 /\ Len(rest) + 1 = Len(config)
        BY <1>D, <2>2, <2>3
      <3>2. /\ config' \in Seq(Widget) /\ Len(config') = Len(rest) + 1
            /\ \A i \in 1..Len(rest) + 1 : config'[i] =
                  IF i < dragIdx' THEN rest[i] ELSE IF i = dragIdx' THEN w ELSE rest[i - 1]
        <4>1. PICK k \in 1..Len(rest) + 1 : k = dragIdx'
          BY <3>1
        <4>2. config' = InsertAt(rest, k, w)
          BY <2>4, <4>1
        <4>3. /\ InsertAt(rest, k, w) \in Seq(Widget) /\ Len(InsertAt(rest, k, w)) = Len(rest) + 1
              /\ \A i \in 1..Len(rest) + 1 :
                    InsertAt(rest, k, w)[i] = IF i < k THEN rest[i] ELSE IF i = k THEN w ELSE rest[i - 1]
          <5>1. rest \in Seq(Widget) /\ w \in Widget
            BY <2>2, <2>3
          <5>2. InsertAt(rest, k, w) \in Seq(Widget) /\ Len(InsertAt(rest, k, w)) = Len(rest) + 1
            BY <5>1, InsertAtType
          <5>3. ASSUME NEW i \in 1..Len(rest) + 1
                PROVE  InsertAt(rest, k, w)[i] = IF i < k THEN rest[i] ELSE IF i = k THEN w ELSE rest[i - 1]
            BY <5>1, InsertAtType
          <5> QED  BY <5>2, <5>3
        <4> QED  BY <4>1, <4>2, <4>3
      <3> QED  BY <3>1, <3>2
    <2>6. OnceEach(config')
      <3>1. DOMAIN config' = 1..Len(config)
        BY <2>5, LenProperties
      \* Where a widget of the new order was.
      <3> DEFINE was(i) == IF i = dragIdx' THEN dragIdx
                           ELSE LET k == IF i < dragIdx' THEN i ELSE i - 1
                                IN IF k < dragIdx THEN k ELSE k + 1
      <3>2. \A i \in 1..Len(config) : was(i) \in 1..Len(config) /\ config'[i] = config[was(i)]
        BY <1>D, <2>2, <2>3, <2>5 DEF w
      <3>3. \A i, j \in 1..Len(config) : was(i) = was(j) => i = j
        BY <1>D, <2>2
      <3> HIDE DEF was
      <3> QED  BY <1>D, <1>I, <3>1, <3>2, <3>3 DEF OnceEach
    <2>7. Widget' = Widget /\ IssuedIds' = IssuedIds
      BY <2>1 DEF Widget, IssuedIds
    <2>8. dragIdx' # 0 /\ config'[dragIdx'].id = draggedWidget'
      BY <1>D, <1>I, <2>1, <2>2, <2>5 DEF w
    <2>9. DesignerTypeOK'
      BY <1>0, <1>D, <2>1, <2>2, <2>5, <2>7 DEF DesignerTypeOK
    <2> QED  BY <1>I, <2>1, <2>6, <2>8, <2>9 DEF DesignerInv, LayoutStored, OnceEach
  <1>10. CASE endWidgetDrag
    <2>1. /\ dragIdx' = 0 /\ draggedWidget' = NoWidget /\ Store(config)
          /\ UNCHANGED <<config, storageWorks, editMode, editingWidget, widgetIds>>
      BY <1>10 DEF endWidgetDrag
    <2>2. Widget' = Widget /\ IssuedIds' = IssuedIds /\ dragIdx' \in 0..Len(config)
      BY <1>D, <2>1 DEF Widget, IssuedIds
    <2>3. storedLayout' \in Seq(Widget) /\ OnceEach(storedLayout')
      BY <1>0, <1>I, <2>1 DEF Store
    <2>4. DesignerTypeOK'
      BY <1>0, <2>1, <2>2, <2>3 DEF DesignerTypeOK
    <2> QED  BY <1>I, <2>1, <2>3, <2>4 DEF DesignerInv, LayoutStored, OnceEach, Store
  <1>11. CASE OpenDesigner
    <2>1. /\ config' = storedLayout /\ editMode' = FALSE /\ editingWidget' = NoWidget /\ dragIdx' = 0
          /\ draggedWidget' = NoWidget /\ UNCHANGED <<storedLayout, storageWorks, widgetIds>>
      BY <1>11 DEF OpenDesigner
    <2>2. Widget' = Widget /\ IssuedIds' = IssuedIds /\ dragIdx' \in 0..Len(config')
      <3>1. Len(config') \in Nat
        BY <1>0, <2>1, LenProperties
      <3> QED  BY <2>1, <3>1 DEF Widget, IssuedIds
    <2>3. DesignerTypeOK'
      BY <1>0, <2>1, <2>2 DEF DesignerTypeOK
    <2> QED  BY <1>I, <2>1, <2>3 DEF DesignerInv, LayoutStored, OnceEach
  <1>12. CASE UNCHANGED designerVars
    BY <1>0, <1>5, <1>12 DEF designerVars
  <1> QED
    BY <1>2, <1>3, <1>4, <1>6, <1>7, <1>8, <1>9, <1>10, <1>11, <1>12 DEF DesignerNext

\* The others are the list without the widget in the air.
LEMMA OthersAre ==
    ASSUME NEW layout \in Seq(Widget), OnceEach(layout), NEW k \in Nat, k = Len(layout),
           NEW n \in 1..k, layout[n].id = draggedWidget
    PROVE  Others(layout) = RemoveAt(layout, n)
  <1>1. DOMAIN layout = 1..k
    BY LenProperties
  <1> DEFINE kept == {i \in DOMAIN layout : layout[i].id # draggedWidget}
  <1>2. Others(layout) = ElementsAt(layout, kept)
    BY DEF Others, Filter
  <1>3. kept = (1..k) \ {n}
    BY <1>1 DEF OnceEach
  <1>4. ElementsAt(layout, (1..k) \ {n}) = RemoveAt(layout, n)
    BY WithoutOne
  <1> QED  BY <1>2, <1>3, <1>4

LEMMA DragKeeps ==
    ASSUME DesignerInv, DesignerInv', DesignerNext, dragIdx # 0, dragIdx' # 0
    PROVE  config'[dragIdx'].id = draggedWidget /\ Others(config') = Others(config)
  <1>1. handleDragOver
    BY DEF DesignerNext, DesignerAct, addWidget, updateWidget, removeWidget, TogglePanel, ToggleEdit,
           handleDragStart, endWidgetDrag, OpenDesigner
  <1>2. config \in Seq(Widget) /\ OnceEach(config) /\ dragIdx \in 0..Len(config)
    BY DEF DesignerInv, DesignerTypeOK
  <1>3. PICK k \in Nat : k = Len(config) /\ DOMAIN config = 1..k
    BY <1>2, LenProperties
  <1>4. PICK a \in 1..k : a = dragIdx /\ config[a].id = draggedWidget
    BY <1>2, <1>3 DEF DesignerInv
  <1>5. PICK b \in 1..k : b = dragIdx' /\ config' = MovedTo(dragIdx, b)
    BY <1>1, <1>3 DEF handleDragOver
  <1>6. PICK t : t = config' /\ IsMoved(t, config, a, b)
    BY <1>4, <1>5 DEF MovedTo, IsMoved
  <1>7. t \in Seq(Widget) /\ Len(t) = k /\ t[b] = config[a] /\ RemoveAt(t, b) = RemoveAt(config, a)
    BY <1>2, <1>3, <1>6, MoveWithin
  <1>8. OnceEach(t)
    BY <1>6 DEF DesignerInv, OnceEach
  <1>9. k = Len(t) /\ k = Len(config)
    BY <1>3, <1>7
  <1>10. Others(config) = RemoveAt(config, a)
    BY <1>2, <1>4, <1>9, OthersAre
  <1>11. t[b].id = draggedWidget
    BY <1>4, <1>7
  <1>12. Others(t) = RemoveAt(t, b)
    BY <1>7, <1>8, <1>9, <1>11, OthersAre
  <1> QED  BY <1>5, <1>6, <1>7, <1>10, <1>11, <1>12

-----------------------------------------------------------------------------
(* The app builder: what was saved is in the database *)

\* The set of what a sequence holds, after the steps a list can take.
LEMMA SetOfSeq ==
    ASSUME NEW S, NEW s \in Seq(S)
    PROVE  /\ ToSet(s) \subseteq S
           /\ (ToSet(s) = {}) <=> (s = <<>>)
           /\ \A e \in ToSet(s) : \E i \in DOMAIN s : s[i] = e
           /\ \A i \in DOMAIN s : s[i] \in ToSet(s)
  <1>1. DOMAIN s = 1..Len(s) /\ Len(s) \in Nat /\ \A i \in 1..Len(s) : s[i] \in S
    BY LenProperties, ElementOfSeq
  <1>2. s # <<>> => 1 \in DOMAIN s
    BY <1>1, EmptySeq
  <1>3. s # <<>> => ToSet(s) # {}
    BY <1>2 DEF ToSet
  <1>4. s = <<>> => ToSet(s) = {}
    <2>1. \A i \in DOMAIN << >> : FALSE
      OBVIOUS
    <2> QED  BY <2>1 DEF ToSet
  <1>5. (ToSet(s) = {}) <=> (s = <<>>)
    BY <1>3, <1>4
  <1>6. /\ ToSet(s) \subseteq S
        /\ \A e \in ToSet(s) : \E i \in DOMAIN s : s[i] = e
        /\ \A i \in DOMAIN s : s[i] \in ToSet(s)
    BY <1>1 DEF ToSet
  <1> QED  BY <1>5, <1>6

LEMMA SetOfConcat ==
    ASSUME NEW S, NEW s \in Seq(S), NEW t \in Seq(S)
    PROVE  s \o t \in Seq(S) /\ ToSet(s \o t) = ToSet(s) \cup ToSet(t)
  <1>1. /\ DOMAIN s = 1..Len(s) /\ Len(s) \in Nat
        /\ DOMAIN t = 1..Len(t) /\ Len(t) \in Nat
    BY LenProperties
  <1>2. /\ s \o t \in Seq(S) /\ Len(s \o t) = Len(s) + Len(t)
        /\ \A i \in 1..Len(s) + Len(t) : (s \o t)[i] = IF i <= Len(s) THEN s[i] ELSE t[i - Len(s)]
    BY ConcatProperties
  <1>3. DOMAIN (s \o t) = 1..Len(s) + Len(t)
    BY <1>2, LenProperties
  <1>4. ASSUME NEW i \in DOMAIN (s \o t) PROVE (s \o t)[i] \in ToSet(s) \cup ToSet(t)
    BY <1>1, <1>2, <1>3 DEF ToSet
  <1>5. ASSUME NEW i \in DOMAIN s PROVE \E k \in DOMAIN (s \o t) : (s \o t)[k] = s[i]
    BY <1>1, <1>2, <1>3
  <1>6. ASSUME NEW i \in DOMAIN t PROVE \E k \in DOMAIN (s \o t) : (s \o t)[k] = t[i]
    <2>1. /\ i + Len(s) \in 1..Len(s) + Len(t) /\ ~(i + Len(s) <= Len(s))
          /\ (i + Len(s)) - Len(s) = i
      BY <1>1
    <2>2. (s \o t)[i + Len(s)] = t[i]
      BY <1>2, <2>1
    <2> QED  BY <1>3, <2>1, <2>2
  <1> QED  BY <1>2, <1>4, <1>5, <1>6 DEF ToSet

LEMMA SetOfInsert ==
    ASSUME NEW S, NEW s \in Seq(S), NEW n \in 1..Len(s) + 1, NEW e \in S
    PROVE  ToSet(InsertAt(s, n, e)) \subseteq ToSet(s) \cup {e}
  <1>1. /\ InsertAt(s, n, e) \in Seq(S) /\ Len(InsertAt(s, n, e)) = Len(s) + 1
        /\ \A i \in 1..Len(s) + 1 : InsertAt(s, n, e)[i] =
              IF i < n THEN s[i] ELSE IF i = n THEN e ELSE s[i - 1]
    BY InsertAtType
  <1>2. DOMAIN s = 1..Len(s) /\ Len(s) \in Nat /\ DOMAIN InsertAt(s, n, e) = 1..Len(s) + 1
    BY <1>1, LenProperties
  <1>3. ASSUME NEW i \in DOMAIN InsertAt(s, n, e) PROVE InsertAt(s, n, e)[i] \in ToSet(s) \cup {e}
    <2>1. i < n => i \in DOMAIN s
      BY <1>2
    <2>2. i > n => i - 1 \in DOMAIN s
      BY <1>2
    <2>3. i < n \/ i = n \/ i > n
      BY <1>2
    <2> QED  BY <1>1, <1>2, <2>1, <2>2, <2>3 DEF ToSet
  <1> QED  BY <1>3 DEF ToSet

LEMMA SetOfRemove ==
    ASSUME NEW S, NEW s \in Seq(S), NEW n \in 1..Len(s)
    PROVE  ToSet(RemoveAt(s, n)) \subseteq ToSet(s)
  <1>1. /\ RemoveAt(s, n) \in Seq(S) /\ Len(RemoveAt(s, n)) = Len(s) - 1
        /\ \A i \in 1..Len(s) - 1 : RemoveAt(s, n)[i] = IF i < n THEN s[i] ELSE s[i + 1]
    BY RemoveAtType
  <1>2. DOMAIN s = 1..Len(s) /\ Len(s) \in Nat /\ DOMAIN RemoveAt(s, n) = 1..Len(s) - 1
    BY <1>1, LenProperties
  <1>3. ASSUME NEW i \in DOMAIN RemoveAt(s, n) PROVE RemoveAt(s, n)[i] \in ToSet(s)
    <2>1. i \in DOMAIN s /\ i + 1 \in DOMAIN s
      BY <1>2
    <2> QED  BY <1>1, <1>2, <2>1 DEF ToSet
  <1> QED  BY <1>3 DEF ToSet

LEMMA SetOfTail ==
    ASSUME NEW S, NEW s \in Seq(S), s # <<>>
    PROVE  /\ Tail(s) \in Seq(S) /\ Head(s) \in S
           /\ ToSet(s) = {Head(s)} \cup ToSet(Tail(s))
  <1>1. /\ DOMAIN s = 1..Len(s) /\ Len(s) \in Nat /\ Len(s) # 0
    BY LenProperties, EmptySeq
  <1>2. /\ Tail(s) \in Seq(S) /\ Len(Tail(s)) = Len(s) - 1
        /\ \A i \in 1..Len(s) - 1 : Tail(s)[i] = s[i + 1]
        /\ Head(s) = s[1] /\ Head(s) \in S
    BY HeadTailProperties
  <1>3. DOMAIN Tail(s) = 1..Len(s) - 1
    BY <1>2, LenProperties
  <1>4. ASSUME NEW i \in DOMAIN s PROVE s[i] = Head(s) \/ s[i] \in ToSet(Tail(s))
    <2>1. i = 1 \/ (i - 1 \in 1..Len(s) - 1 /\ i - 1 + 1 = i)
      BY <1>1
    <2> QED  BY <1>2, <1>3, <2>1 DEF ToSet
  <1>5. ASSUME NEW i \in DOMAIN Tail(s) PROVE Tail(s)[i] \in ToSet(s)
    BY <1>1, <1>2, <1>3 DEF ToSet
  <1>6. Head(s) \in ToSet(s)
    BY <1>1, <1>2 DEF ToSet
  <1> QED  BY <1>2, <1>4, <1>5, <1>6 DEF ToSet

\* A filter leaves the elements that pass its test.
LEMMA SetOfPassed ==
    ASSUME NEW S, NEW s \in Seq(S), NEW spots \in SUBSET (DOMAIN s)
    PROVE  /\ ElementsAt(s, spots) \in Seq(S)
           /\ ToSet(ElementsAt(s, spots)) = {s[i] : i \in spots}
  <1>1. /\ ElementsAt(s, spots) \in Seq(S)
        /\ Len(ElementsAt(s, spots)) = Cardinality(spots)
        /\ \A n \in 1..Cardinality(spots) : \E i \in spots : ElementsAt(s, spots)[n] = s[i]
        /\ \A i \in spots : \E n \in 1..Cardinality(spots) : ElementsAt(s, spots)[n] = s[i]
    BY ElementsAtType
  <1> DEFINE passed == ElementsAt(s, spots)
  <1>2. DOMAIN passed = 1..Cardinality(spots)
    BY <1>1, LenProperties
  <1>3. /\ \A n \in DOMAIN passed : \E i \in spots : passed[n] = s[i]
        /\ \A i \in spots : \E n \in DOMAIN passed : passed[n] = s[i]
    BY <1>1, <1>2
  <1>4. passed \in Seq(S)
    BY <1>1
  <1> HIDE DEF passed
  <1>5. ToSet(passed) = {s[i] : i \in spots}
    BY <1>3 DEF ToSet
  <1> QED  BY <1>4, <1>5 DEF passed

-----------------------------------------------------------------------------
(* The inductive invariant *)

\* Drafts of old fields are told apart by their ids.
OldOnce(list) ==
    \A d, e \in ToSet(list) : d.id = e.id /\ d.id \in Originals => d = e

Todo == ToSet(saving)
Underway == saving # <<>> \/ leaving # "here"

FieldsInv ==
    /\ originalFields # <<>> => isEditMode
    /\ \A id \in Originals : id < 10
    /\ OldOnce(fields) /\ OldOnce(propertyAsked.fields) /\ OldOnce(originalFields)

\* What a save has to do: what it has not done yet is on the list, and the list has
\* nothing that the form does not want.
ListInv ==
    /\ \A c \in Todo : (c.op = "create") <=> ~isEditMode
    /\ leaving # "here" => saving = <<>>
    /\ OldOnce(clicked)
    /\ \A c \in Todo :
          /\ c.op = "delete" => c.draft.id \in Originals \ IdsOf(clicked)
          /\ c.op = "add" => c.draft \in ToSet(clicked) /\ c.draft.id \notin Originals
          /\ c.op = "update" => c.draft \in ToSet(clicked) /\ c.draft.id \in Originals

ToDelete == {c.draft.id : c \in {t \in Todo : t.op = "delete"}}
ToAdd == {<<c.draft.slug, c.draft.label>> : c \in {t \in Todo : t.op = "add"}}
ToUpdate == {c.draft.id : c \in {t \in Todo : t.op = "update"}}

\* The database on the way to the form.
EditProgress ==
    isEditMode /\ Underway =>
        /\ Originals \cap IdsOf(dbFields) \subseteq IdsOf(clicked) \cup ToDelete
        /\ Added(clicked) \subseteq Added(dbFields) \cup ToAdd
        /\ found = originalFields =>
              /\ Added(dbFields) \subseteq Added(clicked)
              /\ Originals \cap IdsOf(clicked) \subseteq IdsOf(dbFields)
              /\ \A d \in ToSet(clicked), e \in ToSet(dbFields) :
                    d.id = e.id /\ d.id \in Originals => d.label = e.label \/ d.id \in ToUpdate

CreateDone == ~isEditMode /\ leaving # "here" => Added(dbFields) = Added(clicked)

\* The label is stored or still has to be.
Naming == {"create", "rename"}
NameProgress ==
    /\ \A c \in Todo : c.op \in Naming => c.draft.label = clickedName.said
    /\ Underway /\ clickedName.said # clickedName.known =>
          dbName = clickedName.said \/ \E c \in Todo : c.op \in Naming

SaveInv == ListInv /\ EditProgress /\ CreateDone /\ NameProgress

BuilderInv == BuilderTypeOK /\ FieldsInv /\ SaveInv

LEMMA BuilderMeans == BuilderInv => SavedMeansStored
  <1> SUFFICES ASSUME BuilderInv, leaving # "here"
               PROVE  /\ clickedName.said # clickedName.known => dbName = clickedName.said
                      /\ Added(clicked) \subseteq Added(dbFields)
                      /\ IdsOf(dbFields) \cap Originals \subseteq IdsOf(clicked)
                      /\ found = originalFields =>
                            Added(dbFields) = Added(clicked) /\ Kept(dbFields) = Kept(clicked)
    BY DEF SavedMeansStored
  <1>1. Todo = {} /\ ToDelete = {} /\ ToAdd = {} /\ ToUpdate = {}
    <2>1. saving = <<>>
      BY DEF BuilderInv, SaveInv, ListInv
    <2>2. saving \in Seq(ServerCall)
      BY DEF BuilderInv, BuilderTypeOK
    <2>3. Todo = {}
      BY <2>1, <2>2, SetOfSeq DEF Todo
    <2> QED  BY <2>3 DEF ToDelete, ToAdd, ToUpdate
  <1>n. clickedName.said # clickedName.known => dbName = clickedName.said
    BY <1>1 DEF BuilderInv, SaveInv, NameProgress, Underway
  <1>2. CASE isEditMode
    <2>1. /\ Originals \cap IdsOf(dbFields) \subseteq IdsOf(clicked)
          /\ Added(clicked) \subseteq Added(dbFields)
          /\ found = originalFields =>
                /\ Added(dbFields) \subseteq Added(clicked)
                /\ Originals \cap IdsOf(clicked) \subseteq IdsOf(dbFields)
                /\ \A d \in ToSet(clicked), e \in ToSet(dbFields) :
                      d.id = e.id /\ d.id \in Originals => d.label = e.label
      BY <1>1, <1>2 DEF BuilderInv, SaveInv, EditProgress, Underway
    <2>2. ASSUME found = originalFields  PROVE  Kept(dbFields) = Kept(clicked)
      BY <2>1, <2>2 DEF Kept, IdsOf
    <2> QED  BY <1>n, <2>1, <2>2
  <1>3. CASE ~isEditMode
    <2>1. originalFields = <<>> /\ originalFields \in Seq(Draft)
      BY <1>3 DEF BuilderInv, BuilderTypeOK, FieldsInv
    <2>2. ToSet(originalFields) = {}
      BY <2>1, SetOfSeq
    <2>3. Originals = {}
      BY <2>2 DEF Originals, IdsOf
    <2>4. Kept(dbFields) = Kept(clicked)
      BY <2>3 DEF Kept
    <2> QED  BY <1>3, <1>n, <2>3, <2>4 DEF BuilderInv, SaveInv, CreateDone
  <1> QED  BY <1>2, <1>3

LEMMA FreshIds ==
    ASSUME acts \in Nat, NEW k \in Nat
    PROVE  FreshId(k) \in Nat /\ FreshId(k) >= 10 /\ ~(FreshId(k) < 10)
  BY DEF FreshId

LEMMA FreshDraft ==
    ASSUME acts \in Nat, NEW k \in Nat, NEW slug \in FieldSlugs \cup {""}, NEW label \in Labels
    PROVE  /\ [id |-> FreshId(k), slug |-> slug, label |-> label] \in Draft
           /\ FreshId(k) \in Nat /\ FreshId(k) >= 10 /\ ~(FreshId(k) < 10)
  <1>1. FreshId(k) \in Nat /\ FreshId(k) >= 10 /\ ~(FreshId(k) < 10)
    BY FreshIds
  <1>2. PICK n \in Nat : n = FreshId(k)
    BY <1>1
  <1>3. [id |-> n, slug |-> slug, label |-> label] \in Draft
    BY DEF Draft
  <1> QED  BY <1>1, <1>2, <1>3

LEMMA ListLabel == NewLabel \in Labels
  BY BuilderAssumption DEF NewLabel

LEMMA OldOnceWithin ==
    ASSUME NEW s, NEW t, NEW e, OldOnce(s), ToSet(t) \subseteq ToSet(s) \cup {e}, e.id \notin Originals
    PROVE  OldOnce(t)
  BY DEF OldOnce

LEMMA OldOncePart ==
    ASSUME NEW s, NEW t, OldOnce(s), ToSet(t) \subseteq ToSet(s)
    PROVE  OldOnce(t)
  BY DEF OldOnce

\* A draft takes the place of the one with its id.
LEMMA ReplacedDraft ==
    ASSUME NEW list \in Seq(Draft), NEW updated \in Draft, OldOnce(list),
           NEW swapped, swapped = [i \in DOMAIN list |-> IF list[i].id = updated.id THEN updated ELSE list[i]]
    PROVE  swapped \in Seq(Draft) /\ OldOnce(swapped)
  <1>1. DOMAIN list = 1..Len(list) /\ Len(list) \in Nat /\ \A i \in 1..Len(list) : list[i] \in Draft
    BY LenProperties, ElementOfSeq
  <1>2. swapped \in Seq(Draft) /\ DOMAIN swapped = DOMAIN list
    BY <1>1
  <1>3. \A d \in ToSet(swapped) : d = updated \/ (d \in ToSet(list) /\ d.id # updated.id)
    BY DEF ToSet
  <1>4. OldOnce(swapped)
    BY <1>3 DEF OldOnce
  <1> QED  BY <1>2, <1>4

\* Steps of the form leave a save alone.
LEMMA DraftSteps ==
    ASSUME BuilderInv, UNCHANGED <<isEditMode, builderSave>>,
           appName' \in Labels \cup {""}, appSlug' \in AppSlugs \cup {""}, slugManual' \in BOOLEAN,
           slugAsked' \in [sent : BOOLEAN, manual : BOOLEAN],
           fields' \in Seq(Draft), OldOnce(fields'), selectedId' \in Nat,
           propertyAsked' \in FieldAsk \cup {NoFieldAsk}, OldOnce(propertyAsked'.fields)
    PROVE  BuilderInv'
  <1>1. /\ isEditMode' = isEditMode /\ originalFields' = originalFields /\ existing' = existing
        /\ dbFields' = dbFields /\ saving' = saving /\ clicked' = clicked /\ found' = found
        /\ leaving' = leaving /\ refusals' = refusals
        /\ existingName' = existingName /\ dbName' = dbName /\ clickedName' = clickedName
    BY DEF builderSave, builderCached, builderStored, builderClick
  <1>2. BuilderTypeOK'
    BY <1>1 DEF BuilderInv, BuilderTypeOK
  <1>3. Originals' = Originals /\ Todo' = Todo
    BY <1>1 DEF Originals, Todo, IdsOf
  <1>m. isEditMode' <=> isEditMode
    <2>1. isEditMode' = isEditMode /\ isEditMode \in BOOLEAN
      BY <1>1 DEF BuilderInv, BuilderTypeOK
    <2>2. CASE isEditMode = TRUE
      BY <2>1, <2>2
    <2>3. CASE isEditMode = FALSE
      BY <2>1, <2>3
    <2> QED  BY <2>1, <2>2, <2>3
  <1>4. FieldsInv'
    <2>1. OldOnce(fields)' /\ OldOnce(propertyAsked.fields)'
      BY <1>3 DEF OldOnce
    <2>2. OldOnce(originalFields)'
      BY <1>1, <1>3 DEF BuilderInv, FieldsInv, OldOnce
    <2>3. (originalFields # <<>> => isEditMode)' /\ (\A id \in Originals : id < 10)'
      <3>1. (originalFields # <<>> => isEditMode) /\ \A id \in Originals : id < 10
        BY DEF BuilderInv, FieldsInv
      <3> QED  BY <1>1, <1>m, <1>3, <3>1, Zenon
    <2> QED  BY <2>1, <2>2, <2>3 DEF FieldsInv
  <1>5. SaveInv'
    <2>1. /\ (Underway <=> Underway') /\ ToDelete' = ToDelete /\ ToAdd' = ToAdd /\ ToUpdate' = ToUpdate
          /\ Added(clicked)' = Added(clicked) /\ Added(dbFields)' = Added(dbFields)
          /\ IdsOf(clicked)' = IdsOf(clicked) /\ IdsOf(dbFields)' = IdsOf(dbFields)
      BY <1>1, <1>3 DEF Underway, ToDelete, ToAdd, ToUpdate, Added, IdsOf
    <2>2. ListInv'
      <3>1. ListInv
        BY DEF BuilderInv, SaveInv
      <3>2. OldOnce(clicked)'
        BY <1>1, <1>3, <3>1 DEF ListInv, OldOnce
      <3> HIDE DEF OldOnce
      <3> QED  BY <1>1, <1>m, <1>3, <2>1, <3>1, <3>2, Zenon DEF ListInv
    <2>3. EditProgress' /\ CreateDone'
      <3>1. EditProgress /\ CreateDone
        BY DEF BuilderInv, SaveInv
      <3> QED  BY <1>1, <1>m, <1>3, <2>1, <3>1, Zenon DEF EditProgress, CreateDone
    <2>4. NameProgress'
      <3>1. NameProgress
        BY DEF BuilderInv, SaveInv
      <3> QED  BY <1>1, <1>3, <2>1, <3>1 DEF NameProgress
    <2> QED  BY <2>2, <2>3, <2>4 DEF SaveInv
  <1> QED  BY <1>2, <1>4, <1>5 DEF BuilderInv

LEMMA NoAskOnce == OldOnce(NoFieldAsk.fields) /\ NoFieldAsk \in FieldAsk \cup {NoFieldAsk}
  <1>1. NoFieldAsk.fields = <<>> /\ <<>> \in Seq(Draft)
    BY DEF NoFieldAsk
  <1>2. ToSet(NoFieldAsk.fields) = {}
    BY <1>1, SetOfSeq
  <1> QED  BY <1>2 DEF OldOnce

LEMMA PanelDraft == BuilderInv /\ PanelOpen => SelectedDraft \in Draft
  <1> SUFFICES ASSUME BuilderInv, PanelOpen  PROVE  SelectedDraft \in Draft
    OBVIOUS
  <1>1. fields \in Seq(Draft)
    BY DEF BuilderInv, BuilderTypeOK
  <1>2. \E i \in DOMAIN fields : fields[i].id = selectedId
    BY <1>1, SetOfSeq DEF PanelOpen, IdsOf
  <1>3. \A i \in DOMAIN fields : fields[i] \in Draft
    BY <1>1
  <1> QED  BY <1>2, <1>3 DEF SelectedDraft

LEMMA DraftStep ==
    ASSUME BuilderInv, acts \in Nat,
           \/ handleLabelChange \/ handleSlugChange \/ requestSlug
           \/ applyAIFields \/ handleAddField \/ handleSelect \/ handleRemoveField \/ onReorder
           \/ updateLabel \/ updateSlug \/ requestAutoSlug
    PROVE  BuilderInv'
  <1>0. /\ isEditMode \in BOOLEAN /\ slugManual \in BOOLEAN
        /\ appName \in Labels \cup {""} /\ appSlug \in AppSlugs \cup {""}
        /\ fields \in Seq(Draft) /\ selectedId \in Nat
        /\ slugAsked \in [sent : BOOLEAN, manual : BOOLEAN] /\ propertyAsked \in FieldAsk \cup {NoFieldAsk}
        /\ OldOnce(fields) /\ OldOnce(propertyAsked.fields) /\ \A id \in Originals : id < 10
    BY DEF BuilderInv, BuilderTypeOK, FieldsInv
  <1>N. NoNameAsk \in [sent : BOOLEAN, manual : BOOLEAN]
    BY DEF NoNameAsk
  <1>D. DOMAIN fields = 1..Len(fields) /\ Len(fields) \in Nat
    BY <1>0, LenProperties
  <1>1. CASE handleLabelChange
    <2>1. /\ appName' \in Labels \cup {""} /\ appSlug' \in AppSlugs \cup {""}
          /\ UNCHANGED <<isEditMode, slugManual, builderFields, builderSave>>
      BY <1>0, <1>1 DEF handleLabelChange
    <2>2. slugAsked' \in [sent : BOOLEAN, manual : BOOLEAN]
      <3>1. slugAsked' = slugAsked \/ slugAsked' = [sent |-> TRUE, manual |-> slugManual]
        BY <1>1 DEF handleLabelChange
      <3>2. [sent |-> TRUE, manual |-> slugManual] \in [sent : BOOLEAN, manual : BOOLEAN]
        BY <1>0
      <3> QED  BY <1>0, <3>1, <3>2
    <2> QED  BY <1>0, <2>1, <2>2, DraftSteps DEF builderFields
  <1>2. CASE handleSlugChange
    <2>1. /\ appSlug' \in AppSlugs \cup {""} /\ slugManual' \in BOOLEAN
          /\ UNCHANGED <<isEditMode, appName, slugAsked, builderFields, builderSave>>
      BY <1>0, <1>2 DEF handleSlugChange
    <2> QED  BY <1>0, <2>1, DraftSteps DEF builderFields
  <1>3. CASE requestSlug
    <2>1. /\ appSlug' \in AppSlugs \cup {""} /\ slugAsked' = NoNameAsk
          /\ UNCHANGED <<isEditMode, appName, slugManual, builderFields, builderSave>>
      BY <1>0, <1>3 DEF requestSlug
    <2> QED  BY <1>0, <1>N, <2>1, DraftSteps DEF builderFields
  <1>4. CASE applyAIFields
    <2>1. PICK s \in AppSlugs, l \in Labels, f \in FieldSlugs, g \in FieldSlugs :
             /\ appSlug' = s /\ appName' = l /\ slugManual' = FALSE
             /\ fields' = <<[id |-> FreshId(1), slug |-> f, label |-> l], [id |-> FreshId(2), slug |-> g, label |-> l]>>
      BY <1>4 DEF applyAIFields
    <2>2. /\ selectedId' = NoField /\ propertyAsked' = NoFieldAsk
          /\ UNCHANGED <<isEditMode, slugAsked, builderSave>>
      BY <1>4 DEF applyAIFields
    <2> DEFINE a == [id |-> FreshId(1), slug |-> f, label |-> l]
               b == [id |-> FreshId(2), slug |-> g, label |-> l]
    <2>3. a \in Draft /\ b \in Draft
      <3>1. 1 \in Nat /\ 2 \in Nat
        OBVIOUS
      <3>2. f \in FieldSlugs \cup {""} /\ g \in FieldSlugs \cup {""}
        OBVIOUS
      <3> QED  BY <3>1, <3>2, FreshDraft
    <2>4. ~isEditMode
      BY <1>4 DEF applyAIFields
    <2>5. Originals = {}
      <3>1. originalFields = <<>> /\ <<>> \in Seq(Draft)
        BY <2>4 DEF BuilderInv, FieldsInv
      <3>2. ToSet(originalFields) = {}
        BY <3>1, SetOfSeq
      <3> QED  BY <3>2 DEF Originals, IdsOf
    <2>6. OldOnce(fields')
      BY <2>5 DEF OldOnce
    <2>7. fields' \in Seq(Draft)
      <3> HIDE DEF a, b
      <3>1. <<a, b>> \in Seq(Draft)
        BY <2>3, TupleType
      <3> QED  BY <2>1, <3>1 DEF a, b
    <2>8. appName' \in Labels \cup {""} /\ appSlug' \in AppSlugs \cup {""} /\ slugManual' \in BOOLEAN
      BY <2>1
    <2> QED  BY <1>0, <2>2, <2>6, <2>7, <2>8, NoAskOnce, DraftSteps DEF NoField
  <1>5. CASE handleAddField
    <2> DEFINE new == [id |-> FreshId(0), slug |-> "", label |-> NewLabel]
    <2>1. new \in Draft /\ new.id \in Nat /\ new.id >= 10 /\ new.id = FreshId(0)
      <3>1. 0 \in Nat /\ "" \in FieldSlugs \cup {""}
        OBVIOUS
      <3>2. PICK n : n = FreshId(0)
        OBVIOUS
      <3>3. [id |-> n, slug |-> "", label |-> NewLabel] \in Draft /\ n \in Nat /\ n >= 10
        BY <3>1, <3>2, FreshDraft, ListLabel
      <3> QED  BY <3>2, <3>3
    <2>2. PICK at \in 1..Len(fields) + 1 : fields' = InsertAt(fields, at, new)
      BY <1>5 DEF handleAddField
    <2>3. /\ selectedId' = new.id
          /\ UNCHANGED <<isEditMode, builderName, propertyAsked, builderSave>>
      BY <1>5, <2>1 DEF handleAddField
    <2> HIDE DEF new
    <2>4. new.id \notin Originals
      <3>1. ~(new.id < 10)
        BY <2>1
      <3> QED  BY <1>0, <3>1, Zenon
    <2>5. InsertAt(fields, at, new) \in Seq(Draft) /\ ToSet(InsertAt(fields, at, new)) \subseteq ToSet(fields) \cup {new}
      BY <1>0, <2>1, InsertAtType, SetOfInsert
    <2>6. OldOnce(fields')
      BY <1>0, <2>2, <2>4, <2>5, OldOnceWithin
    <2> QED  BY <1>0, <2>1, <2>2, <2>3, <2>5, <2>6, DraftSteps DEF builderName
  <1>6. CASE handleSelect
    <2>1. /\ selectedId' \in IdsOf(fields)
          /\ UNCHANGED <<isEditMode, builderName, fields, propertyAsked, builderSave>>
      BY <1>6 DEF handleSelect
    <2>2. selectedId' \in Nat
      <3>1. PICK d \in ToSet(fields) : selectedId' = d.id
        BY <2>1 DEF IdsOf
      <3>2. d \in Draft
        BY <1>0, <3>1, SetOfSeq
      <3> QED  BY <3>1, <3>2 DEF Draft
    <2> QED  BY <1>0, <2>1, <2>2, DraftSteps DEF builderName
  <1>7. CASE handleRemoveField
    <2>1. PICK id \in IdsOf(fields) :
             /\ fields' = Filter(fields, LAMBDA d : d.id # id)
             /\ IF selectedId = id THEN selectedId' = NoField /\ propertyAsked' = NoFieldAsk
                ELSE UNCHANGED <<selectedId, propertyAsked>>
      BY <1>7 DEF handleRemoveField
    <2>2. UNCHANGED <<isEditMode, builderName, builderSave>>
      BY <1>7 DEF handleRemoveField
    <2> DEFINE spots == {i \in DOMAIN fields : fields[i].id # id}
    <2>3. fields' = ElementsAt(fields, spots)
      BY <2>1 DEF Filter
    <2>4. spots \subseteq DOMAIN fields
      OBVIOUS
    <2> HIDE DEF spots
    <2>5. fields' \in Seq(Draft) /\ ToSet(fields') = {fields[i] : i \in spots}
      <3>1. ElementsAt(fields, spots) \in Seq(Draft) /\ ToSet(ElementsAt(fields, spots)) = {fields[i] : i \in spots}
        BY <1>0, <2>4, SetOfPassed
      <3> QED  BY <2>3, <3>1
    <2>6. ToSet(fields') \subseteq ToSet(fields)
      BY <2>4, <2>5 DEF ToSet
    <2>7. OldOnce(fields')
      BY <1>0, <2>6, OldOncePart
    <2>8. /\ selectedId' \in Nat /\ propertyAsked' \in FieldAsk \cup {NoFieldAsk}
          /\ OldOnce(propertyAsked'.fields)
      <3>1. CASE selectedId = id
        BY <2>1, <3>1, NoAskOnce DEF NoField
      <3>2. CASE selectedId # id
        BY <1>0, <2>1, <3>2
      <3> QED  BY <3>1, <3>2
    <2> QED  BY <1>0, <2>2, <2>5, <2>7, <2>8, DraftSteps DEF builderName
  <1>8. CASE onReorder
    <2>1. PICK i \in DOMAIN fields, j \in DOMAIN fields : fields' = InsertAt(RemoveAt(fields, i), j, fields[i])
      BY <1>8 DEF onReorder
    <2>2. UNCHANGED <<isEditMode, builderName, selectedId, propertyAsked, builderSave>>
      BY <1>8 DEF onReorder
    <2>3. PICK rest : rest = RemoveAt(fields, i)
      OBVIOUS
    <2>4. rest \in Seq(Draft) /\ Len(rest) = Len(fields) - 1 /\ ToSet(rest) \subseteq ToSet(fields)
      BY <1>0, <1>D, <2>3, RemoveAtType, SetOfRemove
    <2>5. j \in 1..Len(rest) + 1
      BY <1>D, <2>4
    <2>6. PICK e \in Draft : e = fields[i] /\ e \in ToSet(fields)
      <3>1. fields[i] \in Draft
        BY <1>0, <1>D, ElementOfSeq
      <3>2. fields[i] \in ToSet(fields)
        BY DEF ToSet
      <3> QED  BY <3>1, <3>2
    <2>7. fields' = InsertAt(rest, j, e)
      BY <2>1, <2>3, <2>6
    <2>8. InsertAt(rest, j, e) \in Seq(Draft) /\ ToSet(InsertAt(rest, j, e)) \subseteq ToSet(rest) \cup {e}
      BY <2>4, <2>5, InsertAtType, SetOfInsert
    <2>9. OldOnce(fields')
      <3>1. ToSet(InsertAt(rest, j, e)) \subseteq ToSet(fields)
        BY <2>4, <2>6, <2>8
      <3>2. OldOnce(InsertAt(rest, j, e))
        BY <1>0, <3>1, OldOncePart
      <3> QED  BY <2>7, <3>2
    <2> QED  BY <1>0, <2>2, <2>7, <2>8, <2>9, DraftSteps DEF builderName
  <1>9. CASE updateLabel
    <2>1. PICK l \in Labels :
             LET updated == [SelectedDraft EXCEPT !.label = l] IN
             /\ handleFieldChange(fields, updated)
             /\ propertyAsked' = IF updated.slug = "" THEN [sent |-> TRUE, field |-> updated, fields |-> fields]
                                 ELSE propertyAsked
      BY <1>9 DEF updateLabel
    <2>2. UNCHANGED <<isEditMode, builderName, selectedId, builderSave>>
      BY <1>9 DEF updateLabel
    <2>3. SelectedDraft \in Draft
      BY <1>9, PanelDraft DEF updateLabel
    <2>4. PICK updated : updated = [SelectedDraft EXCEPT !.label = l]
      OBVIOUS
    <2>5. updated \in Draft
      BY <2>3, <2>4 DEF Draft
    <2>6. /\ fields' = [i \in DOMAIN fields |-> IF fields[i].id = updated.id THEN updated ELSE fields[i]]
          /\ propertyAsked' = IF updated.slug = "" THEN [sent |-> TRUE, field |-> updated, fields |-> fields]
                              ELSE propertyAsked
      BY <2>1, <2>4 DEF handleFieldChange
    <2>7. fields' \in Seq(Draft) /\ OldOnce(fields')
      BY <1>0, <2>5, <2>6, ReplacedDraft
    <2>8. [sent |-> TRUE, field |-> updated, fields |-> fields] \in FieldAsk
      BY <1>0, <2>5 DEF FieldAsk
    <2>9. propertyAsked' \in FieldAsk \cup {NoFieldAsk} /\ OldOnce(propertyAsked'.fields)
      BY <1>0, <2>6, <2>8
    <2> QED  BY <1>0, <2>2, <2>7, <2>9, DraftSteps DEF builderName
  <1>10. CASE updateSlug
    <2>1. PICK s \in FieldSlugs \cup {""} : handleFieldChange(fields, [SelectedDraft EXCEPT !.slug = s])
      BY <1>10 DEF updateSlug
    <2>2. UNCHANGED <<isEditMode, builderName, selectedId, propertyAsked, builderSave>>
      BY <1>10 DEF updateSlug
    <2>3. SelectedDraft \in Draft
      BY <1>10, PanelDraft DEF updateSlug
    <2>4. PICK updated : updated = [SelectedDraft EXCEPT !.slug = s]
      OBVIOUS
    <2>5. updated \in Draft
      BY <2>3, <2>4 DEF Draft
    <2>6. fields' = [i \in DOMAIN fields |-> IF fields[i].id = updated.id THEN updated ELSE fields[i]]
      BY <2>1, <2>4 DEF handleFieldChange
    <2>7. fields' \in Seq(Draft) /\ OldOnce(fields')
      BY <1>0, <2>5, <2>6, ReplacedDraft
    <2> QED  BY <1>0, <2>2, <2>7, DraftSteps DEF builderName
  <1>11. CASE requestAutoSlug
    <2>1. PICK s \in FieldSlugs :
             handleFieldChange(propertyAsked.fields, [propertyAsked.field EXCEPT !.slug = s])
      BY <1>11 DEF requestAutoSlug
    <2>2. /\ UNCHANGED <<isEditMode, builderName, selectedId, builderSave>>
          /\ propertyAsked' = NoFieldAsk /\ propertyAsked.sent
      BY <1>11 DEF requestAutoSlug
    <2>3. propertyAsked \in FieldAsk
      <3>1. ~NoFieldAsk.sent
        BY DEF NoFieldAsk
      <3> QED  BY <1>0, <2>2, <3>1
    <2>4. PICK updated : updated = [propertyAsked.field EXCEPT !.slug = s]
      OBVIOUS
    <2>5. propertyAsked.field \in Draft /\ propertyAsked.fields \in Seq(Draft)
      BY <2>3 DEF FieldAsk
    <2>6. updated \in Draft
      BY <2>4, <2>5 DEF Draft
    <2>7. PICK asked : asked = propertyAsked.fields
      OBVIOUS
    <2>8. fields' = [i \in DOMAIN asked |-> IF asked[i].id = updated.id THEN updated ELSE asked[i]]
      BY <2>1, <2>4, <2>7 DEF handleFieldChange
    <2>9. fields' \in Seq(Draft) /\ OldOnce(fields')
      BY ZenonT(40), <1>0, <2>5, <2>6, <2>7, <2>8, ReplacedDraft
    <2> QED  BY <1>0, <2>2, <2>9, NoAskOnce, DraftSteps DEF builderName
  <1> QED  BY <1>1, <1>2, <1>3, <1>4, <1>5, <1>6, <1>7, <1>8, <1>9, <1>10, <1>11

LEMMA BuilderStarts == BuilderInit => BuilderInv
  <1> SUFFICES ASSUME BuilderInit  PROVE  BuilderInv
    OBVIOUS
  <1> DEFINE a == [id |-> 1, slug |-> TwoSlugs[1], label |-> NewLabel]
             b == [id |-> 2, slug |-> TwoSlugs[2], label |-> NewLabel]
  <1>1. a \in Draft /\ b \in Draft
    <2>1. TwoSlugs \in FieldSlugs \X FieldSlugs
      <3>1. \E s, t \in FieldSlugs : s # t
        BY BuilderAssumption, Zenon
      <3>2. PICK s \in FieldSlugs, t \in FieldSlugs : s # t
        BY <3>1
      <3>3. PICK slugs \in FieldSlugs \X FieldSlugs : slugs = <<s, t>>
        OBVIOUS
      <3>4. slugs[1] # slugs[2]
        BY <3>2, <3>3
      <3> QED  BY <3>4, Zenon DEF TwoSlugs
    <2>2. TwoSlugs[1] \in FieldSlugs \cup {""} /\ TwoSlugs[2] \in FieldSlugs \cup {""}
      BY <2>1
    <2>3. NewLabel \in Labels
      BY ListLabel
    <2> QED  BY <2>2, <2>3 DEF Draft
  <1>2. a.id = 1 /\ b.id = 2
    OBVIOUS
  <1>3. /\ dbFields = IF isEditMode THEN <<a, b>> ELSE <<>>
        /\ fields = dbFields /\ originalFields = dbFields /\ existing = dbFields
    BY DEF BuilderInit
  <1> HIDE DEF a, b
  <1>4. /\ <<a, b>> \in Seq(Draft) /\ <<>> \in Seq(Draft) /\ <<>> \in Seq(ServerCall)
        /\ ToSet(<<a, b>>) = {a, b}
    <2>1. <<a, b>> \in Seq(Draft) /\ <<>> \in Seq(Draft) /\ <<>> \in Seq(ServerCall)
      BY <1>1, TupleType
    <2>2. DOMAIN <<a, b>> = {1, 2} /\ <<a, b>>[1] = a /\ <<a, b>>[2] = b
      OBVIOUS
    <2> QED  BY <2>1, <2>2 DEF ToSet
  <1>5. dbFields \in Seq(Draft) /\ ToSet(dbFields) \subseteq {a, b}
    <2>1. ToSet(<<>>) = {}
      BY <1>4, SetOfSeq
    <2> QED  BY <1>3, <1>4, <2>1
  <1>6. OldOnce(fields) /\ OldOnce(originalFields) /\ OldOnce(propertyAsked.fields) /\ OldOnce(clicked)
    <2>1. OldOnce(dbFields)
      BY <1>2, <1>5 DEF OldOnce
    <2>2. propertyAsked = NoFieldAsk /\ clicked = <<>>
      BY DEF BuilderInit
    <2>3. ToSet(clicked) = {}
      BY <1>4, <2>2, SetOfSeq
    <2> QED  BY <1>3, <2>1, <2>2, <2>3, NoAskOnce DEF OldOnce
  <1>7. /\ isEditMode \in BOOLEAN /\ slugManual \in BOOLEAN
        /\ appName \in Labels \cup {""} /\ appSlug \in AppSlugs \cup {""}
        /\ selectedId \in Nat /\ refusals \in 0..MaxRefusals
        /\ leaving = "here" /\ saving = <<>> /\ clicked = <<>> /\ found = <<>>
        /\ existingName = appName /\ dbName = appName
        /\ clickedName \in [said : Labels \cup {""}, known : Labels \cup {""}]
    <2>1. isEditMode \in BOOLEAN /\ slugManual = isEditMode
      BY DEF BuilderInit
    <2>2. appName \in Labels \cup {""} /\ appSlug \in AppSlugs \cup {""}
      BY ListLabel, BuilderAssumption DEF BuilderInit
    <2>3. selectedId \in Nat /\ refusals = 0
      BY DEF BuilderInit, NoField
    <2>4. refusals \in 0..MaxRefusals
      <3>1. MaxRefusals \in Nat
        BY BuilderAssumption, Zenon
      <3> QED  BY <2>3, <3>1
    <2> QED  BY <2>1, <2>2, <2>3, <2>4 DEF BuilderInit
  <1>8. slugAsked \in [sent : BOOLEAN, manual : BOOLEAN] /\ propertyAsked \in FieldAsk \cup {NoFieldAsk}
    BY DEF BuilderInit, NoNameAsk
  <1>9. BuilderTypeOK
    BY <1>3, <1>4, <1>5, <1>7, <1>8 DEF BuilderTypeOK
  <1>10. FieldsInv
    <2>1. originalFields # <<>> => isEditMode
      BY <1>3
    <2>2. \A id \in Originals : id = 1 \/ id = 2
      BY <1>2, <1>3, <1>5 DEF Originals, IdsOf
    <2>3. \A id \in Originals : id < 10
      BY <2>2
    <2> QED  BY <1>6, <2>1, <2>3 DEF FieldsInv
  <1>11. SaveInv
    <2>1. Todo = {}
      BY <1>4, <1>7, SetOfSeq DEF Todo
    <2> QED  BY <1>6, <1>7, <2>1 DEF SaveInv, ListInv, EditProgress, CreateDone, NameProgress, Underway
  <1> QED  BY <1>9, <1>10, <1>11 DEF BuilderInv

\* Steps of a save leave the form alone.
LEMMA SaveSteps ==
    ASSUME BuilderInv, UNCHANGED <<isEditMode, builderName, builderFields, originalFields>>,
           existing' \in Seq(Draft), dbFields' \in Seq(Draft), saving' \in Seq(ServerCall),
           clicked' \in Seq(Draft), found' \in Seq(Draft), leaving' \in {"here", "blocked", "left"},
           refusals' \in 0..MaxRefusals, {existingName', dbName'} \subseteq Labels \cup {""},
           clickedName' \in [said : Labels \cup {""}, known : Labels \cup {""}], SaveInv'
    PROVE  BuilderInv'
  <1>1. /\ isEditMode' = isEditMode /\ appName' = appName /\ appSlug' = appSlug /\ slugManual' = slugManual
        /\ slugAsked' = slugAsked /\ fields' = fields /\ selectedId' = selectedId
        /\ propertyAsked' = propertyAsked /\ originalFields' = originalFields
    BY DEF builderName, builderFields
  <1>2. BuilderTypeOK'
    BY <1>1 DEF BuilderInv, BuilderTypeOK
  <1>3. Originals' = Originals
    BY <1>1 DEF Originals, IdsOf
  <1>4. FieldsInv'
    <2>1. OldOnce(fields)' /\ OldOnce(propertyAsked.fields)' /\ OldOnce(originalFields)'
      BY <1>1, <1>3 DEF BuilderInv, FieldsInv, OldOnce
    <2>2. (originalFields # <<>> => isEditMode)' /\ (\A id \in Originals : id < 10)'
      <3>1. (originalFields # <<>> => isEditMode) /\ \A id \in Originals : id < 10
        BY DEF BuilderInv, FieldsInv
      <3>2. isEditMode' = isEditMode /\ isEditMode \in BOOLEAN
        BY <1>1 DEF BuilderInv, BuilderTypeOK
      <3>3. CASE isEditMode = TRUE
        BY <1>1, <1>3, <3>1, <3>2, <3>3
      <3>4. CASE isEditMode = FALSE
        BY <1>1, <1>3, <3>1, <3>2, <3>4
      <3> QED  BY <3>2, <3>3, <3>4
    <2> QED  BY <2>1, <2>2 DEF FieldsInv
  <1> QED  BY <1>2, <1>4 DEF BuilderInv

\* What a save has to do, made from the form.
LEMMA CallsType ==
    ASSUME NEW op \in {"create", "delete", "add", "update"}, NEW list \in Seq(Draft)
    PROVE  /\ SaveCalls(op, list) \in Seq(ServerCall)
           /\ ToSet(SaveCalls(op, list)) = {Call(op, d) : d \in ToSet(list)}
  <1>1. DOMAIN list = 1..Len(list) /\ Len(list) \in Nat /\ \A i \in 1..Len(list) : list[i] \in Draft
    BY LenProperties, ElementOfSeq
  <1>2. \A i \in 1..Len(list) : Call(op, list[i]) \in ServerCall
    BY <1>1 DEF Call, ServerCall
  <1>3. SaveCalls(op, list) \in Seq(ServerCall)
    <2>1. SaveCalls(op, list) = [i \in 1..Len(list) |-> Call(op, list[i])]
      BY <1>1 DEF SaveCalls
    <2> QED  BY <1>1, <1>2, <2>1
  <1>4. ToSet(SaveCalls(op, list)) = {Call(op, d) : d \in ToSet(list)}
    <2>1. /\ DOMAIN SaveCalls(op, list) = DOMAIN list
          /\ \A i \in DOMAIN list : SaveCalls(op, list)[i] = Call(op, list[i])
      BY DEF SaveCalls
    <2> HIDE DEF SaveCalls, Call
    <2> QED  BY <2>1 DEF ToSet
  <1> QED  BY <1>3, <1>4

LEMMA SetOfOne ==
    ASSUME NEW S, NEW e \in S
    PROVE  <<e>> \in Seq(S) /\ ToSet(<<e>>) = {e} /\ <<>> \in Seq(S) /\ ToSet(<<>>) = {}
  <1>1. <<e>> \in Seq(S) /\ <<>> \in Seq(S)
    OBVIOUS
  <1>2. DOMAIN <<e>> = {1} /\ <<e>>[1] = e
    OBVIOUS
  <1> QED  BY <1>1, <1>2, SetOfSeq DEF ToSet

LEMMA NameCallType ==
    ASSUME BuilderInv, appName # "", NEW op \in Naming
    PROVE  NameCall(op) \in ServerCall /\ NameCall(op).op = op /\ NameCall(op).draft.label = appName
  <1>1. appName \in Labels
    BY DEF BuilderInv, BuilderTypeOK
  <1>2. [id |-> NoField, slug |-> "", label |-> appName] \in Draft
    BY <1>1 DEF Draft, NoField
  <1> QED  BY <1>2 DEF NameCall, Call, ServerCall, Naming

FourCalls(a, b, c, d) == ((a \o b) \o c) \o d

AllIn(a, b, c, d) == ToSet(a) \cup ToSet(b) \cup ToSet(c) \cup ToSet(d)

LEMMA SetOfFour ==
    ASSUME NEW a \in Seq(ServerCall), NEW b \in Seq(ServerCall),
           NEW c \in Seq(ServerCall), NEW d \in Seq(ServerCall)
    PROVE  /\ FourCalls(a, b, c, d) \in Seq(ServerCall)
           /\ ToSet(FourCalls(a, b, c, d)) = AllIn(a, b, c, d)
  <1>1. a \o b \in Seq(ServerCall) /\ ToSet(a \o b) = ToSet(a) \cup ToSet(b)
    BY SetOfConcat
  <1>2. PICK ab \in Seq(ServerCall) : ab = a \o b
    BY <1>1
  <1>3. ab \o c \in Seq(ServerCall) /\ ToSet(ab \o c) = ToSet(ab) \cup ToSet(c)
    BY SetOfConcat
  <1>4. PICK abc \in Seq(ServerCall) : abc = ab \o c
    BY <1>3
  <1>5. abc \o d \in Seq(ServerCall) /\ ToSet(abc \o d) = ToSet(abc) \cup ToSet(d)
    BY SetOfConcat
  <1>6. FourCalls(a, b, c, d) = abc \o d
    BY <1>2, <1>4 DEF FourCalls
  <1> QED  BY <1>1, <1>2, <1>3, <1>4, <1>5, <1>6 DEF AllIn

LEMMA EditCallsType ==
    ASSUME BuilderInv, appName # ""
    PROVE  /\ editCalls \in Seq(ServerCall)
           /\ ToSet(editCalls) =
                 (IF appName # existingName THEN {NameCall("rename")} ELSE {})
                 \cup {Call("delete", d) : d \in {o \in ToSet(originalFields) : o.id \notin IdsOf(fields)}}
                 \cup {Call("add", d) : d \in {f \in ToSet(fields) : f.id \notin Originals}}
                 \cup {Call("update", d) : d \in
                         {f \in ToSet(fields) : f.id \in Originals /\ f.label # Original(f.id).label}}
  <1>0. fields \in Seq(Draft) /\ originalFields \in Seq(Draft)
    BY DEF BuilderInv, BuilderTypeOK
  <1>1. /\ Deletions \in Seq(Draft)
        /\ ToSet(Deletions) = {o \in ToSet(originalFields) : o.id \notin IdsOf(fields)}
    <2> DEFINE spots == {i \in DOMAIN originalFields : originalFields[i].id \notin IdsOf(fields)}
    <2>1. ElementsAt(originalFields, spots) \in Seq(Draft)
          /\ ToSet(ElementsAt(originalFields, spots)) = {originalFields[i] : i \in spots}
      BY <1>0, SetOfPassed
    <2>2. Deletions = ElementsAt(originalFields, spots)
      BY DEF Deletions, Filter
    <2>3. {originalFields[i] : i \in spots} = {o \in ToSet(originalFields) : o.id \notin IdsOf(fields)}
      BY DEF ToSet
    <2> QED  BY <2>1, <2>2, <2>3
  <1>2. /\ Additions \in Seq(Draft)
        /\ ToSet(Additions) = {f \in ToSet(fields) : f.id \notin Originals}
    <2> DEFINE spots == {i \in DOMAIN fields : fields[i].id \notin Originals}
    <2>1. ElementsAt(fields, spots) \in Seq(Draft)
          /\ ToSet(ElementsAt(fields, spots)) = {fields[i] : i \in spots}
      BY <1>0, SetOfPassed
    <2>2. Additions = ElementsAt(fields, spots)
      BY DEF Additions, Filter
    <2>3. {fields[i] : i \in spots} = {f \in ToSet(fields) : f.id \notin Originals}
      BY DEF ToSet
    <2> QED  BY <2>1, <2>2, <2>3
  <1>3. /\ Updates \in Seq(Draft)
        /\ ToSet(Updates) = {f \in ToSet(fields) : f.id \in Originals /\ f.label # Original(f.id).label}
    <2> DEFINE spots == {i \in DOMAIN fields : fields[i].id \in Originals
                                               /\ fields[i].label # Original(fields[i].id).label}
    <2>1. ElementsAt(fields, spots) \in Seq(Draft)
          /\ ToSet(ElementsAt(fields, spots)) = {fields[i] : i \in spots}
      BY <1>0, SetOfPassed
    <2>2. Updates = ElementsAt(fields, spots)
      BY DEF Updates, Filter
    <2>3. {fields[i] : i \in spots}
            = {f \in ToSet(fields) : f.id \in Originals /\ f.label # Original(f.id).label}
      BY DEF ToSet
    <2> QED  BY <2>1, <2>2, <2>3
  <1> DEFINE del == SaveCalls("delete", Deletions)
             new == SaveCalls("add", Additions)
             upd == SaveCalls("update", Updates)
             ren == Renaming
  <1>n. ren \in Seq(ServerCall) /\ ToSet(ren) = IF appName # existingName THEN {NameCall("rename")} ELSE {}
    <2>1. NameCall("rename") \in ServerCall
      BY NameCallType DEF Naming
    <2>2. PICK c \in ServerCall : c = NameCall("rename")
      BY <2>1
    <2>3. <<c>> \in Seq(ServerCall) /\ ToSet(<<c>>) = {c} /\ <<>> \in Seq(ServerCall) /\ ToSet(<<>>) = {}
      BY SetOfOne
    <2> QED  BY <2>2, <2>3 DEF Renaming
  <1>4. /\ del \in Seq(ServerCall) /\ ToSet(del) = {Call("delete", d) : d \in ToSet(Deletions)}
        /\ new \in Seq(ServerCall) /\ ToSet(new) = {Call("add", d) : d \in ToSet(Additions)}
        /\ upd \in Seq(ServerCall) /\ ToSet(upd) = {Call("update", d) : d \in ToSet(Updates)}
    BY <1>1, <1>2, <1>3, CallsType
  <1>5. editCalls = FourCalls(ren, del, new, upd)
    BY DEF editCalls, FourCalls
  <1> HIDE DEF del, new, upd, ren
  <1>6. ren \in Seq(ServerCall) /\ del \in Seq(ServerCall) /\ new \in Seq(ServerCall) /\ upd \in Seq(ServerCall)
    BY <1>n, <1>4
  <1>9. /\ editCalls \in Seq(ServerCall)
        /\ ToSet(editCalls) = ToSet(ren) \cup ToSet(del) \cup ToSet(new) \cup ToSet(upd)
    <2>1. editCalls \in Seq(ServerCall) /\ ToSet(editCalls) = AllIn(ren, del, new, upd)
      BY <1>5, <1>6, SetOfFour
    <2> QED  BY <2>1, Zenon DEF AllIn
  <1> QED  BY <1>n, <1>1, <1>2, <1>3, <1>4, <1>9

LEMMA WithNewId ==
    ASSUME NEW d \in Draft, NEW n \in Nat
    PROVE  /\ [d EXCEPT !.id = n] \in Draft
           /\ [d EXCEPT !.id = n].id = n
           /\ [d EXCEPT !.id = n].slug = d.slug /\ [d EXCEPT !.id = n].label = d.label
  <1>1. d = [id |-> d.id, slug |-> d.slug, label |-> d.label]
    BY DEF Draft
  <1>2. [d EXCEPT !.id = n] = [id |-> n, slug |-> d.slug, label |-> d.label]
    BY <1>1
  <1>3. [id |-> n, slug |-> d.slug, label |-> d.label] \in Draft
    BY DEF Draft
  <1> QED  BY <1>2, <1>3

\* A call that was applied leaves fields.
LEMMA AppliedType ==
    ASSUME BuilderInv, NEW c \in ServerCall
    PROVE  Applied(c) \in Seq(Draft)
  <1>0. clicked \in Seq(Draft) /\ dbFields \in Seq(Draft) /\ c.draft \in Draft
    BY DEF BuilderInv, BuilderTypeOK, ServerCall
  <1>1. /\ DOMAIN clicked = 1..Len(clicked) /\ Len(clicked) \in Nat
        /\ \A i \in 1..Len(clicked) : clicked[i] \in Draft
    BY <1>0, LenProperties, ElementOfSeq
  <1>2. /\ DOMAIN dbFields = 1..Len(dbFields) /\ Len(dbFields) \in Nat
        /\ \A i \in 1..Len(dbFields) : dbFields[i] \in Draft
    BY <1>0, LenProperties, ElementOfSeq
  <1>3. CASE c.op = "create"
    <2>1. Applied(c) = [i \in 1..Len(clicked) |-> [clicked[i] EXCEPT !.id = 100 + i]]
      BY <1>1, <1>3 DEF Applied
    <2>2. ASSUME NEW i \in 1..Len(clicked)  PROVE  [clicked[i] EXCEPT !.id = 100 + i] \in Draft
      <3>1. PICK n \in Nat : n = 100 + i
        OBVIOUS
      <3>2. [clicked[i] EXCEPT !.id = n] \in Draft
        BY <1>1, WithNewId
      <3> QED  BY <3>1, <3>2
    <2> QED  BY <1>1, <2>1, <2>2
  <1>4. CASE c.op = "delete"
    <2> DEFINE spots == {i \in DOMAIN dbFields : dbFields[i].id # c.draft.id}
    <2>1. ElementsAt(dbFields, spots) \in Seq(Draft)
      BY <1>0, SetOfPassed
    <2>2. Applied(c) = ElementsAt(dbFields, spots)
      BY <1>4 DEF Applied, Filter
    <2> QED  BY <2>1, <2>2
  <1>5. CASE c.op = "add"
    <2>1. PICK d : d = [c.draft EXCEPT !.id = 100 + c.draft.id]
      OBVIOUS
    <2>2. d \in Draft
      <3>1. c.draft.id \in Nat
        BY <1>0 DEF Draft
      <3>2. PICK n \in Nat : n = 100 + c.draft.id
        BY <3>1
      <3>3. [c.draft EXCEPT !.id = n] \in Draft
        BY <1>0, WithNewId
      <3> QED  BY <2>1, <3>2, <3>3
    <2>3. Applied(c) = Append(dbFields, d)
      BY <1>5, <2>1 DEF Applied
    <2> QED  BY <1>0, <2>2, <2>3, AppendProperties
  <1>6. CASE c.op = "update"
    <2>1. Applied(c) = [i \in 1..Len(dbFields) |-> IF dbFields[i].id = c.draft.id
                          THEN [dbFields[i] EXCEPT !.label = c.draft.label] ELSE dbFields[i]]
      BY <1>2, <1>6 DEF Applied
    <2>2. \A i \in 1..Len(dbFields) : [dbFields[i] EXCEPT !.label = c.draft.label] \in Draft
      BY <1>0, <1>2 DEF Draft
    <2> QED  BY <1>2, <2>1, <2>2
  <1>7. CASE c.op = "rename"
    BY <1>0, <1>7 DEF Applied
  <1> QED  BY <1>3, <1>4, <1>5, <1>6, <1>7 DEF ServerCall

\* Originals, read off the fields the page started from.
LEMMA OriginalField ==
    ASSUME BuilderInv, NEW e \in ToSet(originalFields)
    PROVE  e.id \in Originals /\ Original(e.id) = e
  <1>1. originalFields \in Seq(Draft) /\ OldOnce(originalFields)
    BY DEF BuilderInv, BuilderTypeOK, FieldsInv
  <1>2. e.id \in Originals
    BY DEF Originals, IdsOf
  <1>3. \E i \in DOMAIN originalFields : originalFields[i].id = e.id
    BY <1>1, SetOfSeq
  <1>4. \A i \in DOMAIN originalFields : originalFields[i] \in ToSet(originalFields)
    BY <1>1, SetOfSeq
  <1>5. \A i \in DOMAIN originalFields : originalFields[i].id = e.id => originalFields[i] = e
    BY <1>1, <1>2, <1>4 DEF OldOnce
  <1>6. PICK k : k = CHOOSE i \in DOMAIN originalFields : originalFields[i].id = e.id
    OBVIOUS
  <1>7. k \in DOMAIN originalFields /\ originalFields[k].id = e.id
    BY <1>3, <1>6, Zenon
  <1>8. Original(e.id) = originalFields[k]
    BY <1>6, Zenon DEF Original
  <1> QED  BY <1>2, <1>5, <1>7, <1>8

LEMMA SaveStarts ==
    ASSUME BuilderInv, saveApp \/ handleEditSave
    PROVE  BuilderInv'
  <1>0. /\ fields \in Seq(Draft) /\ dbFields \in Seq(Draft) /\ existing \in Seq(Draft)
        /\ originalFields \in Seq(Draft) /\ appName \in Labels \cup {""} /\ OldOnce(fields)
        /\ leaving \in {"here", "blocked", "left"} /\ refusals \in 0..MaxRefusals
        /\ {existingName, dbName} \subseteq Labels \cup {""}
    BY DEF BuilderInv, BuilderTypeOK, FieldsInv
  <1>n. ASSUME clickedName' = [said |-> appName, known |-> existingName]
        PROVE  /\ clickedName' \in [said : Labels \cup {""}, known : Labels \cup {""}]
               /\ clickedName'.said = appName /\ clickedName'.known = existingName
    BY <1>0, <1>n
  <1>1. CASE saveApp
    <2> DEFINE create == NameCall("create")
    <2>1. /\ ~isEditMode /\ leaving = "here" /\ appName # "" /\ saving' = <<create>>
          /\ clicked' = fields /\ found' = dbFields /\ clickedName' = [said |-> appName, known |-> existingName]
          /\ UNCHANGED <<isEditMode, builderName, builderFields, originalFields, existing, existingName,
                         dbFields, dbName, leaving, refusals>>
      BY <1>1 DEF saveApp, BuilderAct, BuilderComplete, ClickSave, builderCached, builderStored
    <2>2. create \in ServerCall /\ create.op = "create" /\ create.draft.label = appName
      BY <2>1, NameCallType DEF Naming
    <2> HIDE DEF create
    <2>3. saving' \in Seq(ServerCall) /\ ToSet(saving') = {create}
      <3>1. <<create>> \in Seq(ServerCall)
        BY <2>2, TupleType
      <3>2. DOMAIN <<create>> = {1} /\ <<create>>[1] = create
        OBVIOUS
      <3> QED  BY <2>1, <3>1, <3>2 DEF ToSet
    <2>4. (\A c \in Todo : c.op = "create")' /\ ~isEditMode' /\ leaving' = "here"
      BY <2>1, <2>2, <2>3 DEF Todo
    <2>5. OldOnce(clicked)'
      <3>1. Originals' = Originals
        BY <2>1 DEF Originals, IdsOf
      <3> QED  BY <1>0, <2>1, <3>1 DEF OldOnce
    <2>6. ListInv'
      BY <2>4, <2>5 DEF ListInv
    <2>7. EditProgress' /\ CreateDone'
      BY <2>4 DEF EditProgress, CreateDone
    <2>8. NameProgress'
      BY <1>n, <2>1, <2>2, <2>3 DEF NameProgress, Todo, Naming
    <2> QED  BY <1>0, <1>n, <2>1, <2>3, <2>6, <2>7, <2>8, SaveSteps DEF SaveInv
  <1>2. CASE handleEditSave
    <2>1. /\ isEditMode /\ leaving = "here" /\ saving' = editCalls /\ appName # ""
          /\ clicked' = fields /\ found' = dbFields /\ clickedName' = [said |-> appName, known |-> existingName]
          /\ UNCHANGED <<isEditMode, builderName, builderFields, originalFields, existing, existingName,
                         dbFields, dbName, refusals>>
      BY <1>2 DEF handleEditSave, BuilderAct, BuilderComplete, ClickSave, builderCached, builderStored
    <2>2. leaving' \in {"here", "blocked", "left"} /\ (leaving' # "here" => saving' = <<>>)
      BY <1>2, <2>1 DEF handleEditSave, LeaveBuilder
    <2>3. /\ saving' \in Seq(ServerCall)
          /\ Todo' = (IF appName # existingName THEN {NameCall("rename")} ELSE {})
                     \cup {Call("delete", d) : d \in {o \in ToSet(originalFields) : o.id \notin IdsOf(fields)}}
                     \cup {Call("add", d) : d \in {f \in ToSet(fields) : f.id \notin Originals}}
                     \cup {Call("update", d) : d \in
                             {f \in ToSet(fields) : f.id \in Originals /\ f.label # Original(f.id).label}}
      BY <2>1, EditCallsType DEF Todo
    <2>4. /\ isEditMode' /\ Originals' = Originals /\ dbFields' = dbFields /\ originalFields' = originalFields
      <3>1. Originals' = Originals
        BY <2>1 DEF Originals, IdsOf
      <3>2. isEditMode'
        BY <2>1, Zenon
      <3> QED  BY <2>1, <3>1, <3>2
    <2>5. /\ \A d \in ToSet(originalFields) : d.id \notin IdsOf(fields) => Call("delete", d) \in Todo'
          /\ \A d \in ToSet(fields) : d.id \notin Originals => Call("add", d) \in Todo'
          /\ \A d \in ToSet(fields) :
                d.id \in Originals /\ d.label # Original(d.id).label => Call("update", d) \in Todo'
          /\ appName # existingName => NameCall("rename") \in Todo'
          /\ \A c \in Todo' :
                \/ c = NameCall("rename")
                \/ c.op = "delete" /\ c.draft \in ToSet(originalFields) /\ c.draft.id \notin IdsOf(fields)
                \/ c.op = "add" /\ c.draft \in ToSet(fields) /\ c.draft.id \notin Originals
                \/ c.op = "update" /\ c.draft \in ToSet(fields) /\ c.draft.id \in Originals
      <3>1. \A op, d : Call(op, d).op = op /\ Call(op, d).draft = d
        BY DEF Call
      <3> HIDE DEF Call, NameCall
      <3> QED  BY <2>3, <3>1
    <2>n. NameCall("rename").op = "rename" /\ NameCall("rename").draft.label = appName
      BY <2>1, NameCallType DEF Naming
    <2>9. NameProgress'
      <3>1. ASSUME NEW c \in Todo', c.op \in Naming  PROVE c.draft.label = appName
        BY <2>5, <2>n, <3>1 DEF Naming
      <3>2. appName # existingName => \E c \in Todo' : c.op \in Naming
        BY <2>5, <2>n DEF Naming
      <3> QED  BY <1>n, <2>1, <3>1, <3>2 DEF NameProgress
    <2>6. ListInv'
      <3>1. OldOnce(clicked)'
        BY <1>0, <2>1, <2>4 DEF OldOnce
      <3>2. \A c \in Todo' : c.op # "create"
        BY <2>5, <2>n
      <3>3. \A c \in Todo' :
              /\ c.op = "delete" => c.draft.id \in Originals \ IdsOf(fields)
              /\ c.op = "add" => c.draft \in ToSet(fields) /\ c.draft.id \notin Originals
              /\ c.op = "update" => c.draft \in ToSet(fields) /\ c.draft.id \in Originals
        BY <2>5, <2>n, OriginalField
      <3>4. IdsOf(clicked)' = IdsOf(fields) /\ ToSet(clicked') = ToSet(fields)
        BY <2>1 DEF IdsOf
      <3>5. (\A c \in Todo : (c.op = "create") <=> ~isEditMode)'
        BY <2>4, <3>2
      <3> HIDE DEF OldOnce
      <3> QED  BY <2>2, <2>4, <3>1, <3>3, <3>4, <3>5 DEF ListInv
    <2>7. EditProgress'
      <3>1. ASSUME NEW id \in Originals \cap IdsOf(dbFields), id \notin IdsOf(fields)
            PROVE  id \in ToDelete'
        <4>1. PICK o \in ToSet(originalFields) : o.id = id
          BY DEF Originals, IdsOf
        <4>2. Call("delete", o) \in Todo' /\ Call("delete", o).op = "delete" /\ Call("delete", o).draft = o
          BY <2>5, <3>1, <4>1 DEF Call
        <4> QED  BY <4>1, <4>2 DEF ToDelete
      <3>2. ASSUME NEW d \in ToSet(fields), d.id \notin Originals
            PROVE  <<d.slug, d.label>> \in ToAdd'
        <4>1. Call("add", d) \in Todo' /\ Call("add", d).op = "add" /\ Call("add", d).draft = d
          BY <2>5, <3>2 DEF Call
        <4> QED  BY <4>1 DEF ToAdd
      <3>3. Added(fields) \subseteq ToAdd'
        BY <3>2 DEF Added
      <3>4. ASSUME dbFields = originalFields
            PROVE  /\ Added(dbFields) = {} /\ IdsOf(dbFields) = Originals
                   /\ \A d \in ToSet(fields), e \in ToSet(dbFields) :
                        d.id = e.id /\ d.id \in Originals => d.label = e.label \/ d.id \in ToUpdate'
        <4>1. Added(dbFields) = {} /\ IdsOf(dbFields) = Originals
          BY <3>4 DEF Added, Originals, IdsOf
        <4>2. ASSUME NEW d \in ToSet(fields), NEW e \in ToSet(dbFields), d.id = e.id, d.id \in Originals,
                     d.label # e.label
              PROVE  d.id \in ToUpdate'
          <5>1. Original(d.id) = e
            BY <3>4, <4>2, OriginalField
          <5>2. Call("update", d) \in Todo' /\ Call("update", d).op = "update" /\ Call("update", d).draft = d
            BY <2>5, <4>2, <5>1 DEF Call
          <5> QED  BY <5>2 DEF ToUpdate
        <4> QED  BY <4>1, <4>2
      <3>5. /\ Added(clicked)' = Added(fields) /\ Added(dbFields)' = Added(dbFields)
            /\ IdsOf(clicked)' = IdsOf(fields) /\ IdsOf(dbFields)' = IdsOf(dbFields)
            /\ ToSet(clicked') = ToSet(fields) /\ ToSet(dbFields') = ToSet(dbFields)
            /\ found' = dbFields
        BY <2>1, <2>4 DEF Added, IdsOf
      <3> QED  BY <2>4, <3>1, <3>3, <3>4, <3>5 DEF EditProgress
    <2>8. CreateDone'
      BY <2>4 DEF CreateDone
    <2> QED  BY <1>0, <1>n, <2>1, <2>2, <2>3, <2>6, <2>7, <2>8, <2>9, SaveSteps DEF SaveInv
  <1> QED  BY <1>1, <1>2

\* What the database holds once a call was applied.
LEMMA AppliedSet ==
    ASSUME BuilderInv, NEW c \in ServerCall
    PROVE  /\ c.op = "rename" => Applied(c) = dbFields
           /\ c.op = "create" => \A pair : (\E d \in ToSet(Applied(c)) : pair = <<d.slug, d.label>>)
                                           <=> (\E d \in ToSet(clicked) : pair = <<d.slug, d.label>>)
           /\ c.op = "delete" => ToSet(Applied(c)) = {d \in ToSet(dbFields) : d.id # c.draft.id}
           /\ c.op = "add" => \E d \in Draft : /\ d.id >= 100 /\ d.slug = c.draft.slug /\ d.label = c.draft.label
                                              /\ ToSet(Applied(c)) = ToSet(dbFields) \cup {d}
           /\ c.op = "update" =>
                 /\ \A d \in ToSet(dbFields) : \E e \in ToSet(Applied(c)) :
                       /\ e.id = d.id /\ e.slug = d.slug
                       /\ e.label = IF d.id = c.draft.id THEN c.draft.label ELSE d.label
                 /\ \A e \in ToSet(Applied(c)) : \E d \in ToSet(dbFields) :
                       /\ e.id = d.id /\ e.slug = d.slug
                       /\ e.label = IF d.id = c.draft.id THEN c.draft.label ELSE d.label
  <1>0. clicked \in Seq(Draft) /\ dbFields \in Seq(Draft) /\ c.draft \in Draft
    BY DEF BuilderInv, BuilderTypeOK, ServerCall
  <1>1. /\ DOMAIN clicked = 1..Len(clicked) /\ Len(clicked) \in Nat
        /\ \A i \in 1..Len(clicked) : clicked[i] \in Draft
    BY <1>0, LenProperties, ElementOfSeq
  <1>2. /\ DOMAIN dbFields = 1..Len(dbFields) /\ Len(dbFields) \in Nat
        /\ \A i \in 1..Len(dbFields) : dbFields[i] \in Draft
    BY <1>0, LenProperties, ElementOfSeq
  <1>3. CASE c.op = "create"
    <2>1. Applied(c) = [i \in DOMAIN clicked |-> [clicked[i] EXCEPT !.id = 100 + i]]
      BY <1>3 DEF Applied
    <2>2. ASSUME NEW i \in DOMAIN clicked
          PROVE  Applied(c)[i].slug = clicked[i].slug /\ Applied(c)[i].label = clicked[i].label
      <3>1. PICK n \in Nat : n = 100 + i
        BY <1>1
      <3>2. Applied(c)[i] = [clicked[i] EXCEPT !.id = n]
        BY <2>1, <3>1
      <3>3. clicked[i] \in Draft
        BY <1>1
      <3> QED  BY <3>2, <3>3, WithNewId
    <2>3. DOMAIN Applied(c) = DOMAIN clicked
      BY <2>1
    <2>4. PICK made : made = Applied(c)
      OBVIOUS
    <2>5. /\ DOMAIN made = DOMAIN clicked
          /\ \A i \in DOMAIN clicked : made[i].slug = clicked[i].slug /\ made[i].label = clicked[i].label
      BY <2>2, <2>3, <2>4
    <2>6. \A pair : (\E d \in ToSet(made) : pair = <<d.slug, d.label>>)
                     <=> (\E d \in ToSet(clicked) : pair = <<d.slug, d.label>>)
      <3>1. ASSUME NEW d \in ToSet(made)
            PROVE  \E e \in ToSet(clicked) : <<d.slug, d.label>> = <<e.slug, e.label>>
        BY <2>5 DEF ToSet
      <3>2. ASSUME NEW d \in ToSet(clicked)
            PROVE  \E e \in ToSet(made) : <<d.slug, d.label>> = <<e.slug, e.label>>
        BY <2>5 DEF ToSet
      <3> QED  BY <3>1, <3>2
    <2> QED  BY <1>3, <2>4, <2>6
  <1>4. CASE c.op = "delete"
    <2> DEFINE spots == {i \in DOMAIN dbFields : dbFields[i].id # c.draft.id}
    <2>1. ToSet(ElementsAt(dbFields, spots)) = {dbFields[i] : i \in spots}
      BY <1>0, SetOfPassed
    <2>2. Applied(c) = ElementsAt(dbFields, spots)
      BY <1>4 DEF Applied, Filter
    <2>3. {dbFields[i] : i \in spots} = {d \in ToSet(dbFields) : d.id # c.draft.id}
      BY DEF ToSet
    <2> QED  BY <1>4, <2>1, <2>2, <2>3
  <1>5. CASE c.op = "add"
    <2>1. c.draft.id \in Nat
      BY <1>0 DEF Draft
    <2>2. PICK n \in Nat : n = 100 + c.draft.id /\ n >= 100
      BY <2>1
    <2>3. PICK d \in Draft : /\ d = [c.draft EXCEPT !.id = n]
                             /\ d.id = n /\ d.slug = c.draft.slug /\ d.label = c.draft.label
      BY <1>0, WithNewId
    <2>4. Applied(c) = Append(dbFields, d)
      BY <1>5, <2>2, <2>3 DEF Applied
    <2>5. ToSet(Append(dbFields, d)) = ToSet(dbFields) \cup {d}
      <3>1. /\ <<d>> \in Seq(Draft) /\ DOMAIN <<d>> = {1} /\ <<d>>[1] = d
        OBVIOUS
      <3>2. ToSet(<<d>>) = {d}
        BY <3>1 DEF ToSet
      <3>3. Append(dbFields, d) = dbFields \o <<d>>
        BY <1>0, AppendIsConcat
      <3>4. PICK last \in Seq(Draft) : last = <<d>> /\ ToSet(last) = {d}
        BY <3>1, <3>2
      <3>5. ToSet(dbFields \o last) = ToSet(dbFields) \cup ToSet(last)
        BY <1>0, SetOfConcat
      <3> QED  BY <3>3, <3>4, <3>5
    <2> QED  BY ZenonT(40), <1>5, <2>2, <2>3, <2>4, <2>5
  <1>6. CASE c.op = "update"
    <2>1. Applied(c) = [i \in DOMAIN dbFields |-> IF dbFields[i].id = c.draft.id
                          THEN [dbFields[i] EXCEPT !.label = c.draft.label] ELSE dbFields[i]]
      BY <1>6 DEF Applied
    <2>2. PICK made : made = Applied(c)
      OBVIOUS
    <2>3. DOMAIN made = DOMAIN dbFields
      BY <2>1, <2>2
    <2>4. ASSUME NEW i \in DOMAIN dbFields
          PROVE  /\ made[i].id = dbFields[i].id /\ made[i].slug = dbFields[i].slug
                 /\ made[i].label = IF dbFields[i].id = c.draft.id THEN c.draft.label ELSE dbFields[i].label
      <3>1. dbFields[i] \in Draft
        BY <1>2
      <3>2. made[i] = IF dbFields[i].id = c.draft.id
                     THEN [dbFields[i] EXCEPT !.label = c.draft.label] ELSE dbFields[i]
        BY <2>1, <2>2
      <3> QED  BY <3>1, <3>2 DEF Draft
    <2>5. \A d \in ToSet(dbFields) : \E e \in ToSet(made) :
             /\ e.id = d.id /\ e.slug = d.slug
             /\ e.label = IF d.id = c.draft.id THEN c.draft.label ELSE d.label
      BY <2>3, <2>4 DEF ToSet
    <2>6. \A e \in ToSet(made) : \E d \in ToSet(dbFields) :
             /\ e.id = d.id /\ e.slug = d.slug
             /\ e.label = IF d.id = c.draft.id THEN c.draft.label ELSE d.label
      BY <2>3, <2>4 DEF ToSet
    <2> QED  BY <1>6, <2>2, <2>5, <2>6
  <1>7. CASE c.op = "rename"
    BY <1>7 DEF Applied
  <1> QED  BY <1>3, <1>4, <1>5, <1>6, <1>7 DEF ServerCall

\* A step of a save that keeps the form and what was clicked.
LEMMA CallDone ==
    ASSUME BuilderInv, CallSucceeds
    PROVE  BuilderInv'
  <1>0. /\ dbFields \in Seq(Draft) /\ existing \in Seq(Draft) /\ clicked \in Seq(Draft)
        /\ found \in Seq(Draft) /\ saving \in Seq(ServerCall) /\ saving # <<>>
        /\ leaving \in {"here", "blocked", "left"} /\ refusals \in 0..MaxRefusals
        /\ {existingName, dbName} \subseteq Labels \cup {""}
        /\ clickedName \in [said : Labels \cup {""}, known : Labels \cup {""}]
    BY DEF BuilderInv, BuilderTypeOK, CallSucceeds
  <1>1. PICK c \in ServerCall : c = Head(saving) /\ Tail(saving) \in Seq(ServerCall) /\ Todo = {c} \cup ToSet(Tail(saving))
    BY <1>0, SetOfTail DEF Todo
  <1>2. /\ dbFields' = Applied(c) /\ saving' = Tail(saving) /\ Todo' = ToSet(Tail(saving))
        /\ UNCHANGED <<isEditMode, builderName, builderFields, originalFields, existing, existingName,
                       clicked, clickedName, found, refusals>>
        /\ dbName' = LabelAfter(c)
    BY <1>1 DEF CallSucceeds, ServerApplies, Todo, builderCached, builderClick
  <1>3. ListInv /\ EditProgress /\ CreateDone /\ NameProgress /\ c \in Todo /\ leaving = "here"
    BY <1>0, <1>1 DEF BuilderInv, SaveInv, ListInv
  <1>4. leaving' \in {"here", "blocked", "left"} /\ (leaving' # "here" => saving' = <<>>)
    <2>1. CASE Tail(saving) = <<>>
      BY <1>2, <2>1 DEF CallSucceeds, LeaveBuilder
    <2>2. CASE Tail(saving) # <<>>
      BY <1>3, <2>2 DEF CallSucceeds
    <2> QED  BY <2>1, <2>2
  <1>5. /\ Originals' = Originals /\ clicked' = clicked /\ found' = found /\ originalFields' = originalFields
        /\ ToSet(clicked') = ToSet(clicked) /\ IdsOf(clicked)' = IdsOf(clicked) /\ Added(clicked)' = Added(clicked)
    BY <1>2 DEF Originals, IdsOf, Added
  <1>6. isEditMode' <=> isEditMode
    <2>1. isEditMode' = isEditMode /\ isEditMode \in BOOLEAN
      BY <1>2 DEF BuilderInv, BuilderTypeOK
    <2>2. CASE isEditMode = TRUE
      BY <2>1, <2>2
    <2>3. CASE isEditMode = FALSE
      BY <2>1, <2>3
    <2> QED  BY <2>1, <2>2, <2>3
  <1>7. ListInv'
    <2>1. OldOnce(clicked)'
      BY <1>3, <1>5 DEF ListInv, OldOnce
    <2>2. \A t \in Todo' : t \in Todo
      BY <1>1, <1>2
    <2>3. (\A t \in Todo : (t.op = "create") <=> ~isEditMode)'
      BY <1>3, <1>6, <2>2 DEF ListInv
    <2> HIDE DEF OldOnce
    <2> QED  BY <1>3, <1>4, <1>5, <2>1, <2>2, <2>3 DEF ListInv
  <1>8. CreateDone'
    <2>1. CASE isEditMode
      BY <1>6, <2>1 DEF CreateDone
    <2>2. CASE ~isEditMode
      <3>1. c.op = "create"
        BY <1>3, <2>2 DEF ListInv
      <3>2. Originals = {}
        <4>1. originalFields = <<>> /\ originalFields \in Seq(Draft)
          BY <2>2 DEF BuilderInv, BuilderTypeOK, FieldsInv
        <4>2. ToSet(originalFields) = {}
          BY <4>1, SetOfSeq
        <4> QED  BY <4>2 DEF Originals, IdsOf
      <3>3. \A pair : (\E d \in ToSet(dbFields') : pair = <<d.slug, d.label>>)
                      <=> (\E d \in ToSet(clicked) : pair = <<d.slug, d.label>>)
        BY <1>2, <3>1, AppliedSet
      <3>4. Added(dbFields)' = Added(clicked)'
        BY <1>5, <3>2, <3>3 DEF Added
      <3> QED  BY <3>4 DEF CreateDone
    <2> QED  BY <2>1, <2>2
  <1>9. EditProgress'
    <2>0. CASE ~isEditMode
      BY <1>6, <2>0 DEF EditProgress
    <2>1. CASE isEditMode
      <3>0. /\ Originals \cap IdsOf(dbFields) \subseteq IdsOf(clicked) \cup ToDelete
            /\ Added(clicked) \subseteq Added(dbFields) \cup ToAdd
            /\ found = originalFields =>
                  /\ Added(dbFields) \subseteq Added(clicked)
                  /\ Originals \cap IdsOf(clicked) \subseteq IdsOf(dbFields)
                  /\ \A d \in ToSet(clicked), e \in ToSet(dbFields) :
                        d.id = e.id /\ d.id \in Originals => d.label = e.label \/ d.id \in ToUpdate
        BY <1>0, <1>3, <2>1 DEF EditProgress, Underway
      <3>1. SUFFICES ASSUME TRUE
            PROVE  /\ Originals \cap IdsOf(dbFields)' \subseteq IdsOf(clicked) \cup ToDelete'
                   /\ Added(clicked) \subseteq Added(dbFields)' \cup ToAdd'
                   /\ found = originalFields =>
                         /\ Added(dbFields)' \subseteq Added(clicked)
                         /\ Originals \cap IdsOf(clicked) \subseteq IdsOf(dbFields)'
                         /\ \A d \in ToSet(clicked), e \in ToSet(dbFields') :
                               d.id = e.id /\ d.id \in Originals => d.label = e.label \/ d.id \in ToUpdate'
        BY <1>5 DEF EditProgress
      <3>2. /\ ToDelete \subseteq ToDelete' \cup (IF c.op = "delete" THEN {c.draft.id} ELSE {})
            /\ ToAdd \subseteq ToAdd' \cup (IF c.op = "add" THEN {<<c.draft.slug, c.draft.label>>} ELSE {})
            /\ ToUpdate \subseteq ToUpdate' \cup (IF c.op = "update" THEN {c.draft.id} ELSE {})
        BY <1>1, <1>2 DEF ToDelete, ToAdd, ToUpdate
      <3>3. /\ c.op \in {"rename", "delete", "add", "update"}
            /\ c.op = "delete" => c.draft.id \in Originals \ IdsOf(clicked)
            /\ c.op = "add" => c.draft \in ToSet(clicked) /\ c.draft.id \notin Originals
            /\ c.op = "update" => c.draft \in ToSet(clicked) /\ c.draft.id \in Originals
        <4>1. c.op # "create"
          BY <1>3, <2>1 DEF ListInv
        <4> QED  BY <1>3, <4>1 DEF ListInv, ServerCall
      <3>4. CASE c.op = "delete"
        <4>1. ToSet(dbFields') = {d \in ToSet(dbFields) : d.id # c.draft.id}
          BY <1>2, <3>4, AppliedSet
        <4>2. IdsOf(dbFields)' = IdsOf(dbFields) \ {c.draft.id} /\ Added(dbFields)' = Added(dbFields)
          BY <1>5, <3>3, <3>4, <4>1 DEF IdsOf, Added
        <4> QED  BY <3>0, <3>2, <3>3, <3>4, <4>1, <4>2
      <3>5. CASE c.op = "add"
        <4>1. PICK d \in Draft : /\ d.id >= 100 /\ d.slug = c.draft.slug /\ d.label = c.draft.label
                                 /\ ToSet(dbFields') = ToSet(dbFields) \cup {d}
          BY <1>2, <3>5, AppliedSet
        <4>2. d.id \notin Originals
          <5>1. \A id \in Originals : id < 10
            BY DEF BuilderInv, FieldsInv
          <5>2. ~(d.id < 10)
            <6>1. d.id \in Nat /\ d.id >= 100
              BY <4>1 DEF Draft
            <6>2. PICK n \in Nat : n = d.id /\ n >= 100
              BY <6>1
            <6> QED  BY <6>2
          <5> QED  BY <5>1, <5>2
        <4>3. /\ IdsOf(dbFields)' = IdsOf(dbFields) \cup {d.id}
              /\ Added(dbFields)' = Added(dbFields) \cup {<<c.draft.slug, c.draft.label>>}
          BY <1>5, <4>1, <4>2 DEF IdsOf, Added
        <4>4. <<c.draft.slug, c.draft.label>> \in Added(clicked)
          BY <3>3, <3>5 DEF Added
        <4>5. \A e \in ToSet(dbFields') : e.id \in Originals => e \in ToSet(dbFields)
          BY <4>1, <4>2
        <4> QED  BY <3>0, <3>2, <3>5, <4>2, <4>3, <4>4, <4>5
      <3>6. CASE c.op = "update"
        <4>1. /\ \A d \in ToSet(dbFields) : \E e \in ToSet(dbFields') :
                    /\ e.id = d.id /\ e.slug = d.slug
                    /\ e.label = IF d.id = c.draft.id THEN c.draft.label ELSE d.label
              /\ \A e \in ToSet(dbFields') : \E d \in ToSet(dbFields) :
                    /\ e.id = d.id /\ e.slug = d.slug
                    /\ e.label = IF d.id = c.draft.id THEN c.draft.label ELSE d.label
          BY <1>2, <3>6, AppliedSet
        <4>2. IdsOf(dbFields)' = IdsOf(dbFields)
          BY <4>1 DEF IdsOf
        <4>3. Added(dbFields)' = Added(dbFields)
          <5>1. ASSUME NEW d \in ToSet(dbFields), d.id \notin Originals
                PROVE  \E e \in ToSet(dbFields') : e.id \notin Originals /\ <<e.slug, e.label>> = <<d.slug, d.label>>
            BY <3>3, <3>6, <4>1, <5>1
          <5>2. ASSUME NEW e \in ToSet(dbFields'), e.id \notin Originals
                PROVE  \E d \in ToSet(dbFields) : d.id \notin Originals /\ <<e.slug, e.label>> = <<d.slug, d.label>>
            BY <3>3, <3>6, <4>1, <5>2
          <5> QED  BY <1>5, <5>1, <5>2 DEF Added
        <4>4. ASSUME found = originalFields, NEW d \in ToSet(clicked), NEW e \in ToSet(dbFields'),
                     d.id = e.id, d.id \in Originals, d.id \notin ToUpdate'
              PROVE  d.label = e.label
          <5>1. PICK old \in ToSet(dbFields) : /\ e.id = old.id
                   /\ e.label = IF old.id = c.draft.id THEN c.draft.label ELSE old.label
            BY <4>1
          <5>2. CASE old.id = c.draft.id
            <6>1. OldOnce(clicked)
              BY <1>3 DEF ListInv
            <6>2. d = c.draft
              BY <3>3, <3>6, <4>4, <5>1, <5>2, <6>1 DEF OldOnce
            <6> QED  BY <5>1, <5>2, <6>2
          <5>3. CASE old.id # c.draft.id
            BY <3>0, <3>2, <3>6, <4>4, <5>1, <5>3
          <5> QED  BY <5>2, <5>3
        <4> QED  BY <3>0, <3>2, <3>6, <4>2, <4>3, <4>4
      <3>7. CASE c.op = "rename"
        <4>1. dbFields' = dbFields
          BY <1>2, <3>7, AppliedSet
        <4>2. IdsOf(dbFields)' = IdsOf(dbFields) /\ Added(dbFields)' = Added(dbFields)
          BY <1>5, <4>1 DEF IdsOf, Added
        <4> QED  BY <3>0, <3>2, <3>7, <4>1, <4>2
      <3> QED  BY <3>3, <3>4, <3>5, <3>6, <3>7
    <2> QED  BY <2>0, <2>1
  <1>10. Applied(c) \in Seq(Draft)
    BY AppliedType
  <1>11. dbName' \in Labels \cup {""} /\ NameProgress'
    <2>1. CASE c.op \in Naming
      <3>1. dbName' = c.draft.label
        BY <1>2, <2>1 DEF LabelAfter, Naming
      <3>2. c.draft.label = clickedName.said /\ c.draft.label \in Labels
        BY <1>3, <2>1 DEF NameProgress, ServerCall, Draft
      <3> QED  BY <1>1, <1>2, <1>3, <3>1, <3>2 DEF NameProgress
    <2>2. CASE c.op \notin Naming
      <3>1. dbName' = dbName
        BY <1>2, <2>2 DEF LabelAfter, Naming
      <3>2. Underway
        BY <1>0 DEF Underway
      <3> QED  BY <1>0, <1>1, <1>2, <1>3, <2>2, <3>1, <3>2 DEF NameProgress
    <2> QED  BY <2>1, <2>2
  <1> QED  BY <1>0, <1>1, <1>2, <1>4, <1>7, <1>8, <1>9, <1>10, <1>11, SaveSteps DEF SaveInv

\* Steps that end a save or leave it as it is.
LEMMA SaveEnds ==
    ASSUME BuilderInv, CallFails \/ RefetchCollection \/ AnswerWarning
    PROVE  BuilderInv'
  <1>0. /\ dbFields \in Seq(Draft) /\ existing \in Seq(Draft) /\ clicked \in Seq(Draft)
        /\ found \in Seq(Draft) /\ saving \in Seq(ServerCall)
        /\ leaving \in {"here", "blocked", "left"} /\ refusals \in 0..MaxRefusals
        /\ ListInv /\ EditProgress /\ CreateDone /\ NameProgress
        /\ {existingName, dbName} \subseteq Labels \cup {""}
        /\ clickedName \in [said : Labels \cup {""}, known : Labels \cup {""}]
    BY DEF BuilderInv, BuilderTypeOK, SaveInv
  <1>1. ASSUME UNCHANGED <<isEditMode, originalFields, clicked>>
        PROVE  /\ Originals' = Originals /\ (isEditMode' <=> isEditMode) /\ OldOnce(clicked)'
    <2>1. isEditMode' = isEditMode /\ isEditMode \in BOOLEAN /\ Originals' = Originals
      BY <1>1 DEF BuilderInv, BuilderTypeOK, Originals, IdsOf
    <2>2. OldOnce(clicked)'
      BY <1>0, <1>1, <2>1 DEF ListInv, OldOnce
    <2>3. CASE isEditMode = TRUE
      BY <2>1, <2>2, <2>3
    <2>4. CASE isEditMode = FALSE
      BY <2>1, <2>2, <2>4
    <2> QED  BY <2>1, <2>3, <2>4
  <1>2. CASE CallFails
    <2>1. /\ saving # <<>> /\ saving' = <<>> /\ leaving' = leaving
          /\ UNCHANGED <<isEditMode, builderName, builderFields, originalFields, existing, existingName,
                         clicked, clickedName, found>>
      BY <1>2 DEF CallFails, builderCached, builderClick
    <2>2. leaving' = "here"
      BY <1>0, <2>1 DEF ListInv
    <2>3. saving' \in Seq(ServerCall) /\ Todo' = {}
      <3>1. <<>> \in Seq(ServerCall)
        OBVIOUS
      <3> QED  BY <2>1, <3>1, SetOfSeq DEF Todo
    <2>4. SaveInv'
      <3>1. ListInv'
        BY <1>1, <2>1, <2>2, <2>3 DEF ListInv
      <3>2. EditProgress' /\ CreateDone' /\ NameProgress'
        BY <2>1, <2>2, <2>3 DEF EditProgress, CreateDone, NameProgress, Underway
      <3> QED  BY <3>1, <3>2 DEF SaveInv
    <2>5. dbFields' \in Seq(Draft) /\ dbName' \in Labels \cup {""}
      <3>1. Head(saving) \in ServerCall
        BY <1>0, <2>1, SetOfTail
      <3>2. PICK c \in ServerCall : c = Head(saving)
        BY <3>1
      <3>3. Applied(c) \in Seq(Draft)
        BY AppliedType
      <3>4. /\ dbFields' = dbFields \/ dbFields' = Applied(c)
            /\ dbName' = dbName \/ dbName' = LabelAfter(c)
        BY <1>2, <3>2 DEF CallFails, ServerApplies, builderStored
      <3>5. LabelAfter(c) \in Labels \cup {""}
        BY <1>0 DEF LabelAfter, ServerCall, Draft
      <3> QED  BY <1>0, <3>3, <3>4, <3>5
    <2>6. refusals' \in 0..MaxRefusals
      <3>1. MaxRefusals \in Nat
        BY BuilderAssumption, Zenon
      <3>2. refusals' = refusals \/ (refusals < MaxRefusals /\ refusals' = refusals + 1)
        BY <1>2 DEF CallFails
      <3>3. refusals \in 0..MaxRefusals
        BY <1>0
      <3> QED  BY <3>1, <3>2, <3>3
    <2> QED  BY <1>0, <2>1, <2>3, <2>4, <2>5, <2>6, SaveSteps
  <1>3. CASE RefetchCollection \/ AnswerWarning
    <2>1. /\ UNCHANGED <<isEditMode, builderName, builderFields, originalFields, dbFields, dbName, saving,
                         clicked, clickedName, found, refusals>>
          /\ existing' = dbFields \/ existing' = existing
          /\ existingName' = dbName \/ existingName' = existingName
          /\ leaving' = leaving \/ (leaving = "blocked" /\ leaving' \in {"here", "left"})
      BY <1>3 DEF RefetchCollection, AnswerWarning, builderCached, builderStored, builderClick
    <2>2. /\ Todo' = Todo /\ ToDelete' = ToDelete /\ ToAdd' = ToAdd /\ ToUpdate' = ToUpdate
          /\ Added(clicked)' = Added(clicked) /\ Added(dbFields)' = Added(dbFields)
          /\ IdsOf(clicked)' = IdsOf(clicked) /\ IdsOf(dbFields)' = IdsOf(dbFields)
          /\ ToSet(clicked') = ToSet(clicked) /\ ToSet(dbFields') = ToSet(dbFields)
          /\ found' = found /\ originalFields' = originalFields /\ saving' = saving
          /\ Originals' = Originals /\ (isEditMode' <=> isEditMode) /\ OldOnce(clicked)'
      BY <1>1, <2>1 DEF Todo, ToDelete, ToAdd, ToUpdate, Added, IdsOf, Originals
    <2>3. leaving' \in {"here", "blocked", "left"} /\ (leaving' # "here" => leaving # "here")
      BY <1>0, <2>1
    <2>4. ListInv'
      BY <1>0, <2>2, <2>3 DEF ListInv
    <2>5. Underway' => Underway
      BY <2>2, <2>3 DEF Underway
    <2>6. EditProgress'
      BY <1>0, <2>2, <2>5, Zenon DEF EditProgress
    <2>7. CreateDone'
      BY <1>0, <2>2, <2>3 DEF CreateDone
    <2>8. NameProgress'
      BY <1>0, <2>1, <2>2, <2>5 DEF NameProgress
    <2> QED  BY <1>0, <2>1, <2>3, <2>4, <2>6, <2>7, <2>8, SaveSteps DEF SaveInv
  <1> QED  BY <1>2, <1>3

\* A new draft's id is a number the fields of the database do not have because acts is one.
LEMMA BuilderStep ==
    BuilderInv /\ ((acts \in Nat /\ BuilderNext) \/ UNCHANGED builderVars) => BuilderInv'
  <1> SUFFICES ASSUME BuilderInv, (acts \in Nat /\ BuilderNext) \/ UNCHANGED builderVars
               PROVE  BuilderInv'
    OBVIOUS
  <1>1. CASE UNCHANGED builderVars
    <2>1. UNCHANGED <<isEditMode, builderName, builderFields, builderSave>>
      BY <1>1 DEF builderVars
    <2>2. /\ appName \in Labels \cup {""} /\ appSlug \in AppSlugs \cup {""} /\ slugManual \in BOOLEAN
          /\ fields \in Seq(Draft) /\ selectedId \in Nat
          /\ slugAsked \in [sent : BOOLEAN, manual : BOOLEAN] /\ propertyAsked \in FieldAsk \cup {NoFieldAsk}
          /\ OldOnce(fields) /\ OldOnce(propertyAsked.fields)
      BY DEF BuilderInv, BuilderTypeOK, FieldsInv
    <2> QED  BY <2>1, <2>2, DraftSteps DEF builderName, builderFields
  <1>2. CASE acts \in Nat /\ BuilderNext
    BY <1>2, DraftStep, SaveStarts, CallDone, SaveEnds DEF BuilderNext
  <1> QED  BY <1>1, <1>2

\* Every draft of the form has an id of its own, also in the form a request remembers: new
\* ids count up.
NumberedBy(list, n) == OnceEach(list) /\ \A i \in DOMAIN list : list[i].id < 10 * (1 + n)
DraftsApart == acts \in Nat /\ NumberedBy(fields, acts) /\ NumberedBy(propertyAsked.fields, acts)

LEMMA DraftIdsType ==
    ASSUME NEW list \in Seq(Draft)
    PROVE  \A i \in DOMAIN list : list[i] \in Draft /\ list[i].id \in Nat
  <1>1. \A i \in DOMAIN list : list[i] \in Draft
    BY ElementOfSeq, LenProperties
  <1> QED  BY <1>1 DEF Draft

LEMMA NumbersGrow ==
    ASSUME NEW list \in Seq(Draft), NEW n \in Nat, NEW m \in Nat, n <= m, NumberedBy(list, n)
    PROVE  NumberedBy(list, m)
  <1>1. ASSUME NEW i \in DOMAIN list  PROVE list[i].id < 10 * (1 + m)
    <2>1. PICK a \in Nat : a = list[i].id
      BY DraftIdsType
    <2>2. a < 10 * (1 + n)
      BY <2>1 DEF NumberedBy
    <2> QED  BY <2>1, <2>2
  <1> QED  BY <1>1 DEF NumberedBy

\* A list whose drafts have ids of such a list
LEMMA NumbersWithin ==
    ASSUME NEW s, NEW t, NEW n, NumberedBy(s, n), OnceEach(t),
           \A i \in DOMAIN t : \E j \in DOMAIN s : t[i].id = s[j].id
    PROVE  NumberedBy(t, n)
  BY DEF NumberedBy

LEMMA ChangeKeepsIds ==
    ASSUME NEW list \in Seq(Draft), NEW d \in Draft, NEW n, NumberedBy(list, n), handleFieldChange(list, d)
    PROVE  NumberedBy(fields', n)
  <1>1. DOMAIN fields' = DOMAIN list /\ \A i \in DOMAIN list : fields'[i].id = list[i].id
    BY DEF handleFieldChange
  <1>2. OnceEach(fields')
    BY <1>1, OnceSame DEF NumberedBy
  <1> QED  BY <1>1, <1>2, NumbersWithin

LEMMA DraftsApartStep == BuilderInv /\ DraftsApart /\ BuilderNext => DraftsApart'
  <1> SUFFICES ASSUME BuilderInv, DraftsApart, BuilderNext  PROVE DraftsApart'
    OBVIOUS
  <1>0. /\ fields \in Seq(Draft) /\ acts \in Nat
        /\ NumberedBy(fields, acts) /\ NumberedBy(propertyAsked.fields, acts)
        /\ propertyAsked \in FieldAsk \cup {NoFieldAsk}
    BY DEF BuilderInv, BuilderTypeOK, DraftsApart
  <1>1. propertyAsked.fields \in Seq(Draft)
    <2>1. NoFieldAsk.fields \in Seq(Draft)
      BY DEF NoFieldAsk
    <2>2. \A a \in FieldAsk : a.fields \in Seq(Draft)
      BY DEF FieldAsk
    <2> QED  BY <1>0, <2>1, <2>2
  <1>2. \A n \in Nat : NumberedBy(NoFieldAsk.fields, n)
    BY DEF NumberedBy, OnceEach, NoFieldAsk
  <1>3. acts' \in Nat /\ acts <= acts'
    <2>1. BuilderNext => Act("builder") \/ UNCHANGED acts
      BY DEF BuilderNext, handleLabelChange, handleSlugChange, requestSlug, applyAIFields, handleAddField,
             handleSelect, handleRemoveField, onReorder, updateLabel, updateSlug, requestAutoSlug,
             saveApp, handleEditSave, CallSucceeds, CallFails, RefetchCollection, AnswerWarning, BuilderAct
    <2> QED  BY <1>0, <2>1 DEF Act
  <1>4. NumberedBy(fields, acts') /\ NumberedBy(propertyAsked.fields, acts')
    BY <1>0, <1>1, <1>3, NumbersGrow
  <1>5. ASSUME UNCHANGED <<fields, propertyAsked>>  PROVE DraftsApart'
    <2>1. fields' = fields /\ propertyAsked' = propertyAsked
      BY <1>5
    <2>2. NumberedBy(fields', acts') /\ NumberedBy(propertyAsked'.fields, acts')
      BY <1>4, <2>1
    <2> QED  BY <1>3, <2>2 DEF DraftsApart, NumberedBy, OnceEach
  <1>6. ASSUME NumberedBy(fields', acts'), NumberedBy(propertyAsked'.fields, acts')  PROVE DraftsApart'
    BY <1>3, <1>6 DEF DraftsApart, NumberedBy, OnceEach
  <1>7. CASE handleLabelChange \/ handleSlugChange \/ requestSlug \/ handleSelect \/ saveApp \/ handleEditSave
             \/ CallSucceeds \/ CallFails \/ RefetchCollection \/ AnswerWarning
    <2>1. UNCHANGED <<fields, propertyAsked>>
      BY <1>7 DEF handleLabelChange, handleSlugChange, requestSlug, handleSelect, saveApp, handleEditSave,
         CallSucceeds, CallFails, RefetchCollection, AnswerWarning, builderFields
    <2> QED  BY <1>5, <2>1
  <1>8. CASE applyAIFields
    <2>1. PICK l \in Labels, f \in FieldSlugs, g \in FieldSlugs :
             fields' = <<[id |-> FreshId(1), slug |-> f, label |-> l], [id |-> FreshId(2), slug |-> g, label |-> l]>>
      BY <1>8 DEF applyAIFields
    <2>2. propertyAsked' = NoFieldAsk /\ acts' = acts + 1
      BY <1>8 DEF applyAIFields, BuilderAct, Act
    <2>3. PICK a \in Nat, b \in Nat : a = FreshId(1) /\ b = FreshId(2) /\ a # b /\ a < 10 * (1 + acts') /\ b < 10 * (1 + acts')
      <3>1. FreshId(1) = 10 * (1 + acts) + 1 /\ FreshId(2) = 10 * (1 + acts) + 2
        BY DEF FreshId
      <3> QED  BY <1>0, <2>2, <3>1
    <2>4. DOMAIN fields' = {1, 2} /\ fields'[1].id = a /\ fields'[2].id = b
      BY <2>1, <2>3
    <2>5. NumberedBy(fields', acts')
      BY <2>3, <2>4 DEF NumberedBy, OnceEach
    <2> QED  BY <1>2, <1>3, <1>6, <2>2, <2>5
  <1>9. CASE handleAddField
    <2>1. PICK at \in 1..Len(fields) + 1 :
             fields' = InsertAt(fields, at, [id |-> FreshId(0), slug |-> "", label |-> NewLabel])
      BY <1>9 DEF handleAddField
    <2>2. propertyAsked' = propertyAsked /\ acts' = acts + 1
      BY <1>9 DEF handleAddField, BuilderAct, Act
    <2>3. PICK id \in Nat : id = FreshId(0) /\ id = 10 * (1 + acts) /\ id < 10 * (1 + acts')
      <3>1. FreshId(0) = 10 * (1 + acts) + 0
        BY DEF FreshId
      <3> QED  BY <1>0, <2>2, <3>1
    <2>4. PICK e \in Draft : e = [id |-> id, slug |-> "", label |-> NewLabel] /\ e.id = id
      <3>1. NewLabel \in Labels
        BY BuilderAssumption DEF NewLabel
      <3>2. [id |-> id, slug |-> "", label |-> NewLabel] \in Draft
        BY <3>1 DEF Draft
      <3> QED  BY <3>2
    <2>5. fields' = InsertAt(fields, at, e)
      BY <2>1, <2>3, <2>4
    <2>6. \A i \in DOMAIN fields : fields[i].id # e.id
      <3> SUFFICES ASSUME NEW i \in DOMAIN fields  PROVE fields[i].id # e.id
        OBVIOUS
      <3>1. PICK n \in Nat : n = fields[i].id
        BY <1>0, DraftIdsType
      <3>2. n < 10 * (1 + acts)
        BY <1>0, <3>1 DEF NumberedBy
      <3>3. n # id
        BY <2>3, <3>2
      <3> QED  BY <2>4, <3>1, <3>3
    <2>7. PICK t : t = InsertAt(fields, at, e)
      OBVIOUS
    <2>8. /\ OnceEach(t)
          /\ \A i \in DOMAIN t : t[i] = e \/ \E j \in DOMAIN fields : t[i] = fields[j]
      <3>1. OnceEach(fields)
        BY <1>0 DEF NumberedBy
      <3>2. OnceEach(InsertAt(fields, at, e)) /\ GrownBy(InsertAt(fields, at, e), fields, e)
        BY <1>0, <2>6, <3>1, OnceInsert
      <3>3. OnceEach(t) /\ GrownBy(t, fields, e)
        BY <2>7, <3>2, Zenon
      <3> QED  BY <3>3 DEF GrownBy
    <2>9. NumberedBy(t, acts')
      <3>1. ASSUME NEW i \in DOMAIN t  PROVE t[i].id < 10 * (1 + acts')
        <4>1. CASE t[i] = e
          BY <2>3, <2>4, <4>1
        <4>2. CASE \E j \in DOMAIN fields : t[i] = fields[j]
          BY <1>4, <4>2 DEF NumberedBy
        <4> QED  BY <2>8, <4>1, <4>2
      <3> QED  BY <2>8, <3>1 DEF NumberedBy
    <2> QED  BY <1>4, <1>6, <2>2, <2>5, <2>7, <2>9
  <1>10. CASE handleRemoveField
    <2>1. PICK spots \in SUBSET (DOMAIN fields) : fields' = ElementsAt(fields, spots)
      <3>1. PICK id \in IdsOf(fields) : fields' = Filter(fields, LAMBDA d : d.id # id)
        BY <1>10 DEF handleRemoveField
      <3> DEFINE kept == {i \in DOMAIN fields : fields[i].id # id}
      <3>2. fields' = ElementsAt(fields, kept)
        BY <3>1 DEF Filter
      <3>3. kept \in SUBSET (DOMAIN fields)
        OBVIOUS
      <3> HIDE DEF kept
      <3> QED  BY <3>2, <3>3
    <2>2. propertyAsked' = propertyAsked \/ propertyAsked' = NoFieldAsk
      BY <1>10 DEF handleRemoveField
    <2>3. PICK t : t = ElementsAt(fields, spots)
      OBVIOUS
    <2>4. OnceEach(t)
      BY <1>0, <2>3, OncePassed DEF NumberedBy
    <2>5. \A i \in DOMAIN t : \E j \in DOMAIN fields : t[i].id = fields[j].id
      <3>1. /\ t \in Seq(Draft) /\ Len(t) = Cardinality(spots)
            /\ \A n \in 1..Cardinality(spots) : \E i \in spots : t[n] = fields[i]
        BY <1>0, <2>3, ElementsAtType
      <3>2. DOMAIN t = 1..Cardinality(spots)
        BY <3>1, LenProperties
      <3> QED  BY <3>1, <3>2
    <2>6. NumberedBy(fields', acts')
      BY <1>4, <2>1, <2>3, <2>4, <2>5, NumbersWithin
    <2> QED  BY <1>2, <1>3, <1>4, <1>6, <2>2, <2>6
  <1>11. CASE onReorder
    <2>1. PICK i \in DOMAIN fields, j \in DOMAIN fields : fields' = InsertAt(RemoveAt(fields, i), j, fields[i])
      BY <1>11 DEF onReorder
    <2>2. propertyAsked' = propertyAsked
      BY <1>11 DEF onReorder
    <2>3. PICK k \in Nat : k = Len(fields) /\ DOMAIN fields = 1..k
      BY <1>0, LenProperties
    <2>4. PICK a \in 1..k, b \in 1..k : a = i /\ b = j
      BY <2>3
    <2>5. PICK t : t = fields' /\ IsMoved(t, fields, a, b)
      BY <2>1, <2>4 DEF IsMoved
    <2>6. OnceEach(t)
      BY <1>0, <2>3, <2>5, OnceMoved DEF NumberedBy
    <2>7. DOMAIN t = 1..k /\ IsShuffled(t, fields, k)
      BY <1>0, <2>3, <2>5, MoveWithin
    <2>8. \A n \in DOMAIN t : \E m \in DOMAIN fields : t[n].id = fields[m].id
      <3>1. PICK from \in [1..k -> 1..k] : \A n \in 1..k : t[n] = fields[from[n]]
        BY <2>7 DEF IsShuffled
      <3>2. \A n \in 1..k : from[n] \in 1..k
        BY <3>1
      <3> QED  BY <2>3, <2>7, <3>1, <3>2
    <2>9. NumberedBy(fields', acts')
      BY <1>4, <2>5, <2>6, <2>8, NumbersWithin
    <2> QED  BY <1>4, <1>6, <2>2, <2>9
  <1>12. CASE updateLabel
    <2>1. PICK l \in Labels :
             LET updated == [SelectedDraft EXCEPT !.label = l] IN
             /\ handleFieldChange(fields, updated)
             /\ propertyAsked' = IF updated.slug = "" THEN [sent |-> TRUE, field |-> updated, fields |-> fields]
                                 ELSE propertyAsked
      BY <1>12 DEF updateLabel
    <2>2. PICK updated \in Draft : updated = [SelectedDraft EXCEPT !.label = l]
      <3>1. SelectedDraft \in Draft
        BY <1>12, PanelDraft DEF updateLabel
      <3>2. [SelectedDraft EXCEPT !.label = l] \in Draft
        BY <3>1 DEF Draft
      <3> QED  BY <3>2
    <2>3. handleFieldChange(fields, updated)
      BY <2>1, <2>2
    <2>4. NumberedBy(fields', acts')
      BY <1>0, <1>4, <2>3, ChangeKeepsIds
    <2>5. propertyAsked'.fields = fields \/ propertyAsked'.fields = propertyAsked.fields
      <3>1. CASE updated.slug = ""
        BY <2>1, <2>2, <3>1
      <3>2. CASE updated.slug # ""
        BY <2>1, <2>2, <3>2
      <3> QED  BY <3>1, <3>2
    <2> QED  BY <1>4, <1>6, <2>4, <2>5
  <1>13. CASE updateSlug
    <2>1. PICK s \in FieldSlugs \cup {""} : handleFieldChange(fields, [SelectedDraft EXCEPT !.slug = s])
      BY <1>13 DEF updateSlug
    <2>2. PICK updated \in Draft : updated = [SelectedDraft EXCEPT !.slug = s]
      <3>1. SelectedDraft \in Draft
        BY <1>13, PanelDraft DEF updateSlug
      <3>2. [SelectedDraft EXCEPT !.slug = s] \in Draft
        BY <3>1 DEF Draft
      <3> QED  BY <3>2
    <2>3. handleFieldChange(fields, updated)
      BY <2>1, <2>2
    <2>4. NumberedBy(fields', acts')
      BY <1>0, <1>4, <2>3, ChangeKeepsIds
    <2>5. propertyAsked' = propertyAsked
      BY <1>13 DEF updateSlug
    <2> QED  BY <1>4, <1>6, <2>4, <2>5
  <1>14. CASE requestAutoSlug
    <2>1. PICK s \in FieldSlugs :
             handleFieldChange(propertyAsked.fields, [propertyAsked.field EXCEPT !.slug = s])
      BY <1>14 DEF requestAutoSlug
    <2>2. propertyAsked' = NoFieldAsk /\ propertyAsked.sent
      BY <1>14 DEF requestAutoSlug
    <2>3. propertyAsked.field \in Draft
      <3>1. ~NoFieldAsk.sent
        BY DEF NoFieldAsk
      <3>2. propertyAsked \in FieldAsk
        BY <1>0, <2>2, <3>1
      <3> QED  BY <3>2 DEF FieldAsk
    <2>4. PICK updated \in Draft : updated = [propertyAsked.field EXCEPT !.slug = s]
      <3>1. [propertyAsked.field EXCEPT !.slug = s] \in Draft
        BY <2>3 DEF Draft
      <3> QED  BY <3>1
    <2>5. PICK asked \in Seq(Draft) : asked = propertyAsked.fields
      BY <1>1
    <2>6. handleFieldChange(asked, updated)
      BY <2>1, <2>4, <2>5
    <2>7. NumberedBy(asked, acts')
      BY <1>4, <2>5
    <2>8. NumberedBy(fields', acts')
      BY <2>6, <2>7, ChangeKeepsIds
    <2> QED  BY <1>2, <1>3, <1>6, <2>2, <2>8
  <1> QED  BY <1>7, <1>8, <1>9, <1>10, <1>11, <1>12, <1>13, <1>14 DEF BuilderNext

\* A slug that is taken is none a request comes back with.
LEMMA SlugIsFree ==
    ASSUME BuilderInv, DraftsApart, requestAutoSlug
    PROVE  \A i, j \in DOMAIN fields' :
             i # j /\ fields'[i].id = propertyAsked.field.id => fields'[i].slug # fields'[j].slug
  <1>0. propertyAsked \in FieldAsk
    <2>1. ~NoFieldAsk.sent
      BY DEF NoFieldAsk
    <2> QED  BY <2>1 DEF BuilderInv, BuilderTypeOK, requestAutoSlug
  <1>1. PICK asked \in Seq(Draft), d \in Draft : asked = propertyAsked.fields /\ d = propertyAsked.field
    BY <1>0 DEF FieldAsk
  <1> DEFINE rest == {i \in DOMAIN asked : asked[i].id # d.id}
             taken == ElementsAt(asked, rest)
  <1>2. PICK s \in FieldSlugs : s \notin SlugsOf(taken) /\ handleFieldChange(asked, [d EXCEPT !.slug = s])
    <2>1. PICK s \in FieldSlugs \ SlugsOf(Filter(propertyAsked.fields, LAMBDA e : e.id # propertyAsked.field.id)) :
             handleFieldChange(propertyAsked.fields, [propertyAsked.field EXCEPT !.slug = s])
      BY Zenon DEF requestAutoSlug
    <2>2. Filter(propertyAsked.fields, LAMBDA e : e.id # propertyAsked.field.id) = taken
      BY <1>1 DEF Filter
    <2> HIDE DEF taken
    <2>3. s \in FieldSlugs /\ s \notin SlugsOf(taken)
      BY <2>1, <2>2
    <2>4. handleFieldChange(asked, [d EXCEPT !.slug = s])
      BY <1>1, <2>1
    <2> QED  BY <2>3, <2>4
  <1>3. \A i \in rest : asked[i].slug \in SlugsOf(taken)
    <2>1. rest \in SUBSET (DOMAIN asked)
      OBVIOUS
    <2> HIDE DEF rest
    <2>2. \A i \in rest : \E n \in DOMAIN taken : taken[n] = asked[i]
      <3>1. /\ taken \in Seq(Draft) /\ Len(taken) = Cardinality(rest)
            /\ \A i \in rest : \E n \in 1..Cardinality(rest) : taken[n] = asked[i]
        BY <2>1, ElementsAtType
      <3> HIDE DEF taken
      <3> QED  BY <3>1, LenProperties
    <2> HIDE DEF taken
    <2> QED  BY <2>2 DEF SlugsOf, ToSet
  <1> HIDE DEF taken
  <1>4. PICK e \in Draft : e = [d EXCEPT !.slug = s] /\ e.id = d.id /\ e.slug = s
    <2>1. [d EXCEPT !.slug = s] \in Draft
      BY DEF Draft
    <2>2. [d EXCEPT !.slug = s].id = d.id /\ [d EXCEPT !.slug = s].slug = s
      BY DEF Draft
    <2> QED  BY <2>1, <2>2
  <1>5. fields' = [i \in DOMAIN asked |-> IF asked[i].id = d.id THEN e ELSE asked[i]]
    BY <1>2, <1>4 DEF handleFieldChange
  <1>d. DOMAIN fields' = DOMAIN asked /\ propertyAsked.field.id = d.id
    BY <1>1, <1>5
  <1> SUFFICES ASSUME NEW i \in DOMAIN asked, NEW j \in DOMAIN asked, i # j, fields'[i].id = d.id
               PROVE  fields'[i].slug # fields'[j].slug
    BY <1>d
  <1>6. asked[i].id = d.id /\ fields'[i] = e
    BY <1>5
  <1>7. asked[j].id # d.id
    BY <1>1, <1>6 DEF DraftsApart, NumberedBy, OnceEach
  <1>8. fields'[j] = asked[j] /\ j \in rest
    BY <1>5, <1>7
  <1> QED  BY <1>2, <1>3, <1>4, <1>6, <1>8

LEMMA DraftsStartApart == BuilderInit /\ acts = 0 => DraftsApart
  <1> SUFFICES ASSUME BuilderInit, acts = 0  PROVE DraftsApart
    OBVIOUS
  <1>1. propertyAsked.fields = <<>> /\ fields = dbFields
    BY DEF BuilderInit, NoFieldAsk
  <1>2. \A n : NumberedBy(<<>>, n)
    BY DEF NumberedBy, OnceEach
  <1>3. NumberedBy(fields, 0)
    <2>1. CASE isEditMode
      <3>1. dbFields = <<[id |-> 1, slug |-> TwoSlugs[1], label |-> NewLabel],
                         [id |-> 2, slug |-> TwoSlugs[2], label |-> NewLabel]>>
        BY <2>1 DEF BuilderInit
      <3>2. /\ DOMAIN fields = {1, 2} /\ fields[1].id = 1 /\ fields[2].id = 2
        BY <1>1, <3>1
      <3> QED  BY <3>2 DEF NumberedBy, OnceEach
    <2>2. CASE ~isEditMode
      BY <1>1, <1>2, <2>2 DEF BuilderInit
    <2> QED  BY <2>1, <2>2
  <1> QED  BY <1>1, <1>2, <1>3 DEF DraftsApart, NumberedBy, OnceEach


-----------------------------------------------------------------------------
(* The layout of a form: widths that fill a row *)


\* The widths of the fields at some places are added up one field after the other.
AddsUp(upTo, list, at, k) ==
    /\ upTo \in [0..k -> Nat] /\ upTo[0] = 0
    /\ \A n \in 1..k : upTo[n] = upTo[n - 1] + (IF n \in at THEN list[n].width ELSE 0)

LEMMA WidthsAddUp ==
    ASSUME NEW list, NEW k \in Nat, k = Len(list), \A i \in 1..k : list[i].width \in Nat, NEW at
    PROVE  \E upTo : AddsUp(upTo, list, at, k) /\ WidthSum(list, at) = upTo[k]
  <1> DEFINE more(n) == IF n \in at THEN list[n].width ELSE 0
             is(f) == f = [n \in 0..k |-> IF n = 0 THEN 0 ELSE f[n - 1] + more(n)]
             upTo == CHOOSE f : is(f)
             step == [p \in (1..k) \X Nat |-> p[2] + more(p[1])]
  <1>1. WidthSum(list, at) = upTo[k]
    BY DEF WidthSum
  <1>2. \A n \in 1..k : more(n) \in Nat
    OBVIOUS
  <1> HIDE DEF more
  <1>3. \E f : is(f) /\ f \in [0..k -> Nat]
    <2>1. step \in [(1..k) \X Nat -> Nat]
      <3>1. \A n \in 1..k : \A a \in Nat : a + more(n) \in Nat
        BY <1>2
      <3> QED  BY <3>1
    <2>2. \A n \in 1..k : \A a \in Nat : step[<<n, a>>] = a + more(n)
      OBVIOUS
    <2> HIDE DEF step
    <2>3. PICK f \in [0..k -> Nat] : Iteration(f, k, 0, step)
      BY <2>1, Iterates
    <2>4. f[0] = 0 /\ \A n \in 1..k : f[n] = step[<<n, f[n - 1]>>]
      BY <2>3 DEF Iteration
    <2>5. \A n \in 1..k : f[n - 1] \in Nat
      OBVIOUS
    <2>6. \A n \in 1..k : f[n] = f[n - 1] + more(n)
      BY <2>2, <2>4, <2>5
    <2>7. \A n \in 0..k : f[n] = IF n = 0 THEN 0 ELSE f[n - 1] + more(n)
      BY <2>4, <2>6
    <2>8. is(f)
      BY <2>7
    <2> QED  BY <2>8
  <1>4. is(upTo)
    BY <1>3, Zenon
  <1> HIDE DEF upTo
  <1>5. upTo[0] = 0 /\ \A n \in 1..k : upTo[n] = upTo[n - 1] + more(n)
    <2>1. \A n \in 0..k : upTo[n] = IF n = 0 THEN 0 ELSE upTo[n - 1] + more(n)
      BY <1>4, Zenon
    <2>2. 0 \in 0..k /\ \A n \in 1..k : n \in 0..k /\ n # 0
      OBVIOUS
    <2> QED  BY <2>1, <2>2
  <1>6. upTo \in [0..k -> Nat]
    <2> DEFINE P == {n \in 0..k : upTo[n] \in Nat}
    <2>1. 0 \in P
      BY <1>5
    <2>2. ASSUME NEW n \in 1..k, n - 1 \in P  PROVE n \in P
      BY <1>2, <1>5, <2>2
    <2> HIDE DEF P
    <2>3. \A n \in 0..k : n \in P
      BY <2>1, <2>2, CountedUp
    <2> QED  BY <1>4, <2>3 DEF P
  <1> QED  BY <1>1, <1>5, <1>6 DEF AddsUp, more

\* How many of some places lie up to one of them
LEMMA PlacesCounted ==
    ASSUME NEW k \in Nat, NEW members \in SUBSET (1..k)
    PROVE  /\ Cardinality(members \cap 1..0) = 0 /\ members \cap 1..k = members
           /\ IsFiniteSet(members)
           /\ \A n \in 0..k : Cardinality(members \cap 1..n) \in Nat
           /\ \A n \in 1..k : Cardinality(members \cap 1..n) =
                Cardinality(members \cap 1..n - 1) + (IF n \in members THEN 1 ELSE 0)
           /\ \A n \in 0..k : Cardinality(members \cap 1..n) <= Cardinality(members)
  <1>1. IsFiniteSet(members)
    <2>1. IsFiniteSet(1..k)
      BY FS_Interval
    <2> QED  BY <2>1, FS_Subset
  <1>2. \A n \in 0..k : /\ IsFiniteSet(members \cap 1..n) /\ Cardinality(members \cap 1..n) \in Nat
                        /\ Cardinality(members \cap 1..n) <= Cardinality(members)
    BY <1>1, FS_Subset, FS_CardinalityType
  <1>3. ASSUME NEW n \in 1..k
        PROVE  Cardinality(members \cap 1..n) =
                Cardinality(members \cap 1..n - 1) + (IF n \in members THEN 1 ELSE 0)
    <2> DEFINE before == members \cap 1..n - 1
    <2>1. n - 1 \in 0..k /\ n \notin before
      OBVIOUS
    <2>2. IsFiniteSet(before) /\ Cardinality(before) \in Nat
      BY <1>2, <2>1
    <2>3. members \cap 1..n = IF n \in members THEN before \cup {n} ELSE before
      OBVIOUS
    <2> HIDE DEF before
    <2>4. Cardinality(before \cup {n}) = Cardinality(before) + 1
      BY <2>1, <2>2, FS_AddElement
    <2>5. CASE n \in members
      <3>1. members \cap 1..n = before \cup {n}
        BY <2>3, <2>5
      <3> QED  BY <2>4, <2>5, <3>1 DEF before
    <2>6. CASE n \notin members
      <3>1. members \cap 1..n = before
        BY <2>3, <2>6
      <3>2. PICK a \in Nat : a = Cardinality(before) /\ a + 0 = a
        BY <2>2
      <3> QED  BY <2>6, <3>1, <3>2 DEF before
    <2> QED  BY <2>5, <2>6
  <1>4. Cardinality(members \cap 1..0) = 0
    <2>1. members \cap 1..0 = {}
      OBVIOUS
    <2> QED  BY <2>1, FS_EmptySet
  <1>5. members \cap 1..k = members
    OBVIOUS
  <1> QED  BY <1>1, <1>2, <1>3, <1>4, <1>5

\* Fields that share a row evenly fill it.
LEMMA Division ==
    ASSUME NEW g \in Nat, NEW c \in Nat \ {0}
    PROVE  /\ g \div c \in Int /\ g % c \in Int /\ g = c * (g \div c) + (g % c)
           /\ 0 <= g % c /\ g % c < c
  OBVIOUS

LEMMA EvenType ==
    ASSUME NEW c \in 1..GridCols, NEW p \in 1..c
    PROVE  EvenWidth(p, c) \in 1..GridCols
  <1>1. PICK g \in Nat \ {0} : g = GridCols
    BY FormLayoutAssumption
  <1>2. PICK q \in Int, r \in Int : q = g \div c /\ r = g % c /\ g = c * q + r /\ 0 <= r /\ r < c
    <2>1. c \in Nat \ {0}
      OBVIOUS
    <2> QED  BY <1>1, <2>1, Division
  <1>3. g = c * q + r /\ 0 <= r /\ r < c
    BY <1>2
  <1>4. q >= 1
    BY <1>1, <1>3
  <1>5. c * q >= q + (c - 1)
    <2>1. PICK a \in Nat, b \in Nat : c = a + 1 /\ q = b + 1
      <3>1. c - 1 \in Nat /\ q - 1 \in Nat
        BY <1>1, <1>4
      <3> QED  BY <3>1
    <2>2. c * q = a * b + a + b + 1 /\ a * b >= 0
      BY <2>1
    <2> QED  BY <2>1, <2>2
  <1>6. EvenWidth(p, c) = q + (IF p <= r THEN 1 ELSE 0)
    BY <1>1, <1>2 DEF EvenWidth
  <1>7. CASE p <= r
    <2>1. r >= 1 /\ EvenWidth(p, c) = q + 1
      BY <1>6, <1>7
    <2> QED  BY <1>1, <1>3, <1>4, <1>5, <2>1
  <1>8. CASE ~(p <= r)
    <2>1. EvenWidth(p, c) = q
      BY <1>6, <1>8
    <2> QED  BY <1>1, <1>3, <1>4, <1>5, <2>1
  <1> QED  BY <1>7, <1>8

LEMMA EvenFills ==
    ASSUME NEW k \in Nat, NEW list, k = Len(list), \A i \in 1..k : list[i].width \in Nat,
           NEW members \in SUBSET (1..k), NEW c \in 1..GridCols, c = Cardinality(members),
           \A i \in members : list[i].width = EvenWidth(Cardinality(members \cap 1..i), c)
    PROVE  WidthSum(list, members) = GridCols
  <1>1. PICK upTo : AddsUp(upTo, list, members, k) /\ WidthSum(list, members) = upTo[k]
    BY WidthsAddUp
  <1>2. PICK g \in Nat \ {0} : g = GridCols
    BY FormLayoutAssumption
  <1>3. PICK q \in Int, r \in Int : q = g \div c /\ r = g % c /\ g = c * q + r /\ 0 <= r /\ r < c
    <2>1. c \in Nat \ {0}
      OBVIOUS
    <2> QED  BY <1>2, <2>1, Division
  <1>4. g = c * q + r /\ 0 <= r /\ r < c
    BY <1>3
  <1> DEFINE count(n) == Cardinality(members \cap 1..n)
             filled(n) == count(n) * q + (IF count(n) <= r THEN count(n) ELSE r)
             P == {n \in 0..k : upTo[n] = filled(n)}
  <1>5. /\ count(0) = 0 /\ count(k) = c
        /\ \A n \in 0..k : count(n) \in Nat
        /\ \A n \in 1..k : count(n) = count(n - 1) + (IF n \in members THEN 1 ELSE 0)
    BY PlacesCounted
  <1>6. \A i \in members : list[i].width = q + (IF count(i) <= r THEN 1 ELSE 0)
    BY <1>2, <1>3 DEF EvenWidth
  <1> HIDE DEF count
  <1>7. 0 \in P
    BY <1>1, <1>4, <1>5 DEF AddsUp
  <1>8. ASSUME NEW n \in 1..k, n - 1 \in P  PROVE n \in P
    <2>1. PICK a \in Nat : a = count(n - 1)
      BY <1>5
    <2>2. upTo[n - 1] = a * q + (IF a <= r THEN a ELSE r)
      BY <1>8, <2>1
    <2>3. upTo[n] = upTo[n - 1] + (IF n \in members THEN list[n].width ELSE 0)
      BY <1>1 DEF AddsUp
    <2>4. CASE n \in members
      <3>1. count(n) = a + 1 /\ list[n].width = q + (IF a + 1 <= r THEN 1 ELSE 0)
        BY <1>5, <1>6, <2>1, <2>4
      <3>2. (a + 1) * q = a * q + q
        OBVIOUS
      <3>3. upTo[n] = (a + 1) * q + (IF a + 1 <= r THEN a + 1 ELSE r)
        BY <2>2, <2>3, <2>4, <3>1, <3>2
      <3> QED  BY <3>1, <3>3
    <2>5. CASE n \notin members
      <3>1. count(n) = a /\ upTo[n] = upTo[n - 1]
        <4>1. count(n) = a
          BY <1>5, <2>1, <2>5
        <4>2. upTo[n - 1] \in Nat
          <5>1. upTo \in [0..k -> Nat] /\ n - 1 \in 0..k
            BY <1>1 DEF AddsUp
          <5> QED  BY <5>1
        <4> QED  BY <2>3, <2>5, <4>1, <4>2
      <3> QED  BY <2>2, <3>1
    <2> QED  BY <2>4, <2>5
  <1>9. k \in P
    <2> HIDE DEF P
    <2>1. k \in 0..k
      OBVIOUS
    <2> QED  BY <1>7, <1>8, <2>1, CountedUp
  <1>10. upTo[k] = c * q + r
    BY <1>4, <1>5, <1>9
  <1> QED  BY <1>1, <1>2, <1>4, <1>10

\* The form: every field has an id of its own, also in the fields that a request for a
\* slug remembers.
RequestSound(r) == OnceEach(r.fields) /\ \E i \in DOMAIN r.fields : r.fields[i].id = r.id
LayoutInv == LayoutTypeOK /\ OnceEach(drafts) /\ \A r \in slugRequests : RequestSound(r)
IdsTaken(list) == \A i \in DOMAIN list : list[i].id < 10 * (1 + acts)
IdsBelow == acts \in Nat /\ IdsTaken(drafts) /\ \A r \in slugRequests : IdsTaken(r.fields)

LEMMA DraftsType ==
    ASSUME LayoutInv
    PROVE  /\ drafts \in Seq(LayoutDraft) /\ resizing \in Resizing /\ dropping \in Nat
           /\ Len(drafts) \in Nat /\ DOMAIN drafts = 1..Len(drafts)
           /\ \A i \in DOMAIN drafts : drafts[i] \in LayoutDraft /\ drafts[i].id \in Nat
                                       /\ drafts[i].width \in 1..GridCols
           /\ \A i \in DOMAIN drafts : DraftOf(drafts[i].id) = drafts[i]
  <1>1. drafts \in Seq(LayoutDraft) /\ resizing \in Resizing /\ dropping \in Nat
    BY DEF LayoutInv, LayoutTypeOK
  <1>2. Len(drafts) \in Nat /\ DOMAIN drafts = 1..Len(drafts)
    BY <1>1, LenProperties
  <1>3. \A i \in DOMAIN drafts : drafts[i] \in LayoutDraft
    BY <1>1, <1>2, ElementOfSeq
  <1>4. \A d \in LayoutDraft : d.id \in Nat /\ d.width \in 1..GridCols
    BY DEF LayoutDraft
  <1>5. ASSUME NEW i \in DOMAIN drafts  PROVE DraftOf(drafts[i].id) = drafts[i]
    <2> DEFINE at == CHOOSE j \in DOMAIN drafts : drafts[j].id = drafts[i].id
    <2>1. at \in DOMAIN drafts /\ drafts[at].id = drafts[i].id
      BY Zenon
    <2> HIDE DEF at
    <2>2. at = i
      BY <2>1 DEF LayoutInv, OnceEach
    <2> QED  BY <2>2 DEF DraftOf, at
  <1> QED  BY <1>1, <1>2, <1>3, <1>4, <1>5

LEMMA WithDraftKeeps ==
    ASSUME NEW list \in Seq(LayoutDraft), OnceEach(list), NEW d \in LayoutDraft
    PROVE  /\ WithDraft(list, d) \in Seq(LayoutDraft) /\ DOMAIN WithDraft(list, d) = DOMAIN list
           /\ \A i \in DOMAIN list : /\ WithDraft(list, d)[i] = IF list[i].id = d.id THEN d ELSE list[i]
                                     /\ WithDraft(list, d)[i].id = list[i].id
           /\ OnceEach(WithDraft(list, d))
  <1>1. PICK k \in Nat : k = Len(list) /\ DOMAIN list = 1..k
    BY LenProperties
  <1>2. PICK with : with = WithDraft(list, d)
    OBVIOUS
  <1>3. with = [i \in 1..k |-> IF list[i].id = d.id THEN d ELSE list[i]]
    BY <1>1, <1>2 DEF WithDraft
  <1>4. \A i \in 1..k : with[i] \in LayoutDraft /\ with[i].id = list[i].id
    <2>1. \A i \in 1..k : list[i] \in LayoutDraft
      BY <1>1, ElementOfSeq
    <2> QED  BY <1>3, <2>1
  <1>5. with \in Seq(LayoutDraft)
    <2>1. with = [i \in 1..k |-> with[i]]
      BY <1>3
    <2> QED  BY <1>4, <2>1, IsASeq
  <1>6. DOMAIN with = 1..k
    BY <1>3
  <1>7. OnceEach(with)
    BY <1>1, <1>4, <1>6, OnceSame
  <1> QED  BY <1>1, <1>2, <1>3, <1>4, <1>5, <1>6, <1>7

LEMMA UpdateKeeps ==
    ASSUME LayoutInv, NEW d \in LayoutDraft, UpdateDraft(d)
    PROVE  /\ drafts' \in Seq(LayoutDraft) /\ DOMAIN drafts' = DOMAIN drafts
           /\ \A i \in DOMAIN drafts : /\ drafts'[i] = IF drafts[i].id = d.id THEN d ELSE drafts[i]
                                       /\ drafts'[i].id = drafts[i].id
           /\ OnceEach(drafts')
  <1>1. drafts \in Seq(LayoutDraft) /\ OnceEach(drafts) /\ drafts' = WithDraft(drafts, d)
    BY DEF LayoutInv, LayoutTypeOK, UpdateDraft
  <1> QED  BY <1>1, WithDraftKeeps

\* What a request for a slug brings back: its fields, with their ids.
LEMMA SlugRequestType ==
    ASSUME LayoutInv, NEW r \in slugRequests
    PROVE  /\ r \in SlugRequest /\ r.fields \in Seq(LayoutDraft) /\ OnceEach(r.fields)
           /\ \A i \in DOMAIN r.fields : r.fields[i] \in LayoutDraft /\ r.fields[i].id \in Nat
           /\ \E i \in DOMAIN r.fields : r.fields[i].id = r.id
  <1>1. r \in SlugRequest /\ RequestSound(r)
    BY DEF LayoutInv, LayoutTypeOK
  <1>2. r.fields \in Seq(LayoutDraft)
    BY <1>1 DEF SlugRequest
  <1>3. \A i \in DOMAIN r.fields : r.fields[i] \in LayoutDraft
    BY <1>2, ElementOfSeq, LenProperties
  <1>4. \A d \in LayoutDraft : d.id \in Nat
    BY DEF LayoutDraft
  <1> QED  BY <1>1, <1>2, <1>3, <1>4 DEF RequestSound

LEMMA ArrivedFields ==
    ASSUME LayoutInv, SlugArrives
    PROVE  /\ drafts' \in Seq(LayoutDraft) /\ OnceEach(drafts') /\ slugRequests' \subseteq slugRequests
           /\ \A i \in DOMAIN drafts' :
                \/ \E j \in DOMAIN drafts : drafts'[i].id = drafts[j].id
                \/ \E r \in slugRequests : \E j \in DOMAIN r.fields : drafts'[i].id = r.fields[j].id
  <1> DEFINE at(r) == CHOOSE i \in DOMAIN r.fields : r.fields[i].id = r.id
             d(r) == r.fields[at(r)]
  <1>1. PICK r \in slugRequests :
            /\ slugRequests' = slugRequests \ {r}
            /\ drafts' \in {drafts, WithDraft(r.fields, [d(r) EXCEPT !.slug = TRUE])}
    BY DEF SlugArrives
  <1>2. at(r) \in DOMAIN r.fields
    <2>1. \E i \in DOMAIN r.fields : r.fields[i].id = r.id
      BY SlugRequestType
    <2> QED  BY <2>1
  <1> HIDE DEF at
  <1>3. PICK e \in LayoutDraft : e = [d(r) EXCEPT !.slug = TRUE]
    <2>1. d(r) \in LayoutDraft
      BY <1>2, SlugRequestType
    <2>2. [d(r) EXCEPT !.slug = TRUE] \in LayoutDraft
      BY <2>1 DEF LayoutDraft
    <2> QED  BY <2>2
  <1>4. CASE drafts' = drafts
    BY <1>1, <1>4 DEF LayoutInv, LayoutTypeOK, OnceEach
  <1>5. CASE drafts' = WithDraft(r.fields, e)
    <2>1. /\ drafts' \in Seq(LayoutDraft) /\ DOMAIN drafts' = DOMAIN r.fields /\ OnceEach(drafts')
          /\ \A i \in DOMAIN r.fields : drafts'[i].id = r.fields[i].id
      <3>1. PICK list \in Seq(LayoutDraft) : list = r.fields /\ OnceEach(list)
        BY SlugRequestType
      <3>2. /\ WithDraft(list, e) \in Seq(LayoutDraft) /\ DOMAIN WithDraft(list, e) = DOMAIN list
            /\ \A i \in DOMAIN list : WithDraft(list, e)[i].id = list[i].id
            /\ OnceEach(WithDraft(list, e))
        <4>1. WithDraft(list, e) \in Seq(LayoutDraft) /\ DOMAIN WithDraft(list, e) = DOMAIN list
          BY <3>1, WithDraftKeeps
        <4>2. OnceEach(WithDraft(list, e))
          BY <3>1, WithDraftKeeps
        <4>3. \A i \in DOMAIN list : WithDraft(list, e)[i].id = list[i].id
          BY <3>1, WithDraftKeeps
        <4> QED  BY <4>1, <4>2, <4>3
      <3>3. drafts' = WithDraft(list, e)
        BY <1>5, <3>1
      <3>4. OnceEach(drafts')
        BY <3>2, <3>3 DEF OnceEach
      <3> QED  BY <3>1, <3>2, <3>3, <3>4
    <2> QED  BY <1>1, <2>1
  <1> QED  BY <1>1, <1>3, <1>4, <1>5

LEMMA LayoutStarts == LayoutInit => LayoutInv /\ (acts = 0 => IdsBelow)
  <1> SUFFICES ASSUME LayoutInit  PROVE LayoutInv /\ (acts = 0 => IdsBelow)
    OBVIOUS
  <1>1. PICK form \in Layouts : drafts = DraftsOf(form)
    BY DEF LayoutInit
  <1>2. form \in Seq(0..GridCols) /\ Len(form) < 10 /\ GridCols \in Nat \ {0}
    BY FormLayoutAssumption
  <1>3. PICK k \in Nat : k = Len(form) /\ DOMAIN form = 1..k /\ k < 10
    BY <1>2, LenProperties
  <1> DEFINE new(i) == [id |-> i, width |-> IF form[i] = 0 THEN GridCols ELSE form[i],
                        slug |-> TRUE, layout |-> form[i] = 0]
  <1>4. drafts = [i \in 1..k |-> new(i)]
    BY <1>1, <1>3 DEF DraftsOf
  <1>5. ASSUME NEW i \in 1..k  PROVE new(i) \in LayoutDraft /\ new(i).id = i
    <2>1. form[i] \in 0..GridCols
      BY <1>2, <1>3, ElementOfSeq
    <2>2. PICK w \in 1..GridCols : w = IF form[i] = 0 THEN GridCols ELSE form[i]
      BY <1>2, <2>1
    <2>3. PICK l \in BOOLEAN : l <=> form[i] = 0
      OBVIOUS
    <2>4. i \in Nat
      OBVIOUS
    <2>5. new(i) = [id |-> i, width |-> w, slug |-> TRUE, layout |-> form[i] = 0]
      BY <2>2
    <2>6. (form[i] = 0) \in BOOLEAN
      OBVIOUS
    <2> QED  BY <2>2, <2>4, <2>5, <2>6 DEF LayoutDraft
  <1> HIDE DEF new
  <1>6. DOMAIN drafts = 1..k /\ \A i \in 1..k : drafts[i] \in LayoutDraft /\ drafts[i].id = i
    BY <1>4, <1>5
  <1>7. drafts \in Seq(LayoutDraft)
    <2>1. drafts = [i \in 1..k |-> drafts[i]]
      BY <1>4
    <2> QED  BY <1>6, <2>1, IsASeq
  <1>8. OnceEach(drafts)
    BY <1>6 DEF OnceEach
  <1>9. resizing \in Resizing /\ dropping \in Nat
    <2>1. 1 \in 1..GridCols /\ 0 \in Nat
      BY <1>2
    <2>2. NoDraft \in LayoutDraft
      BY <2>1 DEF NoDraft, LayoutDraft
    <2>3. NotResizing \in Resizing
      BY <2>1, <2>2 DEF NotResizing, Resizing
    <2> QED  BY <2>1, <2>3 DEF LayoutInit
  <1>r. slugRequests = {}
    BY DEF LayoutInit
  <1>10. ASSUME acts = 0  PROVE IdsBelow
    BY <1>3, <1>6, <1>10, <1>r DEF IdsBelow, IdsTaken
  <1> QED  BY <1>7, <1>8, <1>9, <1>10, <1>r DEF LayoutInv, LayoutTypeOK

\* What a step on the screen may do to the rest of the invariant
LEMMA LayoutRest ==
    ASSUME LayoutInv, drafts' \in Seq(LayoutDraft), OnceEach(drafts'), resizing' \in Resizing,
           dropping' \in Nat, slugRequests' \subseteq slugRequests
    PROVE  LayoutInv'
  BY DEF LayoutInv, LayoutTypeOK, OnceEach, RequestSound

LEMMA IdsStayBelow ==
    ASSUME LayoutInv, LayoutInv', IdsBelow, NEW d \in Nat, acts' = acts + d,
           \A r \in slugRequests' : r \in slugRequests \/ r.fields = drafts,
           \A i \in DOMAIN drafts' :
              \/ \E j \in DOMAIN drafts : drafts'[i].id = drafts[j].id
              \/ \E r \in slugRequests : \E j \in DOMAIN r.fields : drafts'[i].id = r.fields[j].id
              \/ d = 1 /\ drafts'[i].id = 10 * (1 + acts)
    PROVE  IdsBelow'
  <1>1. acts \in Nat /\ acts' \in Nat
    BY DEF IdsBelow
  <1>2. 10 * (1 + acts) <= 10 * (1 + acts')
    BY <1>1
  <1>3. ASSUME NEW list, list = drafts \/ \E r \in slugRequests : list = r.fields, NEW j \in DOMAIN list
        PROVE  list[j].id \in Nat /\ list[j].id < 10 * (1 + acts) /\ list[j].id < 10 * (1 + acts')
    <2>1. list[j].id \in Nat
      BY <1>3, DraftsType, SlugRequestType
    <2>2. list[j].id < 10 * (1 + acts)
      BY <1>3 DEF IdsBelow, IdsTaken
    <2> QED  BY <1>1, <1>2, <2>1, <2>2
  <1>4. ASSUME NEW i \in DOMAIN drafts'  PROVE drafts'[i].id < 10 * (1 + acts')
    <2>1. CASE \E j \in DOMAIN drafts : drafts'[i].id = drafts[j].id
      BY <1>3, <2>1
    <2>2. CASE \E r \in slugRequests : \E j \in DOMAIN r.fields : drafts'[i].id = r.fields[j].id
      BY <1>3, <2>2
    <2>3. CASE d = 1 /\ drafts'[i].id = 10 * (1 + acts)
      BY <1>1, <2>3
    <2> QED  BY <1>4, <2>1, <2>2, <2>3
  <1>5. ASSUME NEW r \in slugRequests', NEW j \in DOMAIN r.fields  PROVE r.fields[j].id < 10 * (1 + acts')
    BY <1>3, <1>5
  <1> QED  BY <1>1, <1>4, <1>5 DEF IdsBelow, IdsTaken

\* A drop moves one field; those of the row may get another width.
LEMMA RowWithin ==
    ASSUME LayoutInv, NEW from \in DOMAIN drafts, NEW to \in DOMAIN drafts
    PROVE  to \in RowMembers(from, to) /\ RowMembers(from, to) \in SUBSET (DOMAIN drafts)
  <1>1. PICK k \in Nat : k = Len(drafts) /\ DOMAIN drafts = 1..k
    BY DraftsType
  <1>2. PICK l \in Nat : l = k - 1
    BY <1>1
  <1>3. DOMAIN Rest(from) = 1..l
    <2>1. from \in 1..Len(drafts) /\ drafts \in Seq(LayoutDraft)
      BY <1>1, DraftsType
    <2>2. RemoveAt(drafts, from) \in Seq(LayoutDraft) /\ Len(RemoveAt(drafts, from)) = Len(drafts) - 1
      BY <2>1, RemoveAtType
    <2> QED  BY <1>1, <1>2, <2>2, LenProperties DEF Rest
  <1>4. TargetRow(from, to) \in SUBSET (1..l)
    BY <1>3 DEF TargetRow
  <1>5. \A i \in 1..l : (IF i >= to THEN i + 1 ELSE i) \in 1..k
    BY <1>1, <1>2
  <1> QED  BY <1>1, <1>4, <1>5 DEF RowMembers

LEMMA DropMoves ==
    ASSUME LayoutInv, NEW from \in DOMAIN drafts, NEW to \in DOMAIN drafts
    PROVE  /\ Moved(from, to) \in Seq(LayoutDraft)
           /\ DOMAIN Moved(from, to) = DOMAIN drafts
           /\ IsShuffled(Moved(from, to), drafts, Len(drafts))
           /\ OnceEach(Moved(from, to))
  <1>1. PICK k \in Nat : k = Len(drafts) /\ DOMAIN drafts = 1..k
    BY DraftsType
  <1>2. drafts \in Seq(LayoutDraft) /\ OnceEach(drafts)
    BY DEF LayoutInv, LayoutTypeOK
  <1>3. PICK a \in 1..k, b \in 1..k : a = from /\ b = to
    BY <1>1
  <1>4. PICK t : t = Moved(from, to) /\ IsMoved(t, drafts, a, b)
    BY <1>3 DEF Moved, Rest, IsMoved
  <1>5. t \in Seq(LayoutDraft) /\ DOMAIN t = 1..k /\ IsShuffled(t, drafts, k)
    BY <1>1, <1>2, <1>4, MoveWithin
  <1>6. OnceEach(t)
    BY <1>1, <1>2, <1>4, OnceMoved
  <1> QED  BY <1>1, <1>4, <1>5, <1>6

LEMMA RowCounted ==
    ASSUME LayoutInv, NEW from \in DOMAIN drafts, NEW to \in DOMAIN drafts, Crowded(from, to)
    PROVE  /\ Cardinality(RowMembers(from, to)) \in 1..GridCols
           /\ \A i \in RowMembers(from, to) :
                Cardinality(RowMembers(from, to) \cap 1..i) \in 1..Cardinality(RowMembers(from, to))
  <1>1. PICK k \in Nat : k = Len(drafts) /\ DOMAIN drafts = 1..k
    BY DraftsType
  <1>2. PICK members \in SUBSET (1..k) : members = RowMembers(from, to) /\ to \in members
    BY <1>1, RowWithin
  <1> DEFINE count(n) == Cardinality(members \cap 1..n)
  <1>3. /\ IsFiniteSet(members) /\ members \cap 1..k = members /\ count(0) = 0
        /\ \A n \in 0..k : count(n) \in Nat /\ count(n) <= Cardinality(members)
        /\ \A n \in 1..k : count(n) = count(n - 1) + (IF n \in members THEN 1 ELSE 0)
    BY PlacesCounted
  <1>4. Cardinality(members) \in Nat
    BY <1>3, FS_CardinalityType
  <1> HIDE DEF count
  <1>5. ASSUME NEW i \in members  PROVE count(i) \in 1..Cardinality(members)
    <2>1. i \in 1..k /\ i \in 0..k /\ i - 1 \in 0..k
      BY <1>2
    <2>2. count(i) = count(i - 1) + 1 /\ count(i - 1) \in Nat /\ count(i) <= Cardinality(members)
      BY <1>3, <2>1
    <2> QED  BY <1>4, <2>2
  <1>6. Cardinality(members) >= 1
    <2>1. count(to) \in 1..Cardinality(members)
      BY <1>2, <1>5
    <2> QED  BY <1>4, <2>1
  <1>7. Cardinality(members) <= GridCols
    BY <1>2 DEF Crowded
  <1>8. GridCols \in Nat
    BY FormLayoutAssumption
  <1>9. Cardinality(members) \in 1..GridCols
    BY <1>4, <1>6, <1>7, <1>8
  <1> QED  BY <1>2, <1>5, <1>9 DEF count

RowShare(from, to, i) ==
    EvenWidth(Cardinality(RowMembers(from, to) \cap 1..i), Cardinality(RowMembers(from, to)))

LEMMA DropFacts ==
    ASSUME LayoutInv, NEW from \in DOMAIN drafts, NEW to \in DOMAIN drafts, dropField(from, to)
    PROVE  /\ drafts' \in Seq(LayoutDraft) /\ DOMAIN drafts' = DOMAIN drafts /\ OnceEach(drafts')
           /\ \A i \in DOMAIN drafts :
                /\ drafts'[i].id = Moved(from, to)[i].id
                /\ drafts'[i].width = IF Crowded(from, to) /\ i \in RowMembers(from, to)
                                      THEN RowShare(from, to, i) ELSE Moved(from, to)[i].width
  <1>1. PICK k \in Nat : k = Len(drafts) /\ DOMAIN drafts = 1..k
    BY DraftsType
  <1>2. PICK t : t = Moved(from, to)
    OBVIOUS
  <1>3. t \in Seq(LayoutDraft) /\ DOMAIN t = 1..k /\ OnceEach(t)
    BY <1>1, <1>2, DropMoves
  <1>4. \A i \in 1..k : t[i] \in LayoutDraft
    BY <1>3, ElementOfSeq, LenProperties
  <1>5. CASE ~Crowded(from, to)
    <2>1. drafts' = t
      BY <1>2, <1>5 DEF dropField
    <2>2. \A i \in 1..k : drafts'[i].id = t[i].id /\ drafts'[i].width = t[i].width
      BY <2>1
    <2> QED  BY <1>1, <1>2, <1>3, <1>5, <2>1, <2>2
  <1>6. CASE Crowded(from, to)
    <2> DEFINE new(i) == IF i \in RowMembers(from, to)
                         THEN [t[i] EXCEPT !.width = RowShare(from, to, i)] ELSE t[i]
    <2>1. drafts' = [i \in 1..k |-> new(i)]
      BY <1>2, <1>3, <1>6 DEF dropField, RowShare
    <2>2. ASSUME NEW i \in 1..k
          PROVE  /\ new(i) \in LayoutDraft /\ new(i).id = t[i].id
                 /\ new(i).width = IF i \in RowMembers(from, to) THEN RowShare(from, to, i) ELSE t[i].width
      <3>1. t[i] \in LayoutDraft
        BY <1>4
      <3>2. CASE i \in RowMembers(from, to)
        <4>1. PICK w \in 1..GridCols : w = RowShare(from, to, i)
          <5>1. PICK c \in 1..GridCols : c = Cardinality(RowMembers(from, to))
            BY <1>6, RowCounted
          <5>2. PICK p \in 1..c : p = Cardinality(RowMembers(from, to) \cap 1..i)
            BY <1>6, <3>2, <5>1, RowCounted
          <5>3. EvenWidth(p, c) \in 1..GridCols
            BY EvenType
          <5> QED  BY <5>1, <5>2, <5>3 DEF RowShare
        <4>2. new(i) = [t[i] EXCEPT !.width = w]
          BY <3>2, <4>1
        <4>3. [t[i] EXCEPT !.width = w] \in LayoutDraft
          BY <3>1 DEF LayoutDraft
        <4>4. [t[i] EXCEPT !.width = w].id = t[i].id /\ [t[i] EXCEPT !.width = w].width = w
          BY <3>1 DEF LayoutDraft
        <4> QED  BY <3>2, <4>1, <4>2, <4>3, <4>4
      <3>3. CASE i \notin RowMembers(from, to)
        BY <3>1, <3>3
      <3> QED  BY <3>2, <3>3
    <2> HIDE DEF new
    <2>3. DOMAIN drafts' = 1..k /\ \A i \in 1..k : drafts'[i] = new(i)
      BY <2>1
    <2>4. drafts' \in Seq(LayoutDraft)
      BY <2>1, <2>2, IsASeq
    <2>5. OnceEach(drafts')
      BY <1>3, <2>2, <2>3, OnceSame
    <2>6. \A i \in 1..k : /\ drafts'[i].id = t[i].id
                          /\ drafts'[i].width = IF i \in RowMembers(from, to) THEN RowShare(from, to, i) ELSE t[i].width
      BY <2>2, <2>3
    <2> QED  BY <1>1, <1>2, <1>6, <2>3, <2>4, <2>5, <2>6
  <1> QED  BY <1>5, <1>6

LEMMA LayoutStep ==
    LayoutInv /\ ((LayoutNext /\ IdsBelow) \/ UNCHANGED layoutVars) => LayoutInv'
  <1>0. ASSUME LayoutInv, UNCHANGED layoutVars  PROVE LayoutInv'
    <2>1. drafts' = drafts /\ resizing' = resizing /\ dropping' = dropping /\ slugRequests' = slugRequests
      BY <1>0 DEF layoutVars
    <2> QED  BY <1>0, <2>1, LayoutRest DEF LayoutInv, LayoutTypeOK
  <1> SUFFICES ASSUME LayoutInv, LayoutNext, IdsBelow  PROVE LayoutInv'
    BY <1>0
  <1>1. /\ drafts \in Seq(LayoutDraft) /\ OnceEach(drafts) /\ resizing \in Resizing /\ dropping \in Nat
        /\ GridCols \in Nat \ {0}
    BY FormLayoutAssumption DEF LayoutInv, LayoutTypeOK
  <1>2. NotResizing \in Resizing
    <2>1. 1 \in 1..GridCols /\ 0 \in Nat
      BY <1>1
    <2>2. NoDraft \in LayoutDraft
      BY <2>1 DEF NoDraft, LayoutDraft
    <2> QED  BY <2>1, <2>2 DEF NotResizing, Resizing
  <1>3. CASE handleResizeStart
    <2>1. PICK i \in DOMAIN drafts : resizing' = [of |-> drafts[i], preview |-> drafts[i].width]
      BY <1>3 DEF handleResizeStart
    <2>2. drafts' = drafts /\ dropping' = dropping /\ slugRequests' = slugRequests
      BY <1>3 DEF handleResizeStart
    <2>3. drafts[i] \in LayoutDraft /\ drafts[i].width \in 1..GridCols
      BY DraftsType
    <2>4. resizing' \in Resizing
      BY <2>1, <2>3 DEF Resizing
    <2> QED  BY <1>1, <2>2, <2>4, LayoutRest
  <1>4. CASE onMouseMove
    <2>1. PICK delta \in -GridCols..GridCols :
             resizing' = [resizing EXCEPT !.preview = Max({1, Min({GridCols, resizing.of.width + delta})})]
      BY <1>4 DEF onMouseMove
    <2>2. drafts' = drafts /\ dropping' = dropping /\ slugRequests' = slugRequests
      BY <1>4 DEF onMouseMove
    <2>3. PICK g \in Nat \ {0}, w \in Int : g = GridCols /\ w = resizing.of.width + delta
      <3>1. resizing.of \in LayoutDraft
        BY <1>1 DEF Resizing
      <3>2. resizing.of.width \in 1..GridCols
        BY <3>1 DEF LayoutDraft
      <3>3. resizing.of.width \in Int /\ delta \in Int
        BY <1>1, <3>2
      <3> QED  BY <1>1, <3>3
    <2>4. PICK m \in Int : m = Min({g, w}) /\ m <= g
      <3>1. PICK a \in Int : a = g
        OBVIOUS
      <3>2. Min({a, w}) \in {a, w} /\ Min({a, w}) <= a
        BY PairBounds
      <3> QED  BY <3>1, <3>2
    <2>5. PICK n \in Int : n = Max({1, m}) /\ n >= 1 /\ n <= g
      <3>1. PICK b \in Int : b = 1
        OBVIOUS
      <3>2. Max({b, m}) \in {b, m} /\ Max({b, m}) >= b
        BY PairBounds
      <3>3. 1 <= g /\ m <= g
        BY <2>4
      <3> QED  BY <3>1, <3>2, <3>3
    <2>6. n \in 1..GridCols
      BY <2>3, <2>5
    <2>7. resizing' = [resizing EXCEPT !.preview = n]
      BY <2>1, <2>3, <2>4, <2>5
    <2>8. resizing' \in Resizing
      BY <1>1, <2>6, <2>7 DEF Resizing
    <2> QED  BY <1>1, <2>2, <2>8, LayoutRest
  <1>5. CASE onMouseUp
    <2>1. resizing' = NotResizing /\ dropping' = dropping /\ slugRequests' = slugRequests
      BY <1>5 DEF onMouseUp
    <2>2. CASE resizing.of.id \in DraftIds
      <3>1. PICK w \in 1..GridCols : w = resizing.preview
        BY <1>1 DEF Resizing
      <3>2. PICK i \in DOMAIN drafts : drafts[i].id = resizing.of.id
        BY <2>2 DEF DraftIds
      <3>3. DraftOf(resizing.of.id) = drafts[i] /\ drafts[i] \in LayoutDraft
        BY <3>2, DraftsType
      <3>4. PICK d \in LayoutDraft : d = [DraftOf(resizing.of.id) EXCEPT !.width = w]
        <4>1. [drafts[i] EXCEPT !.width = w] \in LayoutDraft
          BY <3>3 DEF LayoutDraft
        <4> QED  BY <3>3, <4>1
      <3>5. UpdateDraft(d)
        BY <1>5, <2>2, <3>1, <3>4 DEF onMouseUp
      <3> QED  BY <1>1, <1>2, <2>1, <3>5, UpdateKeeps, LayoutRest
    <2>3. CASE resizing.of.id \notin DraftIds
      BY <1>1, <1>2, <1>5, <2>1, <2>3, LayoutRest DEF onMouseUp
    <2> QED  BY <2>2, <2>3
  <1>6. CASE DropField
    <2>1. PICK from \in DOMAIN drafts, to \in DOMAIN drafts : dropField(from, to)
      BY <1>6 DEF DropField
    <2>2. resizing' = resizing /\ dropping' = dropping /\ slugRequests' = slugRequests
      BY <2>1 DEF dropField
    <2> QED  BY <1>1, <2>1, <2>2, DropFacts, LayoutRest
  <1>7. CASE handlePaletteDrop
    <2>1. PICK layout \in BOOLEAN :
             drafts' = Append(drafts, [id |-> 10 * (1 + acts), width |-> NewWidth, slug |-> FALSE, layout |-> layout])
      BY <1>7 DEF handlePaletteDrop
    <2>2. resizing' = resizing /\ dropping' = dropping /\ slugRequests' = slugRequests
      BY <1>7 DEF handlePaletteDrop
    <2>3. PICK id \in Nat : id = 10 * (1 + acts)
      BY DEF IdsBelow
    <2>4. PICK d \in LayoutDraft : d = [id |-> id, width |-> NewWidth, slug |-> FALSE, layout |-> layout] /\ d.id = id
      <3>1. NewWidth \in 1..GridCols
        BY FormLayoutAssumption
      <3>2. FALSE \in BOOLEAN /\ layout \in BOOLEAN
        OBVIOUS
      <3>3. [id |-> id, width |-> NewWidth, slug |-> FALSE, layout |-> layout] \in LayoutDraft
        BY <3>1, <3>2 DEF LayoutDraft
      <3> QED  BY <3>3
    <2>5. drafts' = Append(drafts, d)
      BY <2>1, <2>3, <2>4
    <2>6. drafts' \in Seq(LayoutDraft)
      BY <1>1, <2>5, AppendType
    <2>7. \A i \in DOMAIN drafts : drafts[i].id # d.id
      <3> SUFFICES ASSUME NEW i \in DOMAIN drafts  PROVE drafts[i].id # d.id
        OBVIOUS
      <3>1. PICK n \in Nat : n = drafts[i].id
        BY DraftsType
      <3>2. n < 10 * (1 + acts)
        BY <3>1 DEF IdsBelow, IdsTaken
      <3> QED  BY <2>3, <2>4, <3>1, <3>2
    <2>8. OnceEach(drafts')
      BY <1>1, <2>5, <2>7, OnceAppend
    <2> QED  BY <1>1, <2>2, <2>6, <2>8, LayoutRest
  <1>8. CASE AskRemove
    <2>1. drafts' = drafts /\ resizing' = resizing /\ dropping' \in DraftIds /\ slugRequests' = slugRequests
      BY <1>8 DEF AskRemove
    <2>2. dropping' \in Nat
      BY <2>1, DraftsType DEF DraftIds
    <2> QED  BY <1>1, <2>1, <2>2, LayoutRest
  <1>9. CASE AnswerRemove
    <2>1. dropping' = 0 /\ resizing' = resizing /\ slugRequests' = slugRequests
      BY <1>9 DEF AnswerRemove
    <2>2. drafts' \in Seq(LayoutDraft) /\ OnceEach(drafts')
      <3>1. CASE drafts' = drafts
        BY <1>1, <3>1
      <3>2. CASE drafts' = Filter(drafts, LAMBDA d : d.id # dropping)
        <4>1. PICK spots \in SUBSET (DOMAIN drafts) : drafts' = ElementsAt(drafts, spots)
          <5> DEFINE kept == {i \in DOMAIN drafts : drafts[i].id # dropping}
          <5>1. drafts' = ElementsAt(drafts, kept)
            BY <3>2 DEF Filter
          <5>2. kept \in SUBSET (DOMAIN drafts)
            OBVIOUS
          <5> HIDE DEF kept
          <5> QED  BY <5>1, <5>2
        <4>2. drafts' \in Seq(LayoutDraft)
          BY <1>1, <4>1, ElementsAtType
        <4>3. OnceEach(drafts')
          BY <1>1, <4>1, OncePassed
        <4> QED  BY <4>2, <4>3
      <3> QED  BY <1>9, <3>1, <3>2 DEF AnswerRemove
    <2>3. 0 \in Nat
      OBVIOUS
    <2> QED  BY <1>1, <2>1, <2>2, <2>3, LayoutRest
  <1>10. CASE AskSlug
    <2>1. PICK i \in DOMAIN drafts :
             slugRequests' \subseteq slugRequests \cup {[id |-> drafts[i].id, fields |-> drafts]}
      BY <1>10 DEF AskSlug
    <2>2. drafts' = drafts /\ resizing' = resizing /\ dropping' = dropping
      BY <1>10 DEF AskSlug
    <2>3. PICK r \in SlugRequest : r = [id |-> drafts[i].id, fields |-> drafts] /\ RequestSound(r)
      <3>1. [id |-> drafts[i].id, fields |-> drafts] \in SlugRequest
        BY <1>1, DraftsType DEF SlugRequest
      <3> QED  BY <1>1, <3>1 DEF RequestSound
    <2>4. \A q \in slugRequests' : q \in SlugRequest /\ RequestSound(q)
      BY <2>1, <2>3 DEF LayoutInv, LayoutTypeOK
    <2> QED  BY <1>1, <2>2, <2>4 DEF LayoutInv, LayoutTypeOK, OnceEach, RequestSound
  <1>11. CASE SlugArrives
    <2>1. resizing' = resizing /\ dropping' = dropping
      BY <1>11 DEF SlugArrives
    <2> QED  BY <1>1, <1>11, <2>1, ArrivedFields, LayoutRest
  <1> QED  BY <1>3, <1>4, <1>5, <1>6, <1>7, <1>8, <1>9, <1>10, <1>11 DEF LayoutNext

LEMMA IdsStep == LayoutInv /\ LayoutNext /\ IdsBelow => IdsBelow'
  <1> SUFFICES ASSUME LayoutInv, LayoutNext, IdsBelow  PROVE IdsBelow'
    OBVIOUS
  <1>1. LayoutInv'
    BY LayoutStep
  <1>2. drafts \in Seq(LayoutDraft) /\ acts \in Nat /\ 0 \in Nat /\ 1 \in Nat /\ acts + 0 = acts
    BY DEF LayoutInv, LayoutTypeOK, IdsBelow
  <1> DEFINE old(i) == \E j \in DOMAIN drafts : drafts'[i].id = drafts[j].id
  <1>k. slugRequests' = slugRequests => \A r \in slugRequests' : r \in slugRequests \/ r.fields = drafts
    OBVIOUS
  <1>3. CASE drafts' = drafts /\ slugRequests' = slugRequests /\ (acts' = acts \/ acts' = acts + 1)
    <2>1. \A i \in DOMAIN drafts' : old(i)
      BY <1>3
    <2> QED  BY <1>1, <1>2, <1>3, <1>k, <2>1, IdsStayBelow
  <1>4. CASE handleResizeStart \/ onMouseMove \/ AskRemove
    BY <1>3, <1>4 DEF handleResizeStart, onMouseMove, AskRemove, Act
  <1>5. CASE onMouseUp
    <2>1. acts' = acts /\ slugRequests' = slugRequests
      BY <1>5 DEF onMouseUp
    <2>2. CASE resizing.of.id \in DraftIds
      <3>1. PICK d \in LayoutDraft : UpdateDraft(d)
        <4>1. PICK w \in 1..GridCols : w = resizing.preview
          BY DEF LayoutInv, LayoutTypeOK, Resizing
        <4>2. PICK i \in DOMAIN drafts : drafts[i].id = resizing.of.id
          BY <2>2 DEF DraftIds
        <4>3. DraftOf(resizing.of.id) = drafts[i] /\ drafts[i] \in LayoutDraft
          BY <4>2, DraftsType
        <4>4. PICK d \in LayoutDraft : d = [DraftOf(resizing.of.id) EXCEPT !.width = w]
          <5>1. [drafts[i] EXCEPT !.width = w] \in LayoutDraft
            BY <4>3 DEF LayoutDraft
          <5> QED  BY <4>3, <5>1
        <4>5. UpdateDraft(d)
          BY <1>5, <2>2, <4>1, <4>4 DEF onMouseUp
        <4> QED  BY <4>5
      <3>2. \A i \in DOMAIN drafts' : old(i)
        BY <3>1, UpdateKeeps
      <3> QED  BY <1>1, <1>2, <1>k, <2>1, <3>2, IdsStayBelow
    <2>3. CASE resizing.of.id \notin DraftIds
      BY <1>3, <1>5, <2>1, <2>3 DEF onMouseUp
    <2> QED  BY <2>2, <2>3
  <1>6. CASE DropField
    <2>1. PICK from \in DOMAIN drafts, to \in DOMAIN drafts : dropField(from, to)
      BY <1>6 DEF DropField
    <2>2. acts' = acts + 1 /\ slugRequests' = slugRequests
      BY <2>1 DEF dropField, Act
    <2>3. \A i \in DOMAIN drafts' : old(i)
      <3> SUFFICES ASSUME NEW i \in DOMAIN drafts'  PROVE old(i)
        OBVIOUS
      <3>1. i \in DOMAIN drafts /\ drafts'[i].id = Moved(from, to)[i].id
        BY <2>1, DropFacts
      <3>2. \E j \in DOMAIN drafts : Moved(from, to)[i] = drafts[j]
        <4>1. PICK k \in Nat : k = Len(drafts) /\ DOMAIN drafts = 1..k
          BY DraftsType
        <4>2. IsShuffled(Moved(from, to), drafts, k)
          BY <4>1, DropMoves
        <4>3. PICK at \in [1..k -> 1..k] : \A n \in 1..k : Moved(from, to)[n] = drafts[at[n]]
          BY <4>2 DEF IsShuffled
        <4>4. i \in 1..k /\ at[i] \in 1..k
          BY <3>1, <4>1, <4>3
        <4> QED  BY <4>1, <4>3, <4>4
      <3> QED  BY <3>1, <3>2
    <2> QED  BY <1>1, <1>2, <1>k, <2>2, <2>3, IdsStayBelow
  <1>7. CASE handlePaletteDrop
    <2>1. PICK layout \in BOOLEAN :
             drafts' = Append(drafts, [id |-> 10 * (1 + acts), width |-> NewWidth, slug |-> FALSE, layout |-> layout])
      BY <1>7 DEF handlePaletteDrop
    <2>2. acts' = acts + 1 /\ slugRequests' = slugRequests
      BY <1>7 DEF handlePaletteDrop, Act
    <2>3. PICK id \in Nat : id = 10 * (1 + acts)
      BY <1>2
    <2>4. PICK d : d = [id |-> id, width |-> NewWidth, slug |-> FALSE, layout |-> layout]
      OBVIOUS
    <2>5. drafts' = Append(drafts, d) /\ d.id = id
      BY <2>1, <2>3, <2>4
    <2>6. PICK k \in Nat : k = Len(drafts) /\ DOMAIN drafts = 1..k
      BY DraftsType
    <2>7. \A i \in DOMAIN drafts' : old(i) \/ drafts'[i].id = 10 * (1 + acts)
      <3>1. DOMAIN drafts' = 1..k + 1 /\ \A i \in 1..k + 1 : drafts'[i] = IF i \in 1..k THEN drafts[i] ELSE d
        BY <1>2, <2>5, <2>6, AppendProperties
      <3> QED  BY <2>3, <2>5, <2>6, <3>1
    <2> QED  BY <1>1, <1>2, <1>k, <2>2, <2>7, IdsStayBelow
  <1>8. CASE AnswerRemove
    <2>1. acts' = acts /\ slugRequests' = slugRequests
      BY <1>8 DEF AnswerRemove
    <2>2. CASE drafts' = drafts
      BY <1>3, <2>1, <2>2
    <2>3. CASE drafts' = Filter(drafts, LAMBDA d : d.id # dropping)
      <3>1. PICK spots \in SUBSET (DOMAIN drafts) : drafts' = ElementsAt(drafts, spots)
        <4> DEFINE kept == {i \in DOMAIN drafts : drafts[i].id # dropping}
        <4>1. drafts' = ElementsAt(drafts, kept)
          BY <2>3 DEF Filter
        <4>2. kept \in SUBSET (DOMAIN drafts)
          OBVIOUS
        <4> HIDE DEF kept
        <4> QED  BY <4>1, <4>2
      <3>2. PICK t : t = ElementsAt(drafts, spots)
        OBVIOUS
      <3>3. DOMAIN t = 1..Cardinality(spots) /\ \A n \in 1..Cardinality(spots) : \E i \in spots : t[n] = drafts[i]
        <4>1. /\ t \in Seq(LayoutDraft) /\ Len(t) = Cardinality(spots)
              /\ \A n \in 1..Cardinality(spots) : \E i \in spots : t[n] = drafts[i]
          BY <1>2, <3>2, ElementsAtType
        <4> QED  BY <4>1, LenProperties
      <3>4. \A n \in DOMAIN t : \E i \in DOMAIN drafts : t[n].id = drafts[i].id
        BY <3>3
      <3>5. \A i \in DOMAIN drafts' : old(i)
        BY <3>1, <3>2, <3>4
      <3> QED  BY <1>1, <1>2, <1>k, <2>1, <3>5, IdsStayBelow
    <2> QED  BY <1>8, <2>2, <2>3 DEF AnswerRemove
  <1>9. CASE AskSlug
    <2>1. drafts' = drafts /\ acts' = acts + 1
      BY <1>9 DEF AskSlug, Act
    <2>2. \A r \in slugRequests' : r \in slugRequests \/ r.fields = drafts
      BY <1>9 DEF AskSlug
    <2>3. \A i \in DOMAIN drafts' : old(i)
      BY <2>1
    <2> QED  BY <1>1, <1>2, <2>1, <2>2, <2>3, IdsStayBelow
  <1>10. CASE SlugArrives
    <2>1. acts' = acts
      BY <1>10 DEF SlugArrives
    <2>2. \A r \in slugRequests' : r \in slugRequests \/ r.fields = drafts
      BY <1>10, ArrivedFields
    <2>3. \A i \in DOMAIN drafts' :
             old(i) \/ \E r \in slugRequests : \E j \in DOMAIN r.fields : drafts'[i].id = r.fields[j].id
      BY <1>10, ArrivedFields
    <2> QED  BY <1>1, <1>2, <2>1, <2>2, <2>3, IdsStayBelow
  <1> QED  BY <1>4, <1>5, <1>6, <1>7, <1>8, <1>9, <1>10 DEF LayoutNext

\* The end of a resize touches one width.
LEMMA ResizeKeeps ==
    ASSUME LayoutInv, onMouseUp, resizing.of.id \in DraftIds
    PROVE  \A i \in DOMAIN drafts : drafts'[i] = [drafts[i] EXCEPT !.width = drafts'[i].width]
  <1>1. PICK w \in 1..GridCols : w = resizing.preview
    BY DEF LayoutInv, LayoutTypeOK, Resizing
  <1>2. PICK n \in DOMAIN drafts : drafts[n].id = resizing.of.id
    BY DEF DraftIds
  <1>3. DraftOf(resizing.of.id) = drafts[n] /\ drafts[n] \in LayoutDraft
    BY <1>2, DraftsType
  <1>4. PICK d \in LayoutDraft : d = [drafts[n] EXCEPT !.width = w] /\ d.id = drafts[n].id /\ d.width = w
    <2>1. [drafts[n] EXCEPT !.width = w] \in LayoutDraft
      BY <1>3 DEF LayoutDraft
    <2>2. [drafts[n] EXCEPT !.width = w].id = drafts[n].id /\ [drafts[n] EXCEPT !.width = w].width = w
      BY <1>3 DEF LayoutDraft
    <2> QED  BY <2>1, <2>2
  <1>5. UpdateDraft(d)
    BY <1>1, <1>3, <1>4 DEF onMouseUp
  <1> SUFFICES ASSUME NEW i \in DOMAIN drafts
               PROVE  drafts'[i] = [drafts[i] EXCEPT !.width = drafts'[i].width]
    OBVIOUS
  <1>6. drafts[i] \in LayoutDraft
    BY DraftsType
  <1>7. drafts'[i] = IF drafts[i].id = d.id THEN d ELSE drafts[i]
    BY <1>5, UpdateKeeps
  <1>8. CASE drafts[i].id = d.id
    <2>1. i = n
      BY <1>4, <1>8 DEF LayoutInv, OnceEach
    <2> QED  BY <1>4, <1>7, <1>8, <2>1
  <1>9. CASE drafts[i].id # d.id
    BY <1>6, <1>7, <1>9 DEF LayoutDraft
  <1> QED  BY <1>8, <1>9

\* A drop fills the row or leaves the widths alone.
LEMMA DropFills ==
    ASSUME LayoutInv, NEW from \in DOMAIN drafts, NEW to \in DOMAIN drafts, dropField(from, to)
    PROVE  LET resized == {i \in DOMAIN drafts' : drafts'[i].width # DraftOf(drafts'[i].id).width}
               members == RowMembers(from, to)
           IN /\ IdsIn(drafts') = IdsIn(drafts)
              /\ resized # {} => /\ resized \subseteq members
                                 /\ WidthSum(drafts', members) = GridCols
              /\ \A i \in members : drafts'[i].width \in 1..GridCols
  <1> DEFINE resized == {i \in DOMAIN drafts' : drafts'[i].width # DraftOf(drafts'[i].id).width}
             members == RowMembers(from, to)
  <1>1. PICK k \in Nat : k = Len(drafts) /\ DOMAIN drafts = 1..k
    BY DraftsType
  <1>2. PICK list : list = drafts'
    OBVIOUS
  <1>3. /\ list \in Seq(LayoutDraft) /\ DOMAIN list = 1..k
        /\ \A i \in 1..k : /\ list[i].id = Moved(from, to)[i].id
                           /\ list[i].width = IF Crowded(from, to) /\ i \in members
                                              THEN RowShare(from, to, i) ELSE Moved(from, to)[i].width
    BY <1>1, <1>2, DropFacts
  <1>4. k = Len(list)
    BY <1>3, LenProperties
  <1>5. \A i \in 1..k : list[i].width \in 1..GridCols
    <2>1. \A i \in 1..k : list[i] \in LayoutDraft
      BY <1>3, <1>4, ElementOfSeq
    <2> QED  BY <2>1 DEF LayoutDraft
  <1>6. PICK at \in [1..k -> 1..k] : /\ \A i \in 1..k : Moved(from, to)[i] = drafts[at[i]]
                                     /\ \A j \in 1..k : \E i \in 1..k : at[i] = j
    <2>1. IsShuffled(Moved(from, to), drafts, k)
      BY <1>1, DropMoves
    <2> QED  BY <2>1 DEF IsShuffled
  <1>7. \A i \in 1..k : list[i].id = drafts[at[i]].id
    BY <1>3, <1>6
  <1>8. IdsIn(drafts') = IdsIn(drafts)
    <2>1. \A i \in 1..k : \E j \in 1..k : list[i].id = drafts[j].id
      BY <1>6, <1>7
    <2>2. ASSUME NEW j \in 1..k  PROVE \E i \in 1..k : list[i].id = drafts[j].id
      <3>1. PICK i \in 1..k : at[i] = j
        BY <1>6
      <3> QED  BY <1>7, <3>1
    <2>3. ASSUME NEW x \in IdsIn(list)  PROVE x \in IdsIn(drafts)
      <3>1. PICK i \in 1..k : x = list[i].id
        BY <1>3, <2>3 DEF IdsIn
      <3> QED  BY <1>1, <2>1, <3>1 DEF IdsIn
    <2>4. ASSUME NEW x \in IdsIn(drafts)  PROVE x \in IdsIn(list)
      <3>1. PICK j \in 1..k : x = drafts[j].id
        BY <1>1, <2>4 DEF IdsIn
      <3> QED  BY <1>3, <2>2, <3>1 DEF IdsIn
    <2> QED  BY <1>2, <2>3, <2>4
  <1>9. ASSUME NEW i \in resized  PROVE Crowded(from, to) /\ i \in members
    <2>1. i \in 1..k /\ list[i].width # DraftOf(list[i].id).width
      BY <1>2, <1>3
    <2>2. DraftOf(list[i].id) = drafts[at[i]]
      <3>1. at[i] \in DOMAIN drafts
        BY <1>1, <1>6, <2>1
      <3>2. DraftOf(drafts[at[i]].id) = drafts[at[i]]
        BY <3>1, DraftsType
      <3>3. list[i].id = drafts[at[i]].id
        BY <1>7, <2>1
      <3> QED  BY <3>2, <3>3, Zenon
    <2>3. list[i].width # Moved(from, to)[i].width
      BY <1>6, <2>1, <2>2
    <2> QED  BY <1>3, <2>1, <2>3
  <1>10. ASSUME Crowded(from, to)  PROVE WidthSum(list, members) = GridCols
    <2>1. PICK at2 \in SUBSET (1..k) : at2 = members
      BY <1>1, RowWithin
    <2>2. PICK c \in 1..GridCols : c = Cardinality(at2)
      BY <1>10, <2>1, RowCounted
    <2>3. \A i \in at2 : list[i].width = EvenWidth(Cardinality(at2 \cap 1..i), c)
      <3>1. \A i \in at2 : list[i].width = RowShare(from, to, i)
        BY <1>3, <1>10, <2>1
      <3> QED  BY <2>1, <2>2, <3>1 DEF RowShare
    <2>4. \A i \in 1..k : list[i].width \in Nat
      <3>1. \A w \in 1..GridCols : w \in Nat
        OBVIOUS
      <3> QED  BY <1>5, <3>1
    <2>5. WidthSum(list, at2) = GridCols
      BY <1>4, <2>2, <2>3, <2>4, EvenFills
    <2> QED  BY <2>1, <2>5
  <1>11. \A i \in members : list[i].width \in 1..GridCols
    BY <1>1, <1>5, RowWithin
  <1>12. resized # {} => resized \subseteq members /\ WidthSum(drafts', members) = GridCols
    BY <1>2, <1>9, <1>10
  <1> QED  BY <1>2, <1>8, <1>11, <1>12
=============================================================================
