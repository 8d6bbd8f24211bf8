----------------------------- MODULE ListScreensProofs -----------------------------
(***************************************************************************)
(* Proofs about the list of records and its views: the question asked of the  *)
(* server and the saved views, the table, the selection, the boards, the       *)
(* spreadsheet field and the import of a file, laid out as in                 *)
(* RecordScreensProofs.                                                       *)
(***************************************************************************)
EXTENDS SequenceLemmas, AppView, TableGrid, RowSelection, KanbanBoard, GanttBoard,
        CalendarBoard, SheetInput, CsvImport

-----------------------------------------------------------------------------
(* The question: the rows asked for are those the tree of conditions describes *)

\* The operators of the fields
LEMMA HeadType ==
    ASSUME NEW s, s \in Seq(ToSet(s)), s # <<>>
    PROVE  Head(s) \in ToSet(s)
  <1>1. 1 \in DOMAIN s /\ Head(s) = s[1]
    <2>1. Len(s) # 0 /\ Len(s) \in Nat
      BY EmptySeq, LenProperties
    <2> QED  BY <2>1, LenProperties
  <1> QED  BY <1>1 DEF ToSet

LEMMA FirstOps ==
    /\ Head(Fields) \in FieldSet
    /\ \A f \in FieldSet : Head(OpsOf[f]) \in ToSet(OpsOf[f])
  BY ViewAssumption, HeadType DEF FieldSet

LEMMA CondType ==
    /\ NewCond \in Cond
    /\ \A f \in FieldSet, v \in Values : [field |-> f, op |-> Head(OpsOf[f]), value |-> v] \in Cond
    /\ \A c \in Cond : Edits(c) \subseteq Cond
  <1>1. \A f \in FieldSet : ToSet(OpsOf[f]) \subseteq CondOps
    BY DEF CondOps
  <1>3. NewCond \in Cond
    BY <1>1, FirstOps DEF NewCond, Cond
  <1>4. \A f \in FieldSet, v \in Values : [field |-> f, op |-> Head(OpsOf[f]), value |-> v] \in Cond
    BY <1>1, FirstOps DEF Cond
  <1>5. ASSUME NEW c \in Cond  PROVE  Edits(c) \subseteq Cond
    <2>1. c.field \in FieldSet /\ c.op \in CondOps /\ c.value \in Values \cup {""}
      BY DEF Cond
    <2>2. \A f \in FieldSet : WithField(c, f) \in Cond
      <3> SUFFICES ASSUME NEW f \in FieldSet  PROVE  WithField(c, f) \in Cond
        OBVIOUS
      <3>1. (IF f = c.field \/ c.op \in ToSet(OpsOf[f]) THEN c.op ELSE Head(OpsOf[f])) \in CondOps
        BY <1>1, <2>1, FirstOps
      <3>2. (IF f = c.field THEN c.value ELSE "") \in Values \cup {""}
        BY <2>1
      <3> QED  BY <3>1, <3>2 DEF WithField, Cond
    <2>3. \A o \in CondOps : [c EXCEPT !.op = o] \in Cond
      BY DEF Cond
    <2>4. \A v \in Values : [c EXCEPT !.value = v] \in Cond
      BY DEF Cond
    <2>5. \A d \in Edits(c) : \/ \E f \in FieldSet : d = WithField(c, f)
                              \/ \E o \in ToSet(OpsOf[c.field]) : d = [c EXCEPT !.op = o]
                              \/ \E v \in Values : d = [c EXCEPT !.value = v]
      BY DEF Edits
    <2>6. \A o \in ToSet(OpsOf[c.field]) : o \in CondOps
      BY <1>1, <2>1
    <2>7. ASSUME NEW d \in Edits(c)  PROVE  d \in Cond
      BY <2>2, <2>3, <2>4, <2>5, <2>6, ZenonT(40)
    <2> QED  BY <2>7
  <1> QED  BY <1>3, <1>4, <1>5

\* What the builder makes of a tree is one.
LEMMA TreeParts ==
    ASSUME NEW g \in FilterTree
    PROVE  /\ g.logic \in {"and", "or"} /\ g.conds \in Seq(Cond) /\ g.subs \in Seq(SubGroup)
           /\ \A m \in DOMAIN g.subs : /\ g.subs[m] \in SubGroup
                                       /\ g.subs[m].logic \in {"and", "or"} /\ g.subs[m].conds \in Seq(Cond)
  <1>1. g.logic \in {"and", "or"} /\ g.conds \in Seq(Cond) /\ g.subs \in Seq(SubGroup)
    BY DEF FilterTree
  <1>2. \A m \in DOMAIN g.subs : g.subs[m] \in SubGroup
    BY <1>1, LenProperties, ElementOfSeq
  <1>3. \A s \in SubGroup : s.logic \in {"and", "or"} /\ s.conds \in Seq(Cond)
    BY DEF SubGroup
  <1> QED  BY <1>1, <1>2, <1>3

LEMMA TreeOf ==
    ASSUME NEW g \in FilterTree
    PROVE  /\ \A s \in Seq(Cond) : [g EXCEPT !.conds = s] \in FilterTree /\ [g EXCEPT !.conds = s].subs = g.subs
           /\ \A s \in Seq(SubGroup) : [g EXCEPT !.subs = s] \in FilterTree /\ [g EXCEPT !.subs = s].subs = s
           /\ \A l \in {"and", "or"} : [g EXCEPT !.logic = l] \in FilterTree /\ [g EXCEPT !.logic = l].subs = g.subs
  BY DEF FilterTree

LEMMA EmptyTree == emptyFilterGroup \in FilterTree /\ emptyFilterGroup.subs = <<>>
                    /\ emptyFilterGroup.conds = <<>> /\ emptyFilterGroup.logic = "and"
                    /\ isFilterGroupEmpty(emptyFilterGroup)
  <1>1. <<>> \in Seq(Cond) /\ <<>> \in Seq(SubGroup)
    OBVIOUS
  <1>2. ToSet(<<>>) = {}
    BY DEF ToSet
  <1> QED  BY <1>1, <1>2 DEF emptyFilterGroup, FilterTree, isFilterGroupEmpty

LEMMA ReplacedType ==
    ASSUME NEW S, NEW s \in Seq(S), NEW n \in DOMAIN s, NEW e \in S
    PROVE  [s EXCEPT ![n] = e] \in Seq(S) /\ Len([s EXCEPT ![n] = e]) = Len(s)
  BY LenProperties

\* A tree is the one that is shown, without restrictions, or a change of it.
LEMMA SubChange ==
    ASSUME NEW g \in FilterTree, NEW m \in DOMAIN g.subs, NEW s \in SubGroup
    PROVE  /\ [g EXCEPT !.subs = [g.subs EXCEPT ![m] = s]] \in FilterTree
           /\ Len([g EXCEPT !.subs = [g.subs EXCEPT ![m] = s]].subs) = Len(g.subs)
  <1>1. g.subs \in Seq(SubGroup)
    BY TreeParts
  <1>2. [g.subs EXCEPT ![m] = s] \in Seq(SubGroup) /\ Len([g.subs EXCEPT ![m] = s]) = Len(g.subs)
    BY <1>1, ReplacedType
  <1> QED  BY <1>2, TreeOf

\* Every change of the tree leaves a tree of one sub-group at most.
TreeOK(g) == g \in FilterTree /\ Len(g.subs) <= 1

LEMMA Changed ==
    ASSUME NEW g, onFilterGroupChange(g), TreeOK(g)
    PROVE  TreeOK(group')
  BY DEF onFilterGroupChange

LEMMA AppendsTo ==
    ASSUME NEW S, NEW s \in Seq(S), NEW e \in S
    PROVE  Append(s, e) \in Seq(S)
  OBVIOUS

LEMMA SubsOK ==
    ASSUME NEW g \in FilterTree, NEW s \in Seq(SubGroup), Len(s) <= 1
    PROVE  TreeOK([g EXCEPT !.subs = s])
  BY TreeOf DEF TreeOK

LEMMA TreeEdits ==
    ASSUME TreeOK(group),
           \/ addCondition \/ updateCondition \/ removeCondFromGroup \/ toggleLogic
           \/ addSubGroup \/ toggleSubGroup \/ updateSubGroup \/ removeSubGroup
    PROVE  TreeOK(group')
  <1>0. /\ group \in FilterTree /\ Len(group.subs) <= 1
        /\ group.logic \in {"and", "or"} /\ group.conds \in Seq(Cond) /\ group.subs \in Seq(SubGroup)
    BY TreeParts DEF TreeOK
  <1>1. CASE addCondition
    <2>1. Append(group.conds, NewCond) \in Seq(Cond)
      BY <1>0, CondType
    <2>2. TreeOK([group EXCEPT !.conds = Append(group.conds, NewCond)])
      BY <1>0, <2>1, TreeOf DEF TreeOK
    <2> QED  BY <1>1, <2>2, Changed DEF addCondition
  <1>2. CASE updateCondition
    <2>1. PICK n \in DOMAIN group.conds : \E c \in Edits(group.conds[n]) :
             onFilterGroupChange([group EXCEPT !.conds[n] = c])
      BY <1>2 DEF updateCondition
    <2> PICK c \in Edits(group.conds[n]) : onFilterGroupChange([group EXCEPT !.conds[n] = c])
      BY <2>1
    <2>2. c \in Cond
      BY <1>0, CondType, LenProperties, ElementOfSeq
    <2>3. [group.conds EXCEPT ![n] = c] \in Seq(Cond)
      BY <1>0, <2>2, ReplacedType
    <2>4. TreeOK([group EXCEPT !.conds = [group.conds EXCEPT ![n] = c]])
      BY <1>0, <2>3, TreeOf DEF TreeOK
    <2> QED  BY <2>1, <2>4, Changed
  <1>3. CASE removeCondFromGroup
    <2>1. ASSUME NEW n \in DOMAIN group.conds, onFilterGroupChange([group EXCEPT !.conds = RemoveAt(@, n)])
          PROVE  TreeOK(group')
      <3>1. RemoveAt(group.conds, n) \in Seq(Cond)
        BY <1>0, RemoveAtType, LenProperties
      <3>2. TreeOK([group EXCEPT !.conds = RemoveAt(group.conds, n)])
        BY <1>0, <3>1, TreeOf DEF TreeOK
      <3> QED  BY <2>1, <3>2, Changed
    <2>2. ASSUME NEW m \in DOMAIN group.subs, NEW n \in DOMAIN group.subs[m].conds,
                 onFilterGroupChange([group EXCEPT !.subs[m].conds = RemoveAt(@, n)])
          PROVE  TreeOK(group')
      <3>1. group.subs[m] \in SubGroup /\ group.subs[m].conds \in Seq(Cond)
        BY <1>0, TreeParts
      <3>2. RemoveAt(group.subs[m].conds, n) \in Seq(Cond)
        BY <3>1, RemoveAtType, LenProperties
      <3>3. [group.subs[m] EXCEPT !.conds = RemoveAt(group.subs[m].conds, n)] \in SubGroup
        BY <3>1, <3>2 DEF SubGroup
      <3>4. TreeOK([group EXCEPT !.subs = [group.subs EXCEPT ![m] =
                        [group.subs[m] EXCEPT !.conds = RemoveAt(group.subs[m].conds, n)]]])
        BY <1>0, <3>3, SubChange DEF TreeOK
      <3> QED  BY <2>2, <3>4, Changed
    <2> QED  BY <1>3, <2>1, <2>2 DEF removeCondFromGroup
  <1>4. CASE toggleLogic
    <2>1. Other(group.logic) \in {"and", "or"}
      BY DEF Other
    <2>2. TreeOK([group EXCEPT !.logic = Other(group.logic)])
      BY <1>0, <2>1, TreeOf DEF TreeOK
    <2> QED  BY <1>4, <2>2, Changed DEF toggleLogic
  <1>5. CASE addSubGroup
    <2> DEFINE fresh == [logic |-> Other(group.logic), conds |-> <<>>]
    <2>1. fresh \in SubGroup
      BY DEF Other, SubGroup
    <2> HIDE DEF fresh
    <2>2. PICK k \in Nat : k = Len(group.subs) /\ k < 1
      BY <1>0, <1>5, LenProperties DEF addSubGroup
    <2>3. Append(group.subs, fresh) \in Seq(SubGroup) /\ Len(Append(group.subs, fresh)) <= 1
      BY <1>0, <2>1, <2>2, AppendType
    <2>4. TreeOK([group EXCEPT !.subs = Append(group.subs, fresh)])
      BY <1>0, <2>3, SubsOK
    <2> QED  BY <1>5, <2>4, Changed DEF addSubGroup, fresh
  <1>6. CASE toggleSubGroup
    <2>1. PICK m \in DOMAIN group.subs : onFilterGroupChange([group EXCEPT !.subs[m].logic = Other(@)])
      BY <1>6 DEF toggleSubGroup
    <2>2. group.subs[m] \in SubGroup
      BY <1>0, TreeParts
    <2>3. [group.subs[m] EXCEPT !.logic = Other(group.subs[m].logic)] \in SubGroup
      BY <2>2 DEF Other, SubGroup
    <2>4. TreeOK([group EXCEPT !.subs = [group.subs EXCEPT ![m] =
                      [group.subs[m] EXCEPT !.logic = Other(group.subs[m].logic)]]])
      BY <1>0, <2>3, SubChange DEF TreeOK
    <2> QED  BY <2>1, <2>4, Changed
  <1>7. CASE updateSubGroup
    <2>1. PICK m \in DOMAIN group.subs :
            \/ onFilterGroupChange([group EXCEPT !.subs[m].conds = Append(@, NewCond)])
            \/ \E n \in DOMAIN group.subs[m].conds : \E c \in Edits(group.subs[m].conds[n]) :
                 onFilterGroupChange([group EXCEPT !.subs[m].conds[n] = c])
      BY <1>7 DEF updateSubGroup
    <2>2. group.subs[m] \in SubGroup /\ group.subs[m].conds \in Seq(Cond)
      BY <1>0, TreeParts
    <2>3. ASSUME NEW s \in Seq(Cond)
          PROVE  TreeOK([group EXCEPT !.subs = [group.subs EXCEPT ![m] = [group.subs[m] EXCEPT !.conds = s]]])
      <3>1. [group.subs[m] EXCEPT !.conds = s] \in SubGroup
        BY <2>2 DEF SubGroup
      <3> QED  BY <1>0, <3>1, SubChange DEF TreeOK
    <2>4. CASE onFilterGroupChange([group EXCEPT !.subs[m].conds = Append(@, NewCond)])
      <3>1. Append(group.subs[m].conds, NewCond) \in Seq(Cond)
        BY <2>2, CondType
      <3>2. TreeOK([group EXCEPT !.subs = [group.subs EXCEPT ![m] =
                       [group.subs[m] EXCEPT !.conds = Append(group.subs[m].conds, NewCond)]]])
        BY <2>3, <3>1
      <3> QED  BY <2>4, <3>2, Changed
    <2>5. ASSUME NEW n \in DOMAIN group.subs[m].conds, NEW c \in Edits(group.subs[m].conds[n]),
                 onFilterGroupChange([group EXCEPT !.subs[m].conds[n] = c])
          PROVE  TreeOK(group')
      <3>1. c \in Cond
        BY <2>2, CondType, LenProperties, ElementOfSeq
      <3>2. [group.subs[m].conds EXCEPT ![n] = c] \in Seq(Cond)
        BY <2>2, <3>1, ReplacedType
      <3>3. TreeOK([group EXCEPT !.subs = [group.subs EXCEPT ![m] =
                       [group.subs[m] EXCEPT !.conds = [group.subs[m].conds EXCEPT ![n] = c]]]])
        BY <2>3, <3>2
      <3> QED  BY <2>5, <3>3, Changed
    <2> QED  BY <2>1, <2>4, <2>5
  <1>8. CASE removeSubGroup
    <2>1. PICK m \in DOMAIN group.subs : onFilterGroupChange([group EXCEPT !.subs = RemoveAt(@, m)])
      BY <1>8 DEF removeSubGroup
    <2>2. PICK k \in Nat : k = Len(group.subs) /\ k <= 1 /\ m \in 1..k
      BY <1>0, LenProperties
    <2>3. RemoveAt(group.subs, m) \in Seq(SubGroup) /\ Len(RemoveAt(group.subs, m)) <= 1
      <3>1. m \in 1..Len(group.subs)
        BY <2>2
      <3>2. RemoveAt(group.subs, m) \in Seq(SubGroup) /\ Len(RemoveAt(group.subs, m)) = Len(group.subs) - 1
        BY <1>0, <3>1, RemoveAtType
      <3> QED  BY <2>2, <3>2
    <2>4. TreeOK([group EXCEPT !.subs = RemoveAt(group.subs, m)])
      BY <1>0, <2>3, SubsOK
    <2> QED  BY <2>1, <2>4, Changed
  <1> QED  BY <1>1, <1>2, <1>3, <1>4, <1>5, <1>6, <1>7, <1>8

-----------------------------------------------------------------------------
\* What filters out sub-groups
LEMMA KeptElements ==
    ASSUME NEW S, NEW s \in Seq(S), NEW spots \in SUBSET DOMAIN s
    PROVE  ToSet(ElementsAt(s, spots)) = {s[i] : i \in spots} /\ ElementsAt(s, spots) \in Seq(S)
  <1> DEFINE t == ElementsAt(s, spots)
  <1>1. PICK m \in Nat : m = Cardinality(spots)
    BY ElementsAtType
  <1>2. /\ t \in Seq(S) /\ Len(t) = m
        /\ \A n \in 1..m : \E i \in spots : t[n] = s[i]
        /\ \A i \in spots : Rank(spots, i) + 1 \in 1..m /\ t[Rank(spots, i) + 1] = s[i]
    BY <1>1, ElementsAtType
  <1>3. DOMAIN t = 1..m
    BY <1>2, LenProperties
  <1> HIDE DEF t
  <1>4. \A i \in spots : \E n \in DOMAIN t : t[n] = s[i]
    BY <1>2, <1>3
  <1>5. \A n \in DOMAIN t : \E i \in spots : t[n] = s[i]
    BY <1>2, <1>3
  <1>6. ToSet(t) = {s[i] : i \in spots}
    BY <1>4, <1>5 DEF ToSet
  <1> QED  BY <1>2, <1>6 DEF t

LEMMA NoneOrOne == \A k \in Nat : k <= 1 => k = 0 \/ k = 1
  OBVIOUS

\* An empty tree holds no condition.
LEMMA EmptyFlattens ==
    ASSUME NEW g \in FilterTree, Len(g.subs) <= 1, isFilterGroupEmpty(g) \/ g.subs = <<>>
    PROVE  flattenFilterGroup(g) = g.conds
  <1>0. g.subs \in Seq(SubGroup) /\ g.conds \in Seq(Cond)
    BY TreeParts
  <1> DEFINE lists == [n \in DOMAIN g.subs |-> g.subs[n].conds]
  <1>1. PICK k \in Nat : k = Len(g.subs) /\ k <= 1 /\ DOMAIN g.subs = 1..k
    BY <1>0, LenProperties
  <1>2. \A n \in 1..k : lists[n] = <<>>
    <2> SUFFICES ASSUME NEW n \in 1..k  PROVE  g.subs[n].conds = <<>>
      BY <1>1
    <2>1. g.subs # <<>>
      BY <1>1
    <2> QED  BY <1>1, <2>1 DEF isFilterGroupEmpty, ToSet
  <1>3. lists \in Seq({<<>>}) /\ Len(lists) = k
    <2>1. lists \in [1..k -> {<<>>}]
      BY <1>1, <1>2
    <2> QED  BY <1>1, <2>1, IsASeq
  <1> HIDE DEF lists
  <1>4. FlattenSeq(lists) = <<>>
    <2>1. CASE k = 0
      <3>1. lists = <<>>
        BY <1>3, <2>1, EmptySeq
      <3> QED  BY <1>3, <2>1, <3>1 DEF FlattenSeq
    <2>2. CASE k = 1
      <3> DEFINE step(f) == [i \in 1..k |-> IF i = 1 THEN lists[i] ELSE f[i-1] \o lists[i]]
                 all == CHOOSE f : f = step(f)
      <3>1. [i \in 1..k |-> lists[i]] = step([i \in 1..k |-> lists[i]])
        BY <2>2
      <3>2. all = step(all)
        BY <3>1
      <3>3. all[1] = lists[1]
        BY <2>2, <3>2
      <3>4. FlattenSeq(lists) = all[k]
        BY <1>3, <2>2 DEF FlattenSeq
      <3> QED  BY <1>2, <2>2, <3>3, <3>4
    <2>3. k = 0 \/ k = 1
      BY <1>1, NoneOrOne
    <2> QED  BY <2>1, <2>2, <2>3, Zenon
  <1>5. flattenFilterGroup(g) = g.conds \o <<>>
    BY <1>4 DEF flattenFilterGroup, lists
  <1> QED  BY <1>0, <1>5

\* The tree that is sent restricts the rows as the one that is shown.
LEMMA SerializedMeans ==
    ASSUME NEW g \in FilterTree, NEW r
    PROVE  buildGroupClause(r, serializeFilterGroup(g)) <=> buildGroupClause(r, g)
  <1> DEFINE h == serializeFilterGroup(g)
             spots == {i \in DOMAIN g.subs : g.subs[i].conds # <<>>}
             filled(t) == {s \in ToSet(t.subs) : s.conds # <<>>}
  <1>0. g.subs \in Seq(SubGroup) /\ spots \in SUBSET DOMAIN g.subs
    BY TreeParts
  <1>1. h = [g EXCEPT !.subs = ElementsAt(g.subs, spots)]
    BY DEF serializeFilterGroup, Filter
  <1>2. ToSet(ElementsAt(g.subs, spots)) = {g.subs[i] : i \in spots} /\ ElementsAt(g.subs, spots) \in Seq(SubGroup)
    BY <1>0, KeptElements
  <1>3. h.logic = g.logic /\ h.conds = g.conds /\ h.subs = ElementsAt(g.subs, spots)
    BY <1>1, <1>2 DEF FilterTree
  <1>4. filled(h) = filled(g)
    <2>1. \A s : s \in filled(h) <=> \E i \in spots : s = g.subs[i]
      <3>1. \A s : s \in ToSet(h.subs) <=> \E i \in spots : s = g.subs[i]
        BY <1>2, <1>3
      <3> QED  BY <3>1
    <2>2. \A s : s \in filled(g) <=> \E i \in spots : s = g.subs[i]
      BY DEF ToSet
    <2> QED  BY <2>1, <2>2
  <1> HIDE DEF h
  <1> DEFINE clauses(conds) == {buildCondClause(r, c) : c \in ToSet(conds)}
  <1>5. \A t : buildGroupClause(r, t) <=>
               Joined(t.logic, clauses(t.conds) \cup {Joined(s.logic, clauses(s.conds)) : s \in filled(t)})
    BY DEF buildGroupClause
  <1> HIDE DEF clauses, filled
  <1> QED  BY <1>3, <1>4, <1>5 DEF h

\* A tree without conditions restricts nothing.
LEMMA EmptyMeans ==
    ASSUME NEW g, isFilterGroupEmpty(g), NEW r
    PROVE  buildGroupClause(r, g)
  <1>1. g.conds = <<>> /\ \A s \in ToSet(g.subs) : s.conds = <<>>
    BY DEF isFilterGroupEmpty
  <1>2. {buildCondClause(r, c) : c \in ToSet(g.conds)} = {}
    BY <1>1 DEF ToSet
  <1>3. {s \in ToSet(g.subs) : s.conds # <<>>} = {}
    BY <1>1
  <1> QED  BY <1>2, <1>3 DEF buildGroupClause, Joined

\* Of the conditions on different fields each is the last on its own.
LEMMA ParametersAre ==
    ASSUME NEW g \in FilterTree, flattenFilterGroup(g) = g.conds, Distinct(g.conds), FilledIn(g.conds)
    PROVE  Parameters(g) = ToSet(g.conds)
  <1> DEFINE conds == g.conds
             where(f) == {n \in DOMAIN conds : conds[n].field = f /\ Sends(conds[n])}
  <1>0. conds \in Seq(Cond) /\ \A n \in DOMAIN conds : conds[n] \in Cond /\ n \in Int
    BY TreeParts, LenProperties, ElementOfSeq
  <1>1. \A n \in DOMAIN conds : Sends(conds[n])
    BY DEF FilledIn, ToSet
  <1>2. \A m, n \in DOMAIN conds : conds[m].field = conds[n].field => m = n
    BY DEF Distinct
  <1>3. \A n \in DOMAIN conds : where(conds[n].field) = {n}
    BY <1>1, <1>2
  <1>4. \A f : LastOn(f, conds) = IF where(f) = {} THEN {} ELSE {conds[Max(where(f))]}
    BY DEF LastOn
  <1>5. \A f, n : n \in where(f) => n \in DOMAIN conds /\ conds[n].field = f
    OBVIOUS
  <1> HIDE DEF where
  <1>6. \A n \in DOMAIN conds : Max({n}) = n
    <2> SUFFICES ASSUME NEW n \in DOMAIN conds  PROVE  Max({n}) = n
      OBVIOUS
    <2>1. n \in {n} /\ \A m \in {n} : n >= m
      BY <1>0
    <2>2. Max({n}) \in {n}
      BY <2>1, Zenon DEF Max
    <2> QED  BY <2>2
  <1>7. \A n \in DOMAIN conds : LastOn(conds[n].field, conds) = {conds[n]}
    BY <1>3, <1>4, <1>6
  <1>8. \A f : LastOn(f, conds) # {} => \E n \in DOMAIN conds : f = conds[n].field
    <2> SUFFICES ASSUME NEW f, LastOn(f, conds) # {}  PROVE  \E n \in DOMAIN conds : f = conds[n].field
      OBVIOUS
    <2>1. where(f) # {}
      BY <1>4
    <2>2. PICK n : n \in where(f)
      BY <2>1
    <2> QED  BY <1>5, <2>2
  <1>9. \A n \in DOMAIN conds : conds[n].field \in FieldSet
    BY <1>0 DEF Cond
  <1>10. Parameters(g) = UNION {LastOn(f, conds) : f \in FieldSet}
    BY DEF Parameters
  <1>11. \A c : c \in Parameters(g) <=> \E n \in DOMAIN conds : c = conds[n]
    <2> SUFFICES ASSUME NEW c  PROVE  c \in Parameters(g) <=> \E n \in DOMAIN conds : c = conds[n]
      OBVIOUS
    <2>1. ASSUME NEW f \in FieldSet, c \in LastOn(f, conds)  PROVE  \E n \in DOMAIN conds : c = conds[n]
      <3>1. PICK n \in DOMAIN conds : f = conds[n].field
        BY <1>8, <2>1
      <3> QED  BY <1>7, <2>1, <3>1
    <2>2. ASSUME NEW n \in DOMAIN conds, c = conds[n]  PROVE  c \in LastOn(conds[n].field, conds)
      BY <1>7, <2>2
    <2> QED  BY <1>9, <1>10, <2>1, <2>2
  <1>12. \A c : c \in ToSet(g.conds) <=> \E n \in DOMAIN conds : c = conds[n]
    BY DEF ToSet
  <1> QED  BY <1>11, <1>12

\* A flat tree and its conditions
LEMMA FlatMeans ==
    ASSUME NEW g \in FilterTree, g.logic = "and", g.subs = <<>>, NEW r
    PROVE  buildGroupClause(r, g) <=> \A c \in ToSet(g.conds) : buildCondClause(r, c)
  <1> DEFINE clauses == {buildCondClause(r, c) : c \in ToSet(g.conds)}
  <1>1. {s \in ToSet(g.subs) : s.conds # <<>>} = {}
    BY DEF ToSet
  <1>2. buildGroupClause(r, g) <=> clauses = {} \/ FALSE \notin clauses
    BY <1>1 DEF buildGroupClause, Joined
  <1>3. \A c : buildCondClause(r, c) \in BOOLEAN
    BY DEF buildCondClause
  <1>4. FALSE \notin clauses <=> \A c \in ToSet(g.conds) : buildCondClause(r, c)
    <2>1. FALSE \in clauses <=> \E c \in ToSet(g.conds) : FALSE = buildCondClause(r, c)
      OBVIOUS
    <2>2. \A c : (FALSE = buildCondClause(r, c)) <=> ~buildCondClause(r, c)
      BY <1>3
    <2> HIDE DEF clauses
    <2> QED  BY <2>1, <2>2, Zenon
  <1> QED  BY <1>2, <1>4

LEMMA AskedMeans ==
    ASSUME NEW g, TreeOK(g), NEW q,
           FilledIn(flattenFilterGroup(g)),
           g.logic = "and" /\ g.subs = <<>> => Distinct(flattenFilterGroup(g)),
           NEW r
    PROVE  Selects(FiltersOf(g, q), r) <=> buildGroupClause(r, g)
  <1>0. g \in FilterTree /\ Len(g.subs) <= 1 /\ g.logic \in {"and", "or"}
    BY TreeParts DEF TreeOK
  <1>1. CASE needsJsonFilter(g) /\ ~isFilterGroupEmpty(g)
    <2>1. FiltersOf(g, q).tree = serializeFilterGroup(g) /\ FiltersOf(g, q).params = {}
      BY <1>1 DEF FiltersOf
    <2> QED  BY <1>0, <2>1, SerializedMeans DEF Selects
  <1>2. CASE isFilterGroupEmpty(g)
    <2>1. flattenFilterGroup(g) = g.conds /\ g.conds = <<>>
      BY <1>0, <1>2, EmptyFlattens DEF isFilterGroupEmpty
    <2>2. Distinct(g.conds) /\ FilledIn(g.conds) /\ ToSet(g.conds) = {}
      BY <2>1 DEF Distinct, FilledIn, ToSet
    <2>3. Parameters(g) = {}
      BY <1>0, <2>1, <2>2, ParametersAre
    <2>4. FiltersOf(g, q).tree = emptyFilterGroup /\ FiltersOf(g, q).params = {}
      BY <1>2, <2>3 DEF FiltersOf
    <2> QED  BY <1>2, <2>4, EmptyTree, EmptyMeans DEF Selects
  <1>3. CASE ~needsJsonFilter(g)
    <2>1. g.logic = "and" /\ g.subs = <<>>
      BY <1>0, <1>3 DEF needsJsonFilter
    <2>2. flattenFilterGroup(g) = g.conds
      BY <1>0, <2>1, EmptyFlattens
    <2>3. Parameters(g) = ToSet(g.conds)
      BY <1>0, <2>1, <2>2, ParametersAre
    <2>4. FiltersOf(g, q).tree = emptyFilterGroup /\ FiltersOf(g, q).params = ToSet(g.conds)
      BY <1>3, <2>3 DEF FiltersOf
    <2>5. buildGroupClause(r, emptyFilterGroup)
      BY EmptyTree, EmptyMeans
    <2> QED  BY <1>0, <2>1, <2>4, <2>5, FlatMeans DEF Selects
  <1> QED  BY <1>1, <1>2, <1>3

-----------------------------------------------------------------------------
\* Conditions on different fields are saved as they are.
LEMMA FlatConfigSame ==
    ASSUME NEW conds \in Seq(Cond), Distinct(conds)
    PROVE  FlatConfig(conds) = conds
  <1> DEFINE where == [n \in DOMAIN conds |-> n]
             spots == {i \in DOMAIN where : \A m \in 1..(where[i] - 1) : ~SameKey(conds[m], conds[where[i]])}
             last(n) == Max({m \in DOMAIN conds : SameKey(conds[m], conds[n])})
             firsts == ElementsAt(where, spots)
  <1>1. PICK k \in Nat : k = Len(conds) /\ DOMAIN conds = 1..k
    BY LenProperties
  <1>2. \A m, n \in 1..k : SameKey(conds[m], conds[n]) <=> m = n
    BY <1>1 DEF SameKey, Distinct
  <1>3. DOMAIN where = 1..k /\ \A i \in 1..k : where[i] = i
    BY <1>1
  <1>4. FlatConfig(conds) = [n \in DOMAIN firsts |-> conds[last(firsts[n])]]
    BY DEF FlatConfig, Filter
  <1>5. \A i \in 1..k : \A m \in 1..(i - 1) : m \in 1..k /\ m # i
    BY <1>1
  <1>6. spots = 1..k
    BY <1>2, <1>3, <1>5
  <1>7. \A n \in 1..k : last(n) = n
    <2> SUFFICES ASSUME NEW n \in 1..k  PROVE  last(n) = n
      OBVIOUS
    <2>1. {m \in DOMAIN conds : SameKey(conds[m], conds[n])} = {n}
      BY <1>1, <1>2
    <2>2. n \in {n} /\ \A m \in {n} : n >= m
      OBVIOUS
    <2>3. Max({n}) \in {n}
      BY <2>2, Zenon DEF Max
    <2> QED  BY <2>1, <2>3
  <1> HIDE DEF spots, last
  <1>8. where \in Seq(1..k) /\ spots \in SUBSET DOMAIN where
    <2>1. where \in [1..k -> 1..k]
      BY <1>1
    <2> QED  BY <1>3, <1>6, <2>1, IsASeq
  <1> HIDE DEF where
  <1>9. PICK c \in Nat : c = Cardinality(spots) /\ c = k
    BY <1>1, <1>6, FS_Interval
  <1>10. /\ firsts \in Seq(1..k) /\ Len(firsts) = k
         /\ \A i \in 1..k : firsts[Rank(spots, i) + 1] = where[i]
    BY <1>6, <1>8, <1>9, ElementsAtType
  <1>11. \A i \in 1..k : Rank(spots, i) = i - 1
    <2> SUFFICES ASSUME NEW i \in 1..k  PROVE  Rank(spots, i) = i - 1
      OBVIOUS
    <2>1. {j \in spots : j < i} = 1..(i - 1)
      BY <1>1, <1>6
    <2>2. Cardinality(1..(i - 1)) = i - 1
      BY <1>1, FS_Interval
    <2> QED  BY <2>1, <2>2 DEF Rank
  <1> HIDE DEF firsts
  <1>12. \A i \in 1..k : firsts[i] = i
    <2> SUFFICES ASSUME NEW i \in 1..k  PROVE  firsts[i] = i
      OBVIOUS
    <2>1. Rank(spots, i) + 1 = i
      BY <1>1, <1>11
    <2> QED  BY <1>3, <1>10, <2>1
  <1>13. DOMAIN firsts = 1..k
    BY <1>10, LenProperties
  <1>14. FlatConfig(conds) = [n \in 1..k |-> conds[n]]
    BY <1>4, <1>7, <1>12, <1>13
  <1> QED  BY <1>1, <1>14

\* What a saved view asks for when it is applied
ViewKept(e) ==
    /\ TreeOK(e.filter) /\ e.sort \in Seq(SortItem)
    /\ Distinct(e.flat) \/ needsJsonFilter(e.filter) => SameConditions(FiltersOf(e.filter, ""), e.seen)
    /\ e.sort # <<>> => e.seenSort = e.sort

LEMMA QuestionIgnored ==
    ASSUME NEW g, NEW q
    PROVE  SameConditions(FiltersOf(g, q), FiltersOf(g, ""))
  BY DEF FiltersOf, SameConditions

LEMMA EmptyAsks ==
    ASSUME NEW g, TreeOK(g), isFilterGroupEmpty(g), NEW q
    PROVE  FiltersOf(g, q).tree = emptyFilterGroup /\ FiltersOf(g, q).params = {}
  <1>0. g \in FilterTree /\ Len(g.subs) <= 1
    BY DEF TreeOK
  <1>1. flattenFilterGroup(g) = g.conds /\ g.conds = <<>>
    BY <1>0, EmptyFlattens DEF isFilterGroupEmpty
  <1>2. Distinct(g.conds) /\ FilledIn(g.conds) /\ ToSet(g.conds) = {}
    BY <1>1 DEF Distinct, FilledIn, ToSet
  <1>3. Parameters(g) = {}
    BY <1>0, <1>1, <1>2, ParametersAre
  <1> QED  BY <1>3 DEF FiltersOf

LEMMA FlatConfigType ==
    ASSUME NEW conds \in Seq(Cond)
    PROVE  FlatConfig(conds) \in Seq(Cond)
  <1> DEFINE where == [n \in DOMAIN conds |-> n]
             spots == {i \in DOMAIN where : \A m \in 1..(where[i] - 1) : ~SameKey(conds[m], conds[where[i]])}
             same(n) == {m \in DOMAIN conds : SameKey(conds[m], conds[n])}
             firsts == ElementsAt(where, spots)
  <1>1. PICK k \in Nat : k = Len(conds) /\ DOMAIN conds = 1..k
    BY LenProperties
  <1>2. FlatConfig(conds) = [n \in DOMAIN firsts |-> conds[Max(same(firsts[n]))]]
    BY DEF FlatConfig, Filter
  <1>3. \A n \in 1..k : Max(same(n)) \in 1..k
    <2> SUFFICES ASSUME NEW n \in 1..k  PROVE  Max(same(n)) \in 1..k
      OBVIOUS
    <2>1. same(n) \in SUBSET (0..k) /\ n \in same(n) /\ same(n) \subseteq 1..k
      BY <1>1 DEF SameKey
    <2> HIDE DEF same
    <2> QED  BY <2>1, Extremes
  <1> HIDE DEF same
  <1>4. where \in Seq(1..k) /\ spots \in SUBSET DOMAIN where
    <2>1. where \in [1..k -> 1..k]
      BY <1>1
    <2> QED  BY <2>1, IsASeq
  <1> HIDE DEF where, spots
  <1>5. firsts \in Seq(1..k)
    BY <1>4, ElementsAtType
  <1> HIDE DEF firsts
  <1>6. PICK l \in Nat : l = Len(firsts) /\ DOMAIN firsts = 1..l
    BY <1>5, LenProperties
  <1>7. \A n \in 1..l : firsts[n] \in 1..k
    BY <1>5, <1>6, ElementOfSeq
  <1>8. \A n \in 1..k : conds[n] \in Cond
    BY <1>1, ElementOfSeq
  <1>9. FlatConfig(conds) \in [1..l -> Cond]
    BY <1>2, <1>3, <1>6, <1>7, <1>8
  <1> QED  BY <1>9, IsASeq

\* A view keeps what was asked for when it was saved.
LEMMA SavedKept ==
    ASSUME TreeOK(group), sorts \in Seq(SortItem)
    PROVE  ViewKept(SavedView)
  <1> DEFINE e == SavedView
             kept == SavedFilter(group)
  <1>0. group \in FilterTree /\ Len(group.subs) <= 1 /\ group.logic \in {"and", "or"} /\ group.conds \in Seq(Cond)
    BY TreeParts DEF TreeOK
  <1>1. /\ e.filter = kept /\ e.sort = sorts /\ e.seen = filters /\ e.seenSort = sortParam
        /\ e.flat = flattenFilterGroup(group)
    BY DEF SavedView
  <1>2. SameConditions(FiltersOf(group, ""), filters)
    BY QuestionIgnored DEF filters, SameConditions
  <1> HIDE DEF e
  <1>3. CASE isFilterGroupEmpty(group)
    <2>1. kept = emptyFilterGroup
      BY <1>3 DEF SavedFilter
    <2>2. TreeOK(kept)
      BY <2>1, EmptyTree, EmptySeq DEF TreeOK
    <2>3. SameConditions(FiltersOf(kept, ""), FiltersOf(group, ""))
      BY <1>3, <2>1, <2>2, EmptyTree, EmptyAsks DEF SameConditions
    <2> QED  BY <1>1, <1>2, <2>2, <2>3 DEF ViewKept, sortParam, e, SameConditions
  <1>4. CASE ~isFilterGroupEmpty(group) /\ needsJsonFilter(group)
    <2>1. kept = group
      BY <1>4 DEF SavedFilter
    <2> QED  BY <1>1, <1>2, <2>1 DEF ViewKept, sortParam, e
  <1>5. CASE ~isFilterGroupEmpty(group) /\ ~needsJsonFilter(group)
    <2>1. kept = [group EXCEPT !.conds = FlatConfig(group.conds)]
      BY <1>5 DEF SavedFilter
    <2>0. FlatConfig(group.conds) \in Seq(Cond)
      BY <1>0, FlatConfigType
    <2>2. TreeOK(kept)
      <3>1. kept \in FilterTree /\ kept.subs = group.subs
        <4> HIDE DEF kept
        <4>1. group \in FilterTree
          BY <1>0 DEF TreeOK
        <4> QED  BY <2>0, <2>1, <4>1, TreeOf
      <3> QED  BY <1>0, <3>1, Zenon DEF TreeOK
    <2>3. group.logic = "and" /\ group.subs = <<>>
      BY <1>0, <1>5 DEF needsJsonFilter
    <2>4. ~needsJsonFilter(kept)
      BY <1>0, <2>1, <2>3 DEF needsJsonFilter, FilterTree
    <2>5. flattenFilterGroup(group) = group.conds
      BY <1>0, <2>3, EmptyFlattens
    <2>6. Distinct(group.conds) => kept = group
      <3>1. Distinct(group.conds) => FlatConfig(group.conds) = group.conds
        BY <1>0, FlatConfigSame
      <3>2. [group EXCEPT !.conds = group.conds] = group
        BY <1>0 DEF FilterTree
      <3> QED  BY <2>1, <3>1, <3>2
    <2> QED  BY <1>1, <1>2, <2>2, <2>4, <2>5, <2>6 DEF ViewKept, sortParam, e
  <1> QED  BY <1>3, <1>4, <1>5

-----------------------------------------------------------------------------
\* The invariant of the page: every part of it concerns variables of its own.
TreePart == TreeOK(group)

SortPart ==
    /\ sorts \in Seq(SortItem) /\ arrow \in Seq(SortItem) /\ Len(arrow) <= 1
    /\ OneSortSource

SearchPart ==
    /\ box \in SearchTexts \cup {""} /\ text \in SearchTexts \cup {""}
    /\ timer \in SearchTexts \cup {"", NoTimer} /\ overtaken \in BOOLEAN
    /\ timer # NoTimer /\ ~overtaken => timer = box
    /\ SearchApplied

SavedPart == \A v \in DOMAIN saved : ViewKept(saved[v])

RestPart ==
    /\ question \in {NoQuestion, "and", "or"} /\ page \in {1, 2}
    /\ active \in Views \cup {NoView} /\ deletingView \in Views \cup {NoView}

ViewInv == TreePart /\ SortPart /\ SearchPart /\ SavedPart /\ RestPart

LEMMA ViewStarts == ViewInit => ViewInv
  <1> SUFFICES ASSUME ViewInit  PROVE ViewInv
    OBVIOUS
  <1>1. TreePart
    <2>1. TreeOK(emptyFilterGroup)
      BY EmptyTree, EmptySeq DEF TreeOK
    <2> QED  BY <2>1 DEF ViewInit, TreePart
  <1>2. sorts = <<>> /\ arrow = <<>>
    BY DEF ViewInit
  <1>3. SortPart
    <2>1. arrow \in Seq(SortItem) /\ sorts \in Seq(SortItem)
      BY <1>2
    <2>2. Len(arrow) <= 1
      BY <1>2
    <2> QED  BY <1>2, <2>1, <2>2, Zenon DEF SortPart, OneSortSource
  <1>4. SearchPart
    BY DEF ViewInit, SearchPart, SearchApplied
  <1>5. SavedPart
    <2>1. DOMAIN <<>> = {}
      OBVIOUS
    <2>2. saved = <<>>
      BY DEF ViewInit
    <2> QED  BY <2>1, <2>2 DEF SavedPart
  <1>6. RestPart
    BY DEF ViewInit, RestPart
  <1> QED  BY <1>1, <1>3, <1>4, <1>5, <1>6 DEF ViewInv

\* What a step leaves alone
LEMMA ViewUntouched ==
    ASSUME ViewInv
    PROVE  /\ UNCHANGED group => TreePart'
           /\ UNCHANGED <<sorts, arrow, active>> => SortPart'
           /\ UNCHANGED <<box, timer, text, overtaken>> => SearchPart'
           /\ UNCHANGED saved => SavedPart'
           /\ UNCHANGED <<question, page, active, deletingView>> => RestPart'
  <1>1. UNCHANGED group => TreePart'
    BY DEF ViewInv, TreePart
  <1>2. UNCHANGED <<sorts, arrow, active>> => SortPart'
    BY DEF ViewInv, SortPart, OneSortSource
  <1>3. ASSUME UNCHANGED <<box, timer, text, overtaken>>  PROVE SearchPart'
    <2>1. SearchPart
      BY DEF ViewInv
    <2>2. box' = box /\ timer' = timer /\ text' = text /\ overtaken' = overtaken
      BY <1>3
    <2>3. SearchApplied'
      BY <2>1, <2>2, Zenon DEF SearchPart, SearchApplied
    <2> QED  BY <2>1, <2>2, <2>3, Zenon DEF SearchPart
  <1>4. UNCHANGED saved => SavedPart'
    BY DEF ViewInv, SavedPart
  <1>5. UNCHANGED <<question, page, active, deletingView>> => RestPart'
    BY DEF ViewInv, RestPart
  <1> QED  BY <1>1, <1>2, <1>3, <1>4, <1>5

\* The changes of the tree
TreeStep ==
    /\ page' = 1
    /\ UNCHANGED <<question, sorts, arrow, box, timer, text, saved, active, deletingView, overtaken>>

LEMMA TreeSteps ==
    ASSUME ViewInv,
           \/ addCondition \/ updateCondition \/ removeCondFromGroup \/ toggleLogic
           \/ addSubGroup \/ toggleSubGroup \/ updateSubGroup \/ removeSubGroup \/ clearFilters
    PROVE  TreePart' /\ TreeStep
  <1>1. CASE clearFilters
    BY <1>1, EmptyTree, EmptySeq DEF clearFilters, onFilterGroupChange, TreePart, TreeOK, TreeStep
  <1>2. CASE ~clearFilters
    <2>1. TreePart'
      BY <1>2, TreeEdits DEF ViewInv, TreePart
    <2>2. \E g : onFilterGroupChange(g)
      BY <1>2 DEF addCondition, updateCondition, removeCondFromGroup, toggleLogic, addSubGroup,
          toggleSubGroup, updateSubGroup, removeSubGroup
    <2> QED  BY <2>1, <2>2 DEF onFilterGroupChange, TreeStep
  <1> QED  BY <1>1, <1>2

LEMMA SortTypes ==
    /\ \A f \in FieldSet, b \in BOOLEAN : [field |-> f, desc |-> b] \in SortItem
    /\ \A i \in SortItem : /\ \A f \in FieldSet : [i EXCEPT !.field = f] \in SortItem
                            /\ [i EXCEPT !.desc = ~@] \in SortItem
  BY DEF SortItem

PanelStep ==
    /\ page' = 1
    /\ UNCHANGED <<group, question, box, timer, text, saved, active, deletingView, overtaken>>

LEMMA PanelKeeps ==
    ASSUME ViewInv, NEW s \in Seq(SortItem), handleSortPanelChange(s)
    PROVE  SortPart' /\ PanelStep
  <1>0. arrow \in Seq(SortItem) /\ Len(arrow) <= 1
    BY DEF ViewInv, SortPart
  <1>1. sorts' = s /\ arrow' = IF s # <<>> THEN <<>> ELSE arrow
    BY DEF handleSortPanelChange, SetSorts
  <1>2. PanelStep
    BY DEF handleSortPanelChange, SetSorts, PanelStep
  <1>3. CASE s # <<>>
    <2>1. arrow' = <<>> /\ sorts' \in Seq(SortItem)
      BY <1>1, <1>3
    <2>2. arrow' \in Seq(SortItem)
      BY <2>1
    <2>3. Len(arrow') <= 1
      BY <2>1
    <2> QED  BY <1>2, <2>1, <2>2, <2>3, Zenon DEF SortPart, OneSortSource
  <1>4. CASE s = <<>>
    <2>1. arrow' = arrow /\ sorts' = <<>> /\ sorts' \in Seq(SortItem)
      BY <1>1, <1>4
    <2> QED  BY <1>0, <1>2, <2>1, Zenon DEF SortPart, OneSortSource
  <1> QED  BY <1>3, <1>4

\* The sort panel: what it holds then is an order, and the headers hold none with it.
LEMMA PanelSteps ==
    ASSUME ViewInv, addSort \/ updateSort \/ removeSort
    PROVE  SortPart' /\ PanelStep
  <1>0. sorts \in Seq(SortItem) /\ arrow \in Seq(SortItem) /\ Len(arrow) <= 1
    BY DEF ViewInv, SortPart
  <1>1. CASE addSort
    <2> DEFINE spots == {i \in DOMAIN Fields : \A s \in ToSet(sorts) : s.field # Fields[i]}
               unused == ElementsAt(Fields, spots)
               added == [field |-> Head(unused), desc |-> FALSE]
    <2>1. unused # <<>> /\ handleSortPanelChange(Append(sorts, added))
      BY <1>1 DEF addSort, Filter
    <2>2. Fields \in Seq(FieldSet)
      BY ViewAssumption DEF FieldSet
    <2>3. spots \in SUBSET DOMAIN Fields
      OBVIOUS
    <2> HIDE DEF spots
    <2>4. unused \in Seq(FieldSet)
      BY <2>2, <2>3, KeptElements
    <2> HIDE DEF unused
    <2>5. Head(unused) \in FieldSet
      BY <2>1, <2>4, HeadTailProperties
    <2>6. added \in SortItem
      BY <2>5, SortTypes
    <2> HIDE DEF added
    <2>7. Append(sorts, added) \in Seq(SortItem)
      BY <1>0, <2>6, AppendsTo
    <2> QED  BY <2>1, <2>7, PanelKeeps
  <1>2. CASE updateSort
    <2>1. PICK n \in DOMAIN sorts :
            \/ \E f \in FieldSet : handleSortPanelChange([sorts EXCEPT ![n].field = f])
            \/ handleSortPanelChange([sorts EXCEPT ![n].desc = ~@])
      BY <1>2 DEF updateSort
    <2>2. sorts[n] \in SortItem
      BY <1>0, ElementOfSeq, LenProperties
    <2>3. ASSUME NEW f \in FieldSet  PROVE  [sorts EXCEPT ![n].field = f] \in Seq(SortItem)
      <3>1. [sorts[n] EXCEPT !.field = f] \in SortItem
        BY <2>2, SortTypes
      <3> QED  BY <1>0, <3>1, ReplacedType
    <2>4. [sorts EXCEPT ![n].desc = ~@] \in Seq(SortItem)
      <3>1. [sorts[n] EXCEPT !.desc = ~@] \in SortItem
        BY <2>2 DEF SortItem
      <3> QED  BY <1>0, <3>1, ReplacedType
    <2> QED  BY <2>1, <2>3, <2>4, PanelKeeps
  <1>3. CASE removeSort
    <2>1. PICK n \in DOMAIN sorts : handleSortPanelChange(RemoveAt(sorts, n))
      BY <1>3 DEF removeSort
    <2>2. n \in 1..Len(sorts)
      BY <1>0, LenProperties
    <2>3. RemoveAt(sorts, n) \in Seq(SortItem)
      BY <1>0, <2>2, RemoveAtType
    <2> QED  BY <2>1, <2>3, PanelKeeps
  <1> QED  BY <1>1, <1>2, <1>3

\* The search: what the timer will apply is what the box shows.
LEMMA SearchSteps ==
    ASSUME ViewInv, handleSearchInput \/ SearchTimer \/ clearSearch \/ resetFilters
    PROVE  SearchPart'
  <1>0. /\ box \in SearchTexts \cup {""} /\ text \in SearchTexts \cup {""}
        /\ timer \in SearchTexts \cup {"", NoTimer} /\ overtaken \in BOOLEAN
        /\ (timer # NoTimer /\ ~overtaken => timer = box)
        /\ (timer = NoTimer /\ ~overtaken => text = box)
    BY Zenon DEF ViewInv, SearchPart, SearchApplied
  <1>1. "" # NoTimer /\ \A q \in SearchTexts : q # NoTimer
    BY ViewAssumption DEF NoTimer
  <1>2. CASE handleSearchInput
    <2>1. PICK q \in SearchTexts \cup {""} :
            box' = q /\ timer' = q /\ overtaken' = FALSE /\ text' = text
      BY <1>2 DEF handleSearchInput
    <2>2. q # NoTimer
      BY <1>1
    <2>3. SearchApplied'
      BY <2>1, <2>2, Zenon DEF SearchApplied
    <2>4. overtaken' \in BOOLEAN
      BY <2>1
    <2> QED  BY <1>0, <2>1, <2>3, <2>4, Zenon DEF SearchPart
  <1>3. CASE SearchTimer
    <2>1. /\ timer # NoTimer /\ text' = timer /\ timer' = NoTimer
          /\ box' = box /\ overtaken' = overtaken
      BY <1>3 DEF SearchTimer
    <2>2. SearchApplied'
      BY <1>0, <2>1, Zenon DEF SearchApplied
    <2>3. text' \in SearchTexts \cup {""}
      BY <1>0, <2>1
    <2> QED  BY <1>0, <2>1, <2>2, <2>3, Zenon DEF SearchPart
  <1>4. CASE clearSearch \/ resetFilters
    <2>1. /\ box' = "" /\ text' = "" /\ timer' = timer
          /\ (overtaken' <=> timer # NoTimer) /\ overtaken' \in BOOLEAN
      BY <1>4 DEF clearSearch, resetFilters
    <2>2. SearchApplied'
      BY <2>1, Zenon DEF SearchApplied
    <2>3. box' \in SearchTexts \cup {""} /\ text' \in SearchTexts \cup {""}
      BY <2>1
    <2> QED  BY <1>0, <2>1, <2>2, <2>3, Zenon DEF SearchPart
  <1> QED  BY <1>2, <1>3, <1>4

\* A header's order is of one field at most, and takes the panel's away.
LEMMA HeaderSteps ==
    ASSUME ViewInv, ToggleHeader
    PROVE  SortPart' /\ UNCHANGED <<group, question, box, timer, text, page, saved, active, deletingView, overtaken>>
  <1>0. PICK f \in FieldSet : \E n \in {<<[field |-> f, desc |-> FALSE]>>, <<[field |-> f, desc |-> TRUE]>>, <<>>} :
          handleHeaderSortChange(n)
    BY DEF ToggleHeader
  <1>1. PICK next \in {<<[field |-> f, desc |-> FALSE]>>, <<[field |-> f, desc |-> TRUE]>>, <<>>} :
          handleHeaderSortChange(next)
    BY <1>0
  <1>2. UNCHANGED <<group, question, box, timer, text, page, saved, active, deletingView, overtaken>>
    BY <1>1 DEF handleHeaderSortChange
  <1>3. arrow' = next /\ sorts' = IF next # <<>> THEN <<>> ELSE sorts
    BY <1>1 DEF handleHeaderSortChange
  <1>4. next \in Seq(SortItem) /\ Len(next) <= 1
    <2>1. \A b \in BOOLEAN : <<[field |-> f, desc |-> b]>> \in Seq(SortItem)
      BY SortTypes, TupleType
    <2>2. \A b \in BOOLEAN : Len(<<[field |-> f, desc |-> b]>>) <= 1
      OBVIOUS
    <2>3. <<>> \in Seq(SortItem)
      OBVIOUS
    <2>4. Len(<<>>) <= 1
      OBVIOUS
    <2> QED  BY <1>1, <2>1, <2>2, <2>3, <2>4
  <1>5. CASE next # <<>>
    <2>1. sorts' = <<>>
      BY <1>3, <1>5
    <2>2. sorts' \in Seq(SortItem)
      BY <2>1
    <2> QED  BY <1>2, <1>3, <1>4, <2>1, <2>2, Zenon DEF SortPart, OneSortSource
  <1>6. CASE next = <<>>
    <2>1. sorts' = sorts /\ arrow' = <<>>
      BY <1>3, <1>6
    <2>2. sorts' \in Seq(SortItem)
      BY <2>1 DEF ViewInv, SortPart
    <2> QED  BY <1>2, <1>3, <1>4, <2>1, <2>2, Zenon DEF SortPart, OneSortSource
  <1> QED  BY <1>5, <1>6

\* The badges of the order
LEMMA DropSteps ==
    ASSUME ViewInv, DropSort
    PROVE  SortPart' /\ UNCHANGED <<group, question, box, timer, text, page, saved, active, deletingView, overtaken>>
  <1>0. sorts \in Seq(SortItem) /\ arrow \in Seq(SortItem) /\ Len(arrow) <= 1 /\ OneSortSource
    BY DEF ViewInv, SortPart
  <1>1. UNCHANGED <<group, question, box, timer, text, page, saved, active, deletingView, overtaken>>
    BY DEF DropSort, SetSorts
  <1>2. sorts # <<>> /\ arrow' = arrow /\ active' = active
    BY DEF DropSort, SetSorts
  <1>3. sorts' \in Seq(SortItem)
    <2>1. \A n \in DOMAIN sorts : RemoveAt(sorts, n) \in Seq(SortItem)
      BY <1>0, RemoveAtType, LenProperties
    <2>2. sorts' = <<>> \/ \E n \in DOMAIN sorts : sorts' = RemoveAt(sorts, n)
      BY DEF DropSort, SetSorts
    <2>3. <<>> \in Seq(SortItem)
      OBVIOUS
    <2> QED  BY <2>1, <2>2, <2>3
  <1>4. OneSortSource'
    BY <1>0, <1>2, Zenon DEF OneSortSource
  <1> QED  BY <1>0, <1>1, <1>2, <1>3, <1>4, Zenon DEF SortPart

\* The saved views
LEMMA SavedSteps ==
    ASSUME ViewInv, NEW v \in Views, handleSaveView(v)
    PROVE  ViewInv'
  <1>1. ViewKept(SavedView)
    BY SavedKept DEF ViewInv, TreePart, SortPart
  <1>2. saved' = [w \in DOMAIN saved \cup {v} |-> IF w = v THEN SavedView ELSE saved[w]]
    BY DEF handleSaveView
  <1>3. SavedPart'
    <2>1. \A w \in DOMAIN saved : ViewKept(saved[w])
      BY DEF ViewInv, SavedPart
    <2>2. ASSUME NEW w \in DOMAIN saved'  PROVE ViewKept(saved'[w])
      <3>1. w \in DOMAIN saved \cup {v} /\ saved'[w] = IF w = v THEN SavedView ELSE saved[w]
        BY <1>2, <2>2
      <3>2. CASE w = v
        BY <1>1, <3>1, <3>2
      <3>3. CASE w # v
        BY <2>1, <3>1, <3>3
      <3> QED  BY <3>2, <3>3
    <2> QED  BY <2>2 DEF SavedPart, ViewKept
  <1>4. UNCHANGED <<group, question, sorts, arrow, box, timer, text, page, active, deletingView, overtaken>>
    BY DEF handleSaveView
  <1> QED  BY <1>3, <1>4, ViewUntouched DEF ViewInv

LEMMA ApplySteps ==
    ASSUME ViewInv, NEW v \in Views, applyView(v)
    PROVE  ViewInv'
  <1>1. ViewKept(saved[v])
    BY DEF applyView, ViewInv, SavedPart
  <1>2. /\ active' = v /\ group' = saved[v].filter /\ sorts' = saved[v].sort /\ page' = 1
        /\ UNCHANGED <<question, arrow, box, timer, text, saved, deletingView, overtaken>>
    BY DEF applyView
  <1>3. TreePart'
    BY <1>1, <1>2 DEF ViewKept, TreePart
  <1>4. SortPart'
    <2>1. sorts' \in Seq(SortItem)
      BY <1>1, <1>2 DEF ViewKept
    <2>2. active' # NoView
      BY <1>2, ViewAssumption
    <2>3. arrow' \in Seq(SortItem) /\ Len(arrow') <= 1
      BY <1>2 DEF ViewInv, SortPart
    <2> QED  BY <2>1, <2>2, <2>3, Zenon DEF SortPart, OneSortSource
  <1>5. RestPart'
    BY <1>2 DEF ViewInv, RestPart
  <1> QED  BY <1>2, <1>3, <1>4, <1>5, ViewUntouched DEF ViewInv

LEMMA ClearedView ==
    ASSUME ViewInv, clearView
    PROVE  TreePart' /\ SortPart' /\ SearchPart'
  <1>1. /\ active' = NoView /\ group' = emptyFilterGroup /\ sorts' = <<>>
        /\ UNCHANGED <<question, arrow, box, timer, text, overtaken>>
    BY DEF clearView
  <1>2. TreePart'
    <2>1. TreeOK(emptyFilterGroup)
      BY EmptyTree, EmptySeq DEF TreeOK
    <2> QED  BY <1>1, <2>1 DEF TreePart
  <1>3. SortPart'
    <2>1. sorts' = <<>>
      BY <1>1
    <2>2. sorts' \in Seq(SortItem)
      BY <2>1
    <2>3. arrow' \in Seq(SortItem) /\ Len(arrow') <= 1
      BY <1>1 DEF ViewInv, SortPart
    <2> QED  BY <2>1, <2>2, <2>3, Zenon DEF SortPart, OneSortSource
  <1> QED  BY <1>1, <1>2, <1>3, ViewUntouched

LEMMA CloseSteps ==
    ASSUME ViewInv, LeaveView \/ ViewDeleted
    PROVE  ViewInv'
  <1>1. CASE LeaveView
    <2>1. clearView /\ UNCHANGED <<saved, deletingView>>
      BY <1>1 DEF LeaveView
    <2>2. RestPart'
      BY <2>1 DEF ViewInv, RestPart, clearView
    <2> QED  BY <2>1, <2>2, ClearedView, ViewUntouched DEF ViewInv
  <1>2. CASE ViewDeleted
    <2>1. deletingView' = NoView
      BY <1>2 DEF ViewDeleted
    <2>2. CASE saved' = [v \in DOMAIN saved \ {deletingView} |-> saved[v]] /\ clearView
      <3>1. RestPart'
        BY <2>1, <2>2 DEF ViewInv, RestPart, clearView
      <3>2. SavedPart'
        <4>1. DOMAIN saved' \subseteq DOMAIN saved /\ \A v \in DOMAIN saved' : saved'[v] = saved[v]
          BY <2>2
        <4>2. \A v \in DOMAIN saved : ViewKept(saved[v])
          BY DEF ViewInv, SavedPart
        <4>3. ASSUME NEW v \in DOMAIN saved'  PROVE ViewKept(saved'[v])
          BY <4>1, <4>2
        <4> QED  BY <4>3 DEF SavedPart, ViewKept
      <3> QED  BY <2>2, <3>1, <3>2, ClearedView DEF ViewInv
    <2>3. CASE UNCHANGED <<group, question, sorts, arrow, box, timer, text, page, saved, active, overtaken>>
      <3>1. RestPart'
        BY <2>1, <2>3 DEF ViewInv, RestPart
      <3> QED  BY <2>3, <3>1, ViewUntouched DEF ViewInv
    <2> QED  BY <1>2, <2>2, <2>3 DEF ViewDeleted
  <1> QED  BY <1>1, <1>2

\* The answer to the question put to the AI: one condition under the logic of then
LEMMA AnswerSteps ==
    ASSUME ViewInv, ReceiveFilter
    PROVE  ViewInv'
  <1>1. /\ question \in {"and", "or"} /\ question' = NoQuestion
        /\ UNCHANGED <<sorts, arrow, box, timer, text, saved, active, deletingView, overtaken>>
    BY DEF ReceiveFilter, ViewInv, RestPart
  <1>2. CASE UNCHANGED <<group, page>>
    <2>1. RestPart'
      BY <1>1, <1>2 DEF ViewInv, RestPart
    <2> QED  BY <1>1, <1>2, <2>1, ViewUntouched DEF ViewInv
  <1>3. CASE \E f \in FieldSet, v \in Values :
                /\ group' = [logic |-> question, subs |-> <<>>,
                             conds |-> <<[field |-> f, op |-> Head(OpsOf[f]), value |-> v]>>]
                /\ page' = 1
    <2>1. PICK f \in FieldSet, v \in Values :
                /\ group' = [logic |-> question, subs |-> <<>>,
                             conds |-> <<[field |-> f, op |-> Head(OpsOf[f]), value |-> v]>>]
                /\ page' = 1
      BY <1>3
    <2> DEFINE c == [field |-> f, op |-> Head(OpsOf[f]), value |-> v]
    <2>2. c \in Cond
      BY CondType
    <2>3. group' = [logic |-> question, subs |-> <<>>, conds |-> <<c>>]
      BY <2>1
    <2> HIDE DEF c
    <2>4. <<c>> \in Seq(Cond)
      BY <2>2, TupleType
    <2>5. <<>> \in Seq(SubGroup)
      OBVIOUS
    <2>6. group' \in FilterTree
      BY <1>1, <2>3, <2>4, <2>5 DEF FilterTree
    <2>7. Len(group'.subs) <= 1
      <3>1. group'.subs = <<>>
        BY <2>3
      <3> QED  BY <3>1
    <2>8. TreePart'
      BY <2>6, <2>7, Zenon DEF TreePart, TreeOK
    <2>9. RestPart'
      BY <1>1, <2>1 DEF ViewInv, RestPart
    <2> QED  BY <1>1, <2>8, <2>9, ViewUntouched DEF ViewInv
  <1> QED  BY <1>2, <1>3 DEF ReceiveFilter

LEMMA ViewStep == ViewInv /\ [ViewNext]_viewVars => ViewInv'
  <1> SUFFICES ASSUME ViewInv, ViewNext \/ UNCHANGED viewVars  PROVE ViewInv'
    OBVIOUS
  <1>1. CASE \/ addCondition \/ updateCondition \/ removeCondFromGroup \/ toggleLogic
             \/ addSubGroup \/ toggleSubGroup \/ updateSubGroup \/ removeSubGroup \/ clearFilters
    <2>1. TreePart' /\ TreeStep
      BY <1>1, TreeSteps
    <2>2. RestPart'
      BY <2>1 DEF TreeStep, ViewInv, RestPart
    <2> QED  BY <2>1, <2>2, ViewUntouched DEF TreeStep, ViewInv
  <1>2. CASE handleAIFilter
    <2>1. RestPart'
      BY <1>2, TreeParts DEF handleAIFilter, ViewInv, RestPart, TreePart, TreeOK
    <2> QED  BY <1>2, <2>1, ViewUntouched DEF handleAIFilter, ViewInv
  <1>3. CASE addSort \/ updateSort \/ removeSort
    <2>1. SortPart' /\ PanelStep
      BY <1>3, PanelSteps
    <2>2. RestPart'
      BY <2>1 DEF PanelStep, ViewInv, RestPart
    <2> QED  BY <2>1, <2>2, ViewUntouched DEF PanelStep, ViewInv
  <1>4. CASE DropSort \/ ToggleHeader
    <2>1. SortPart' /\ UNCHANGED <<group, question, box, timer, text, page, saved, active, deletingView, overtaken>>
      BY <1>4, DropSteps, HeaderSteps
    <2> QED  BY <2>1, ViewUntouched DEF ViewInv
  <1>5. CASE handleSearchInput \/ SearchTimer \/ clearSearch \/ resetFilters
    <2>1. SearchPart'
      BY <1>5, SearchSteps
    <2>2. UNCHANGED <<question, sorts, arrow, saved, active, deletingView>>
      BY <1>5 DEF handleSearchInput, SearchTimer, clearSearch, resetFilters
    <2>3. page' = page \/ page' = 1
      BY <1>5 DEF handleSearchInput, SearchTimer, clearSearch, resetFilters
    <2>4. RestPart'
      BY <2>2, <2>3 DEF ViewInv, RestPart
    <2>5. group' = group \/ group' = emptyFilterGroup
      BY <1>5 DEF handleSearchInput, SearchTimer, clearSearch, resetFilters
    <2>6. TreePart'
      <3>1. TreeOK(emptyFilterGroup)
        BY EmptyTree, EmptySeq DEF TreeOK
      <3> QED  BY <2>5, <3>1 DEF ViewInv, TreePart
    <2> QED  BY <2>1, <2>2, <2>4, <2>6, ViewUntouched DEF ViewInv
  <1>6. CASE clearAllChips
    <2>1. /\ group' = emptyFilterGroup /\ sorts' = <<>> /\ page' = 1
          /\ UNCHANGED <<question, arrow, box, timer, text, saved, active, deletingView, overtaken>>
      BY <1>6 DEF clearAllChips
    <2>2. TreePart'
      <3>1. TreeOK(emptyFilterGroup)
        BY EmptyTree, EmptySeq DEF TreeOK
      <3> QED  BY <2>1, <3>1 DEF TreePart
    <2>3. SortPart'
      <3>1. sorts' = <<>>
        BY <2>1
      <3>2. sorts' \in Seq(SortItem)
        BY <3>1
      <3>3. arrow' \in Seq(SortItem) /\ Len(arrow') <= 1
        BY <2>1 DEF ViewInv, SortPart
      <3> QED  BY <3>1, <3>2, <3>3, Zenon DEF SortPart, OneSortSource
    <2>4. RestPart'
      BY <2>1 DEF ViewInv, RestPart
    <2> QED  BY <2>1, <2>2, <2>3, <2>4, ViewUntouched DEF ViewInv
  <1>7. CASE GoToPage
    <2>1. page' \in {1, 2} /\ UNCHANGED <<question, active, deletingView>>
      BY <1>7 DEF GoToPage
    <2>2. RestPart'
      BY <2>1 DEF ViewInv, RestPart
    <2> QED  BY <1>7, <2>2, ViewUntouched DEF GoToPage, ViewInv
  <1>8. CASE \E v \in Views : handleSaveView(v) \/ applyView(v)
    BY <1>8, SavedSteps, ApplySteps
  <1>9. CASE deleteSavedView
    <2>1. RestPart'
      BY <1>9 DEF deleteSavedView, ViewInv, RestPart
    <2> QED  BY <1>9, <2>1, ViewUntouched DEF deleteSavedView, ViewInv
  <1>10. CASE UNCHANGED viewVars
    BY <1>10, ViewUntouched DEF viewVars, ViewInv
  <1> QED  BY <1>1, <1>2, <1>3, <1>4, <1>5, <1>6, <1>7, <1>8, <1>9, <1>10, AnswerSteps, CloseSteps DEF ViewNext

-----------------------------------------------------------------------------
\* What the page asks for
LEMMA ViewMeans == ViewInv => RequestMeansTree /\ SearchApplied /\ OneSortSource
  <1> SUFFICES ASSUME ViewInv  PROVE RequestMeansTree /\ SearchApplied /\ OneSortSource
    OBVIOUS
  <1>1. TreeOK(group) /\ SearchApplied /\ OneSortSource
    BY DEF ViewInv, TreePart, SearchPart, SortPart
  <1>2. ASSUME FilledIn(flattenFilterGroup(group)),
               group.logic = "and" /\ group.subs = <<>> => Distinct(flattenFilterGroup(group)),
               NEW r \in DataRow
        PROVE  Selects(filters, r) <=> buildGroupClause(r, group)
    BY <1>1, <1>2, AskedMeans DEF filters
  <1> QED  BY <1>1, <1>2 DEF RequestMeansTree

LEMMA ViewTyped == ViewInv => ViewTypeOK
  <1> SUFFICES ASSUME ViewInv  PROVE ViewTypeOK
    OBVIOUS
  <1>1. group \in FilterTree /\ Len(group.subs) <= 1
    BY DEF ViewInv, TreePart, TreeOK
  <1>2. sorts \in Seq(SortItem) /\ arrow \in Seq(SortItem) /\ Len(arrow) <= 1
    BY DEF ViewInv, SortPart
  <1>3. /\ {box, text} \subseteq SearchTexts \cup {""}
        /\ timer \in SearchTexts \cup {"", NoTimer} /\ overtaken \in BOOLEAN
    <2>1. SearchPart
      BY DEF ViewInv
    <2> QED  BY <2>1, Zenon DEF SearchPart
  <1>4. \A v \in DOMAIN saved : saved[v].filter \in FilterTree /\ saved[v].sort \in Seq(SortItem)
    BY DEF ViewInv, SavedPart, ViewKept, TreeOK
  <1>5. /\ question \in {NoQuestion, "and", "or"} /\ page \in {1, 2}
        /\ {active, deletingView} \subseteq Views \cup {NoView}
    BY DEF ViewInv, RestPart
  <1> QED  BY <1>1, <1>2, <1>3, <1>4, <1>5, Zenon DEF ViewTypeOK

\* Which steps select other rows, and what they do to the page
LEMMA NewRowsFromFirstPage ==
    ASSUME ViewInv, ViewNext \/ UNCHANGED viewVars,
           filters' # filters, ~isFilterGroupEmpty(group') \/ text' # ""
    PROVE  page' = 1
  <1>1. ~(group' = group /\ text' = text)
    BY DEF filters
  <1>2. ~(group' = emptyFilterGroup /\ text' = "")
    BY EmptyTree
  <1>3. CASE \/ addCondition \/ updateCondition \/ removeCondFromGroup \/ toggleLogic
             \/ addSubGroup \/ toggleSubGroup \/ updateSubGroup \/ removeSubGroup \/ clearFilters
    BY <1>3, TreeSteps DEF TreeStep
  <1>4. CASE addSort \/ updateSort \/ removeSort
    BY <1>4, PanelSteps DEF PanelStep
  <1>5. CASE DropSort \/ ToggleHeader
    BY <1>1, <1>5, DropSteps, HeaderSteps
  <1>6. CASE resetFilters \/ handleSearchInput \/ handleAIFilter \/ GoToPage \/ deleteSavedView \/ UNCHANGED viewVars
    BY <1>1, <1>2, <1>6 DEF resetFilters, handleSearchInput, handleAIFilter, GoToPage, deleteSavedView, viewVars
  <1>7. CASE SearchTimer \/ clearSearch \/ clearAllChips
    BY <1>7 DEF SearchTimer, clearSearch, clearAllChips
  <1>8. CASE \E v \in Views : handleSaveView(v) \/ applyView(v)
    BY <1>1, <1>8 DEF handleSaveView, applyView
  <1>9. CASE LeaveView \/ ViewDeleted
    BY <1>1, <1>9 DEF LeaveView, ViewDeleted, clearView
  <1>10. CASE ReceiveFilter
    BY <1>1, <1>10 DEF ReceiveFilter
  <1> QED  BY <1>3, <1>4, <1>5, <1>6, <1>7, <1>8, <1>9, <1>10 DEF ViewNext

\* What applying a view asks for
LEMMA AppliedAsksTheSame ==
    ASSUME ViewInv, ViewNext \/ UNCHANGED viewVars, active' \notin {active, NoView}
    PROVE  LET v == saved[active'] IN
           /\ Distinct(v.flat) \/ needsJsonFilter(v.filter) => SameConditions(filters', v.seen)
           /\ v.sort # <<>> => sortParam' = v.seenSort
  <1>1. PICK v \in Views : applyView(v)
    <2>1. CASE \/ addCondition \/ updateCondition \/ removeCondFromGroup \/ toggleLogic
               \/ addSubGroup \/ toggleSubGroup \/ updateSubGroup \/ removeSubGroup \/ clearFilters
      BY <2>1, TreeSteps DEF TreeStep
    <2>2. CASE addSort \/ updateSort \/ removeSort
      BY <2>2, PanelSteps DEF PanelStep
    <2>3. CASE DropSort \/ ToggleHeader
      BY <2>3, DropSteps, HeaderSteps
    <2>4. CASE handleSearchInput \/ SearchTimer \/ clearSearch \/ resetFilters \/ clearAllChips \/ GoToPage
      BY <2>4 DEF handleSearchInput, SearchTimer, clearSearch, resetFilters, clearAllChips, GoToPage
    <2>5. CASE handleAIFilter \/ ReceiveFilter \/ deleteSavedView \/ UNCHANGED viewVars
      BY <2>5 DEF handleAIFilter, ReceiveFilter, deleteSavedView, viewVars
    <2>6. CASE LeaveView \/ ViewDeleted
      BY <2>6 DEF LeaveView, ViewDeleted, clearView
    <2>7. CASE \E v \in Views : handleSaveView(v)
      BY <2>7 DEF handleSaveView
    <2> QED  BY <2>1, <2>2, <2>3, <2>4, <2>5, <2>6, <2>7 DEF ViewNext
  <1>2. active' = v /\ group' = saved[v].filter /\ sorts' = saved[v].sort /\ ViewKept(saved[v])
    BY <1>1 DEF applyView, ViewInv, SavedPart
  <1>3. SameConditions(FiltersOf(group', text'), FiltersOf(group', ""))
    BY QuestionIgnored
  <1>4. filters' = FiltersOf(group', text')
    BY DEF filters
  <1>5. ASSUME Distinct(saved[v].flat) \/ needsJsonFilter(saved[v].filter)
        PROVE  SameConditions(filters', saved[v].seen)
    BY <1>2, <1>3, <1>4, <1>5 DEF ViewKept, SameConditions
  <1>6. ASSUME saved[v].sort # <<>>  PROVE sortParam' = saved[v].seenSort
    BY <1>2, <1>6 DEF ViewKept, sortParam
  <1> QED  BY <1>2, <1>5, <1>6

-----------------------------------------------------------------------------
(* The table: the marked cells are the copied ones *)

LEMMA LeastOf ==
    ASSUME NEW S \in SUBSET Nat, S # {}
    PROVE  Min(S) \in S
  <1>1. PICK k \in S : TRUE
    OBVIOUS
  <1> DEFINE below == S \cap (0..k)
  <1>2. below \subseteq 0..k /\ below # {} /\ k \in Nat
    OBVIOUS
  <1>3. PICK m \in below : \A i \in below : m <= i
    BY <1>2, Extremes
  <1>4. m \in S /\ \A i \in S : m <= i
    <2>1. \A i \in S : i \in below \/ i > k
      OBVIOUS
    <2> QED  BY <1>2, <1>3, <2>1
  <1> QED  BY <1>4, Zenon DEF Min

LEMMA QuotientType ==
    ASSUME NEW a \in Nat, NEW d \in Nat \ {0}
    PROVE  a \div d \in 0..a
  <1>1. PICK q \in Int : q = a \div d
    OBVIOUS
  <1>2. d * q <= a /\ a < d * q + d
    BY <1>1
  <1>3. q >= 0
    BY <1>2
  <1>4. q <= d * q
    BY <1>3
  <1> QED  BY <1>1, <1>2, <1>3, <1>4

\* What is filtered out of a list is a list of the same elements, each once.
LEMMA FilteredPins ==
    ASSUME NEW s \in Pins, NEW spots \in SUBSET DOMAIN s
    PROVE  ElementsAt(s, spots) \in Pins
  <1>1. s \in Seq(ColumnSet) /\ IsInjective(s)
    BY DEF Pins
  <1>2. spots \in SUBSET DOMAIN s
    OBVIOUS
  <1> DEFINE t == ElementsAt(s, spots)
  <1>3. PICK m \in Nat : m = Cardinality(spots)
    BY <1>1, <1>2, ElementsAtType
  <1>4. /\ t \in Seq(ColumnSet) /\ Len(t) = m /\ DOMAIN t = 1..m
        /\ \A k \in 1..m : \E i \in spots : Rank(spots, i) = k - 1 /\ t[k] = s[i]
    BY <1>1, <1>2, <1>3, ElementsAtType, LenProperties
  <1> HIDE DEF t
  <1>5. \A j, k \in DOMAIN t : t[j] = t[k] => j = k
    <2> SUFFICES ASSUME NEW j \in 1..m, NEW k \in 1..m, t[j] = t[k]  PROVE  j = k
      BY <1>4
    <2>1. PICK a \in spots, b \in spots : /\ Rank(spots, a) = j - 1 /\ t[j] = s[a]
                                          /\ Rank(spots, b) = k - 1 /\ t[k] = s[b]
      BY <1>4
    <2>2. a = b
      BY <1>1, <1>2, <2>1 DEF IsInjective
    <2> QED  BY <2>1, <2>2
  <1>6. IsInjective(t)
    BY <1>5 DEF IsInjective
  <1> QED  BY <1>4, <1>6 DEF Pins, t

\* A column that is not in a list makes it a longer one.
LEMMA AppendedPins ==
    ASSUME NEW s \in Pins, NEW c \in ColumnSet, \A i \in DOMAIN s : s[i] # c
    PROVE  Append(s, c) \in Pins
  <1>1. s \in Seq(ColumnSet) /\ IsInjective(s)
    BY DEF Pins
  <1>2. PICK m \in Nat : m = Len(s) /\ DOMAIN s = 1..m
    BY <1>1, LenProperties
  <1> DEFINE t == Append(s, c)
  <1>3. /\ t \in Seq(ColumnSet) /\ Len(t) = m + 1
        /\ \A i \in 1..m + 1 : t[i] = IF i <= m THEN s[i] ELSE c
    BY <1>1, <1>2, AppendType
  <1>4. DOMAIN t = 1..m + 1
    BY <1>3, LenProperties
  <1> HIDE DEF t
  <1>5. \A j, k \in DOMAIN t : t[j] = t[k] => j = k
    <2> SUFFICES ASSUME NEW j \in 1..m + 1, NEW k \in 1..m + 1, t[j] = t[k]  PROVE  j = k
      BY <1>4
    <2>1. \A i \in 1..m + 1 : i <= m \/ i = m + 1
      OBVIOUS
    <2>2. \A i \in 1..m : t[i] = s[i] /\ t[i] # c
      BY <1>2, <1>3
    <2>3. t[m + 1] = c
      BY <1>3
    <2>4. CASE j \in 1..m /\ k \in 1..m
      BY <1>1, <1>2, <2>2, <2>4 DEF IsInjective
    <2>5. CASE j = m + 1 \/ k = m + 1
      BY <2>1, <2>2, <2>3, <2>5
    <2> QED  BY <2>1, <2>4, <2>5
  <1>6. IsInjective(t)
    BY <1>5 DEF IsInjective
  <1> QED  BY <1>3, <1>6 DEF Pins, t

\* An element of a list that moves within it leaves its elements as different as they were.
LEMMA MovedPins ==
    ASSUME NEW s \in Pins, NEW a \in 1..Len(s), NEW b \in 1..Len(s)
    PROVE  InsertAt(RemoveAt(s, a), b, s[a]) \in Pins
  <1>1. s \in Seq(ColumnSet) /\ IsInjective(s)
    BY DEF Pins
  <1>2. PICK m \in Nat : m = Len(s) /\ DOMAIN s = 1..m
    BY <1>1, LenProperties
  <1>3. PICK u : u = InsertAt(RemoveAt(s, a), b, s[a]) /\ IsMoved(u, s, a, b)
    BY DEF IsMoved
  <1>4. u \in Seq(ColumnSet) /\ DOMAIN u = 1..m /\ IsShuffled(u, s, m)
    <2>1. PICK c \in 1..m, d \in 1..m : c = a /\ d = b
      BY <1>2
    <2> QED  BY <1>1, <1>2, <1>3, <2>1, MoveWithin
  <1>5. PICK from \in [1..m -> 1..m] : /\ \A i \in 1..m : u[i] = s[from[i]]
                                       /\ \A i, k \in 1..m : from[i] = from[k] => i = k
    BY <1>4 DEF IsShuffled
  <1>6. ASSUME NEW i \in 1..m, NEW k \in 1..m, u[i] = u[k]  PROVE i = k
    <2>1. from[i] \in 1..m /\ from[k] \in 1..m /\ s[from[i]] = s[from[k]]
      BY <1>5, <1>6
    <2>2. from[i] = from[k]
      BY <1>1, <1>2, <2>1 DEF IsInjective
    <2> QED  BY <1>5, <2>2
  <1>7. IsInjective(u)
    BY <1>4, <1>6 DEF IsInjective
  <1> QED  BY <1>3, <1>4, <1>7 DEF Pins

LEMMA FlatType ==
    ASSUME GridTypeOK
    PROVE  FlatColumns \in Pins /\ colCount \in 0..Len(Columns) /\ Len(Columns) \in Nat
  <1>1. Columns \in Seq(ColumnSet) /\ Columns \in Pins
    BY GridAssumption DEF ColumnSet, Pins
  <1> DEFINE spots == {i \in DOMAIN Columns : Columns[i] \in shown}
  <1>2. FlatColumns = ElementsAt(Columns, spots)
    BY DEF FlatColumns, Filter
  <1>3. spots \in SUBSET DOMAIN Columns
    OBVIOUS
  <1> HIDE DEF spots
  <1>4. FlatColumns \in Pins
    BY <1>1, <1>2, <1>3, FilteredPins
  <1>5. \A i \in spots : Columns[i] \in ColumnSet
    BY <1>1, <1>3, LenProperties, ElementOfSeq
  <1>6. Len(FlatColumns) <= Len(Columns)
    BY <1>1, <1>2, <1>3, <1>5, PassedType
  <1>7. Len(FlatColumns) \in Nat /\ Len(Columns) \in Nat
    BY <1>1, <1>4, LenProperties DEF Pins
  <1> QED  BY <1>4, <1>6, <1>7 DEF colCount

LEMMA ClampType ==
    ASSUME NEW n \in Int, NEW size \in Nat
    PROVE  Clamp(n, size) \in 0..size
  <1>1. PICK least \in Int : least = Min({n, size - 1}) /\ least <= size - 1
    <2>1. PICK top \in Int : top = size - 1
      OBVIOUS
    <2>2. Min({n, top}) \in {n, top} /\ Min({n, top}) <= top
      BY PairBounds
    <2> QED  BY <2>1, <2>2
  <1>2. PICK b \in Int : b = 0
    OBVIOUS
  <1>3. Max({b, least}) \in {b, least} /\ Max({b, least}) >= b
    BY <1>1, <1>2, PairBounds
  <1>4. Clamp(n, size) = Max({b, least})
    BY <1>1, <1>2 DEF Clamp
  <1> QED  BY <1>1, <1>2, <1>3, <1>4

LEMMA NextColType ==
    ASSUME GridTypeOK, NEW c \in Int, NEW d \in {-1, 1}
    PROVE  nextCol(c, d) \in Int
  <1>1. PICK n \in Nat : n = colCount
    BY FlatType
  <1> DEFINE skip == {k \in 0..(n - 1) : FlatColumns[k + 1] \in SkipCols}
             free == {k \in 0..(n - 1) \ skip : IF d = 1 THEN k > c ELSE k < c}
  <1>2. nextCol(c, d) = IF free = {} THEN Clamp(IF d = 1 THEN n ELSE -1, n)
                        ELSE IF d = 1 THEN Min(free) ELSE Max(free)
    BY <1>1 DEF nextCol
  <1>3. free \in SUBSET (0..n)
    OBVIOUS
  <1>4. \A e \in Int : Clamp(e, n) \in Int
    BY ClampType
  <1> HIDE DEF free
  <1>5. free # {} => Min(free) \in Int /\ Max(free) \in Int
    <2> SUFFICES ASSUME free # {}  PROVE  Min(free) \in Int /\ Max(free) \in Int
      OBVIOUS
    <2>1. Min(free) \in free /\ Max(free) \in free
      BY <1>3, Extremes
    <2>2. \A e \in free : e \in Int
      BY <1>3
    <2> QED  BY <2>1, <2>2
  <1>6. (IF d = 1 THEN n ELSE -1) \in Int
    OBVIOUS
  <1> QED  BY <1>2, <1>4, <1>5, <1>6

\* The range is kept with the cell it began at.
AnchorInv == /\ cell # NoCell => anchor # NoCell
             /\ cell # NoCell /\ range # NoRange => range = [from |-> anchor, to |-> cell] \/ range.from = At(0, 0)

GridInv == GridTypeOK /\ AnchorInv /\ StoredColumnsShown

LEMMA GridCells ==
    /\ \A c \in GridCell : c # NoCell /\ c.row \in Int /\ c.col \in Int
    /\ \A c \in GridCell \cup {NoCell} : c.row \in Int /\ c.col \in Int
    /\ \A r \in 0..MaxRows, k \in 0..Len(Columns) : At(r, k) \in GridCell
  <1>1. \A c \in GridCell : c.row \in 0..MaxRows /\ c.col \in 0..Len(Columns)
    BY DEF GridCell
  <1>2. NoCell.row = -1 /\ NoCell.col = -1
    BY DEF NoCell
  <1>3. MaxRows \in Nat /\ Len(Columns) \in Nat
    BY GridAssumption, LenProperties
  <1>4. \A r \in 0..MaxRows, k \in 0..Len(Columns) : At(r, k) \in GridCell
    BY DEF At, GridCell
  <1> QED  BY <1>1, <1>2, <1>3, <1>4

\* Moving the active cell
CellsOK == /\ {cell, anchor, range.from, range.to} \subseteq GridCell \cup {NoCell}
           /\ range = [from |-> range.from, to |-> range.to]
           /\ AnchorInv

LEMMA PlacedOK ==
    ASSUME CellsOK, NEW to \in GridCell, cell' = to,
           \/ range' = NoRange /\ anchor' = to
           \/ /\ cell # NoCell /\ anchor' = anchor
              /\ \E first : first = anchor /\ range' = [from |-> first, to |-> to]
    PROVE  CellsOK'
  <1>1. to # NoCell
    BY GridCells
  <1>2. CASE range' = NoRange /\ anchor' = to
    BY <1>1, <1>2 DEF CellsOK, AnchorInv, NoRange
  <1>3. CASE cell # NoCell /\ anchor' = anchor /\ range' = [from |-> anchor, to |-> to]
    BY <1>1, <1>3 DEF CellsOK, AnchorInv
  <1> QED  BY <1>2, <1>3

LEMMA MovesOK ==
    ASSUME GridTypeOK, CellsOK, NEW r \in Int, NEW c \in Int, NEW extend \in BOOLEAN, Move(r, c, extend)
    PROVE  CellsOK'
  <1>1. PICK n \in Nat : n = colCount /\ n \in 0..Len(Columns)
    BY FlatType
  <1>2. rows \in 0..MaxRows /\ rows \in Nat
    BY GridAssumption DEF GridTypeOK
  <1> DEFINE to == At(Clamp(r, rows), Clamp(c, n))
  <1>3. to \in GridCell
    <2>1. Clamp(r, rows) \in 0..rows /\ Clamp(c, n) \in 0..n
      BY <1>1, <1>2, ClampType
    <2>2. Clamp(r, rows) \in 0..MaxRows /\ Clamp(c, n) \in 0..Len(Columns)
      BY <1>1, <1>2, <2>1, GridAssumption, FlatType
    <2> QED  BY <2>2, GridCells
  <1>4. /\ cell # NoCell /\ cell' = to
        /\ IF extend
           THEN /\ range' = [from |-> IF anchor = NoCell THEN to ELSE anchor, to |-> to]
                /\ UNCHANGED anchor
           ELSE range' = NoRange /\ anchor' = to
    BY <1>1 DEF Move, moveTo
  <1> HIDE DEF to
  <1>5. anchor # NoCell
    BY <1>4 DEF CellsOK, AnchorInv
  <1> QED  BY <1>3, <1>4, <1>5, PlacedOK

LEMMA CellsStep ==
    ASSUME GridTypeOK, CellsOK, GridNext
    PROVE  CellsOK'
  <1>1. PICK n \in Nat : n = colCount /\ n \in 0..Len(Columns)
    BY FlatType
  <1>2. rows \in 0..MaxRows /\ rows \in Nat
    BY GridAssumption DEF GridTypeOK
  <1>3. ASSUME cell' = cell, anchor' = anchor, range' = range  PROVE  CellsOK'
    BY <1>3 DEF CellsOK, AnchorInv
  <1>4. ASSUME cell' = NoCell, range' = NoRange, anchor' \in {anchor, NoCell}  PROVE  CellsOK'
    <2>1. range'.from = NoCell /\ range'.to = NoCell /\ range' = [from |-> range'.from, to |-> range'.to]
      BY <1>4 DEF NoRange
    <2> QED  BY <1>4, <2>1 DEF CellsOK, AnchorInv
  <1>5. CASE handleKeyDown
    <2>1. /\ cell.row \in Int /\ cell.col \in Int
      BY GridCells DEF CellsOK
    <2>2. \A d \in {-1, 1} : /\ cell.row + d \in Int
                             /\ nextCol(cell.col, d) \in Int
      BY <2>1, NextColType
    <2>3. n - 1 \in Int /\ 0 \in Int /\ FALSE \in BOOLEAN
      OBVIOUS
    <2>4. \E r \in Int, c \in Int, extend \in BOOLEAN : Move(r, c, extend)
      BY <1>1, <1>5, <2>1, <2>2, <2>3, Zenon DEF handleKeyDown
    <2> QED  BY <2>4, MovesOK
  <1>6. CASE Escape
    BY <1>4, <1>6 DEF Escape
  <1>7. CASE handleCellClick
    <2>1. PICK r \in 0..(rows - 1), c \in 0..(n - 1), shift \in BOOLEAN :
            /\ cell' = At(r, c)
            /\ IF shift /\ cell # NoCell
               THEN /\ range' = [from |-> IF anchor = NoCell THEN cell ELSE anchor, to |-> At(r, c)]
                    /\ UNCHANGED anchor
               ELSE range' = NoRange /\ anchor' = At(r, c)
      BY <1>1, <1>7 DEF handleCellClick
    <2>2. r \in 0..MaxRows /\ c \in 0..Len(Columns)
      BY <1>1, <1>2, GridAssumption, FlatType
    <2>3. At(r, c) \in GridCell
      BY <2>2, GridCells
    <2>4. cell # NoCell => anchor # NoCell
      BY DEF CellsOK, AnchorInv
    <2> QED  BY <2>1, <2>3, <2>4, PlacedOK
  <1>8. CASE onSelectAll
    <2>1. rows \in 1..MaxRows /\ n \in 1..Len(Columns)
      BY <1>1, <1>2, <1>8, GridAssumption, FlatType DEF onSelectAll
    <2>2. 0 \in 0..MaxRows /\ 0 \in 0..Len(Columns) /\ rows - 1 \in 0..MaxRows /\ n - 1 \in 0..Len(Columns)
      BY <1>1, <1>2, <2>1, GridAssumption, FlatType
    <2>3. At(0, 0) \in GridCell /\ At(rows - 1, n - 1) \in GridCell
      BY <2>2, GridCells
    <2>4. range' = [from |-> At(0, 0), to |-> At(rows - 1, n - 1)] /\ cell' = cell /\ anchor' = anchor
      BY <1>1, <1>8 DEF onSelectAll
    <2>5. range'.from = At(0, 0) /\ range'.to = At(rows - 1, n - 1) /\ range' = [from |-> range'.from, to |-> range'.to]
      BY <2>4
    <2> QED  BY <2>3, <2>4, <2>5 DEF CellsOK, AnchorInv
  <1>9. CASE ToggleColumn \/ PinColumn \/ handleColumnDragEnd
    BY <1>3, <1>9 DEF ToggleColumn, SetShown, PinColumn, handleColumnDragEnd, cellVars
  <1>10. CASE RemountTable
    BY <1>4, <1>10 DEF RemountTable
  <1>11. CASE Refetch \/ TurnPage \/ ChangeLimit
    BY <1>4, <1>11 DEF Refetch, TurnPage, ChangeLimit, NewData
  <1> QED  BY <1>5, <1>6, <1>7, <1>8, <1>9, <1>10, <1>11 DEF GridNext

\* Columns that are pinned and dragged
LEMMA ColumnsStep ==
    ASSUME GridTypeOK, GridNext
    PROVE  /\ shown' \subseteq ColumnSet /\ initial' \subseteq ColumnSet /\ current' \subseteq ColumnSet
           /\ {left', right', order'} \subseteq Pins
           /\ remounted' \in BOOLEAN
  <1>1. ASSUME UNCHANGED columnVars
        PROVE  /\ shown' \subseteq ColumnSet /\ initial' \subseteq ColumnSet /\ current' \subseteq ColumnSet
               /\ {left', right', order'} \subseteq Pins
               /\ remounted' \in BOOLEAN
    BY <1>1 DEF columnVars, GridTypeOK
  <1>2. CASE ToggleColumn
    BY <1>2 DEF ToggleColumn, SetShown, GridTypeOK
  <1>3. CASE PinColumn
    <2> DEFINE kept(s, c) == {i \in DOMAIN s : s[i] # c}
               without(s, c) == ElementsAt(s, kept(s, c))
    <2>1. PICK c \in ColumnSet : /\ left' \in {Append(without(left, c), c), without(left, c)}
                                 /\ right' \in {Append(without(right, c), c), without(right, c)}
      BY <1>3 DEF PinColumn, Filter
    <2>2. \A s \in Pins : without(s, c) \in Pins /\ Append(without(s, c), c) \in Pins
      <3> SUFFICES ASSUME NEW s \in Pins  PROVE  without(s, c) \in Pins /\ Append(without(s, c), c) \in Pins
        OBVIOUS
      <3>1. kept(s, c) \in SUBSET DOMAIN s /\ \A i \in kept(s, c) : s[i] # c
        OBVIOUS
      <3> HIDE DEF kept
      <3>2. without(s, c) \in Pins
        BY <3>1, FilteredPins
      <3>3. s \in Seq(ColumnSet)
        BY DEF Pins
      <3>4. PICK m \in Nat : m = Cardinality(kept(s, c))
        BY <3>1, <3>3, ElementsAtType
      <3>5. /\ without(s, c) \in Seq(ColumnSet) /\ Len(without(s, c)) = m
            /\ \A k \in 1..m : \E i \in kept(s, c) : without(s, c)[k] = s[i]
        BY <3>1, <3>3, <3>4, ElementsAtType
      <3>6. \A i \in DOMAIN without(s, c) : without(s, c)[i] # c
        BY <3>1, <3>5, LenProperties
      <3> HIDE DEF without
      <3> QED  BY <3>2, <3>6, AppendedPins
    <2> HIDE DEF without
    <2>3. {left', right'} \subseteq Pins
      BY <2>1, <2>2 DEF GridTypeOK
    <2> QED  BY <1>3, <2>3 DEF PinColumn, GridTypeOK
  <1>4. CASE handleColumnDragEnd
    <2>1. PICK from \in 1..colCount, to \in 1..colCount :
             order' = InsertAt(RemoveAt(FlatColumns, from), to, FlatColumns[from])
      BY <1>4 DEF handleColumnDragEnd
    <2>2. order' \in Pins
      BY <2>1, FlatType, MovedPins DEF colCount
    <2> QED  BY <1>4, <2>2 DEF handleColumnDragEnd, GridTypeOK
  <1>5. CASE RemountTable
    <2>1. <<>> \in Pins
      BY DEF Pins, IsInjective
    <2> QED  BY <1>5, <2>1 DEF RemountTable, GridTypeOK
  <1>6. CASE handleKeyDown \/ Escape \/ handleCellClick \/ onSelectAll \/ Refetch \/ TurnPage \/ ChangeLimit
    BY <1>1, <1>6 DEF handleKeyDown, Move, Escape, handleCellClick, onSelectAll, Refetch, TurnPage, ChangeLimit, NewData
  <1> QED  BY <1>2, <1>3, <1>4, <1>5, <1>6 DEF GridNext

LEMMA TotalPagesType ==
    ASSUME GridTypeOK
    PROVE  totalPages \in 0..MaxTotal
  <1>1. limit \in Nat \ {0} /\ total \in 0..MaxTotal /\ MaxTotal \in Nat
    BY GridAssumption DEF GridTypeOK
  <1>2. CASE total = 0
    BY <1>1, <1>2 DEF totalPages
  <1>3. CASE total # 0
    <2>1. total - 1 \in Nat
      BY <1>1, <1>3
    <2>2. PICK q \in 0..(total - 1) : q = (total - 1) \div limit
      BY <1>1, <2>1, QuotientType
    <2>3. totalPages = q + 1
      BY <1>3, <2>2 DEF totalPages
    <2> QED  BY <1>1, <2>2, <2>3
  <1> QED  BY <1>2, <1>3

\* The numbers of the footer
LEMMA NumbersOffered ==
    ASSUME NEW p \in Nat \ {0}, NEW last \in Nat, last > 1
    PROVE  /\ PageNumbers(p, last) \subseteq 1..last
           /\ p <= last => {p - 1, p + 1} \cap (1..last) \subseteq PageNumbers(p, last)
  <1>1. PICK two \in Int, below \in Int : two = 2 /\ below = p - 2
    OBVIOUS
  <1>2. PICK low \in Int : low = Max({two, below}) /\ low \in {two, below} /\ low >= two /\ low >= below
    BY PairBounds
  <1>3. PICK top \in Int, above \in Int : top = last - 1 /\ above = p + 2
    OBVIOUS
  <1>4. PICK high \in Int : high = Min({top, above}) /\ high \in {top, above} /\ high <= top /\ high <= above
    BY PairBounds
  <1>5. PageNumbers(p, last) = {1} \cup (low..high) \cup {last}
    BY <1>1, <1>2, <1>3, <1>4 DEF PageNumbers
  <1>6. PageNumbers(p, last) \subseteq 1..last
    BY <1>1, <1>2, <1>3, <1>4, <1>5
  <1>7. ASSUME p <= last, NEW q \in {p - 1, p + 1}, q \in 1..last
        PROVE  q \in {1} \cup (low..high) \cup {last}
    BY <1>1, <1>2, <1>3, <1>4, <1>7
  <1> QED  BY <1>5, <1>6, <1>7

LEMMA PagesStep ==
    ASSUME GridTypeOK, GridNext
    PROVE  pageNo' \in 1..MaxTotal /\ limit' \in PageSizes /\ total' \in 0..MaxTotal /\ rows' \in 0..MaxRows
  <1>0. /\ pageNo \in 1..MaxTotal /\ limit \in PageSizes /\ total \in 0..MaxTotal /\ rows \in 0..MaxRows
        /\ MaxTotal \in Nat \ {0}
    BY GridAssumption DEF GridTypeOK
  <1>1. CASE UNCHANGED <<rows, pageVars>>
    BY <1>0, <1>1 DEF pageVars
  <1>2. CASE Refetch
    BY <1>0, <1>2 DEF Refetch, NewData
  <1>3. CASE TurnPage
    <2>1. PICK last \in Nat : last = totalPages /\ last <= MaxTotal
      BY <1>0, TotalPagesType
    <2>2. /\ last > 1
          /\ pageNo' \in PageNumbers(pageNo, last)
                \cup (IF pageNo = 1 THEN {} ELSE {1, pageNo - 1})
                \cup (IF pageNo >= last THEN {} ELSE {last, pageNo + 1})
          /\ limit' = limit /\ total' = total /\ rows' \in 0..MaxRows
      BY <1>3, <2>1 DEF TurnPage, NewData
    <2>3. pageNo \in Nat \ {0}
      BY <1>0
    <2>4. PageNumbers(pageNo, last) \subseteq 1..last
      BY <2>2, <2>3, NumbersOffered
    <2>5. pageNo' \in 1..last \/ (pageNo # 1 /\ pageNo' \in {1, pageNo - 1})
           \/ (pageNo < last /\ pageNo' \in {last, pageNo + 1})
      BY <1>0, <2>1, <2>2, <2>4
    <2>6. pageNo' \in 1..MaxTotal
      BY <1>0, <2>1, <2>2, <2>5
    <2> QED  BY <1>0, <2>2, <2>6
  <1>4. CASE ChangeLimit
    <2>1. pageNo' \in 1..MaxTotal
      BY <1>0, <1>4 DEF ChangeLimit
    <2> QED  BY <1>0, <1>4, <2>1 DEF ChangeLimit, NewData
  <1> QED  BY <1>1, <1>2, <1>3, <1>4 DEF GridNext, handleKeyDown, Move, Escape, handleCellClick, onSelectAll,
                ToggleColumn, SetShown, PinColumn, handleColumnDragEnd, RemountTable, pageVars

LEMMA GridStep == GridInv /\ (GridNext \/ UNCHANGED gridVars) => GridInv'
  <1> SUFFICES ASSUME GridInv, GridNext \/ UNCHANGED gridVars  PROVE  GridInv'
    OBVIOUS
  <1>1. CASE UNCHANGED gridVars
    BY <1>1 DEF gridVars, GridInv, GridTypeOK, AnchorInv, StoredColumnsShown
  <1>2. CASE GridNext
    <2>1. GridTypeOK /\ CellsOK
      BY DEF GridInv, GridTypeOK, CellsOK
    <2>2. CellsOK'
      BY <1>2, <2>1, CellsStep
    <2>3. GridTypeOK'
      BY <1>2, <2>1, <2>2, ColumnsStep, PagesStep, Zenon DEF GridTypeOK, CellsOK
    <2>4. StoredColumnsShown'
      BY <1>2 DEF GridInv, StoredColumnsShown, GridNext, handleKeyDown, Move, Escape, handleCellClick, onSelectAll,
                ToggleColumn, SetShown, PinColumn, handleColumnDragEnd, RemountTable, Refetch, TurnPage,
                ChangeLimit, NewData, columnVars
    <2> QED  BY <2>2, <2>3, <2>4 DEF GridInv, CellsOK
  <1> QED  BY <1>1, <1>2

LEMMA GridStarts == GridInit => GridInv
  <1> SUFFICES ASSUME GridInit  PROVE  GridInv
    OBVIOUS
  <1>1. MaxRows \in Nat /\ rows = MaxRows /\ MaxTotal \in Nat \ {0}
    BY GridAssumption DEF GridInit
  <1>2. Min(PageSizes) \in PageSizes
    <2>1. PageSizes \in SUBSET Nat /\ PageSizes # {}
      BY GridAssumption
    <2> QED  BY <2>1, LeastOf
  <1>3. <<>> \in Pins
    BY DEF Pins, IsInjective
  <1>4. NoRange.from = NoCell /\ NoRange.to = NoCell /\ NoRange = [from |-> NoRange.from, to |-> NoRange.to]
    BY DEF NoRange
  <1>5. pageNo \in 1..MaxTotal /\ total \in 0..MaxTotal /\ rows \in 0..MaxRows
    BY <1>1 DEF GridInit
  <1>6. GridTypeOK
    BY <1>2, <1>3, <1>4, <1>5 DEF GridInit, GridTypeOK
  <1>7. AnchorInv /\ StoredColumnsShown
    BY DEF GridInit, AnchorInv, StoredColumnsShown
  <1> QED  BY <1>6, <1>7 DEF GridInv

\* Without pins and drags the columns are displayed in the order of their definition.
LEMMA DisplayedInOrder ==
    ASSUME GridTypeOK, left = <<>>, right = <<>>, order = <<>>
    PROVE  DisplayedColumns = FlatColumns
  <1> DEFINE free == shown \ (ToSet(left) \cup ToSet(right))
             spots(s, S) == {i \in DOMAIN s : s[i] \in S}
             kept(s, S) == ElementsAt(s, spots(s, S))
  <1>1. /\ DisplayedColumns = kept(left, shown) \o kept(order, free) \o kept(Columns, free \ ToSet(order))
                                \o kept(right, shown)
        /\ FlatColumns = kept(Columns, shown)
    BY DEF DisplayedColumns, FlatColumns, Filter
  <1>2. free = shown /\ free \ ToSet(order) = shown
    BY DEF ToSet
  <1>3. \A S : kept(<<>>, S) = <<>>
    <2> TAKE S
    <2>1. spots(<<>>, S) = {}
      OBVIOUS
    <2> HIDE DEF spots
    <2>2. <<>> \in Seq({}) /\ spots(<<>>, S) \in SUBSET DOMAIN <<>>
      BY <2>1
    <2>3. kept(<<>>, S) \in Seq({}) /\ Len(kept(<<>>, S)) = Cardinality(spots(<<>>, S))
      BY <2>2, ElementsAtType
    <2>4. Cardinality(spots(<<>>, S)) = 0
      BY <2>1, FS_EmptySet
    <2> QED  BY <2>3, <2>4, EmptySeq
  <1> HIDE DEF free, kept, spots
  <1>4. DisplayedColumns = <<>> \o <<>> \o FlatColumns \o <<>>
    BY <1>1, <1>2, <1>3
  <1>5. FlatColumns \in Seq(ColumnSet)
    BY FlatType DEF Pins
  <1> QED  BY <1>4, <1>5

LEMMA GridMeans == GridInv => CopyMatchesHighlight /\ RangeSpansSelection /\ PagesOffered
  <1> SUFFICES ASSUME GridInv  PROVE  CopyMatchesHighlight /\ RangeSpansSelection /\ PagesOffered
    OBVIOUS
  <1>0. GridTypeOK /\ AnchorInv
    BY DEF GridInv
  <1>1. CopyMatchesHighlight
    BY <1>0, DisplayedInOrder DEF CopyMatchesHighlight, extractSelectionData, Highlighted
  <1>2. RangeSpansSelection
    BY <1>0 DEF AnchorInv, RangeSpansSelection
  <1>3. PagesOffered
    <2>1. PICK last \in Nat : last = totalPages
      BY <1>0, TotalPagesType
    <2>2. pageNo \in Nat \ {0}
      BY <1>0, GridAssumption DEF GridTypeOK
    <2> QED  BY <2>1, <2>2, NumbersOffered DEF PagesOffered
  <1> QED  BY <1>1, <1>2, <1>3

-----------------------------------------------------------------------------
(* The selection: a bulk edit carries the versions its page had *)

\* A bulk edit carries the versions its page had of the rows it is about.
SelectionInv ==
    /\ SelTypeOK /\ AllModeIsAnAnswer
    /\ bulk.kind \in {"status", "edit"} =>
          /\ DOMAIN bulk.versions = bulk.ids \cap DOMAIN bulk.page
          /\ \A i \in DOMAIN bulk.versions : bulk.versions[i] = bulk.page[i]

LEMMA PageType ==
    ASSUME NEW S \in SUBSET Rows, NEW p \in Pages(S)
    PROVE  DOMAIN p \subseteq Rows /\ Cardinality(DOMAIN p) <= PageSize
  <1> DEFINE alive == Cardinality(Living(S))
             m == Min({PageSize, alive})
  <1>1. IsFiniteSet(Living(S)) /\ Living(S) \subseteq Rows
    BY SelectionAssumption, FS_Subset DEF Living
  <1>2. alive \in Nat
    BY <1>1, FS_CardinalityType
  <1>3. PICK P \in SUBSET Living(S) : p = [i \in P |-> db[i]] /\ Cardinality(P) = m
    BY DEF Pages
  <1>4. m <= PageSize
    <2> HIDE DEF alive
    <2>1. \E x \in {PageSize, alive} : \A y \in {PageSize, alive} : x <= y
      BY <1>2, SelectionAssumption
    <2>2. m \in {PageSize, alive} /\ \A y \in {PageSize, alive} : m <= y
      BY <2>1 DEF Min
    <2> QED  BY <2>2
  <1> QED  BY <1>1, <1>3, <1>4

LEMMA SelectionStarts == SelInit => SelectionInv
  <1> SUFFICES ASSUME SelInit  PROVE  SelectionInv
    OBVIOUS
  <1>1. DOMAIN listed \subseteq Rows /\ Cardinality(DOMAIN listed) <= PageSize
    BY PageType DEF SelInit
  <1>2. db \in [Rows -> Gone..MaxVersion]
    BY SelectionAssumption DEF SelInit, Gone
  <1>3. asking \in NoAsk..Cardinality(Rows)
    BY SelectionAssumption, FS_CardinalityType DEF SelInit, NoAsk
  <1> QED  BY <1>1, <1>2, <1>3 DEF SelInit, SelectionInv, SelTypeOK, AllModeIsAnAnswer, NoBulk

\* What a bulk request is about.
Bulks == bulk.ids \in SUBSET Rows /\ bulk.kind \in {"none", "status", "edit", "delete"}

LEMMA SelectionStep == SelectionInv /\ (SelNext \/ UNCHANGED selVars) => SelectionInv'
  <1> SUFFICES ASSUME SelectionInv, SelNext \/ UNCHANGED selVars  PROVE  SelectionInv'
    OBVIOUS
  <1>0. /\ db \in [Rows -> Gone..MaxVersion] /\ filtered \subseteq Rows /\ DOMAIN listed \subseteq Rows
        /\ selected \subseteq Rows /\ answered \subseteq Rows /\ failedDelete \subseteq Rows
        /\ Bulks
    BY DEF SelectionInv, SelTypeOK, Bulks
  <1>1. ASSUME UNCHANGED <<db, filtered, listed, asking, answered, bulk, failedDelete>>,
               selected' \subseteq Rows, allMode' \in BOOLEAN,
               allMode' => selected' \subseteq {} \/ (allMode /\ selected' = selected)
        PROVE  SelectionInv'
    BY <1>1 DEF SelectionInv, SelTypeOK, AllModeIsAnAnswer
  <1>2. CASE ToggleRow
    BY <1>0, <1>1, <1>2 DEF ToggleRow, Select
  <1>3. CASE TogglePage
    BY <1>0, <1>1, <1>3 DEF TogglePage, Select
  <1>4. CASE ClearSelection
    BY <1>0, <1>1, <1>4 DEF ClearSelection, SelectionInv, SelTypeOK
  <1>5. CASE handleSelectAllFiltered
    <2>1. IsFiniteSet(Living(filtered)) /\ Cardinality(Living(filtered)) \in Nat
          /\ Cardinality(Rows) \in Nat /\ Cardinality(Living(filtered)) <= Cardinality(Rows)
      BY <1>0, SelectionAssumption, FS_Subset, FS_CardinalityType DEF Living
    <2>2. asking' \in NoAsk..Cardinality(Rows)
      BY <1>5, <2>1 DEF handleSelectAllFiltered, listTotal, NoAsk
    <2> QED  BY <1>5, <2>2 DEF handleSelectAllFiltered, SelectionInv, SelTypeOK, AllModeIsAnAnswer
  <1>6. CASE AnswerSelectAll
    <2>1. asking' \in NoAsk..Cardinality(Rows)
      BY <1>6, SelectionAssumption, FS_CardinalityType DEF AnswerSelectAll, NoAsk
    <2>2. CASE \E S \in SUBSET Living(Rows) : selected' = S /\ answered' = S /\ allMode' = TRUE
      BY <1>6, <2>1, <2>2 DEF AnswerSelectAll, Living, SelectionInv, SelTypeOK, AllModeIsAnAnswer
    <2>3. CASE UNCHANGED <<selected, answered, allMode>>
      BY <1>6, <2>1, <2>3 DEF AnswerSelectAll, SelectionInv, SelTypeOK, AllModeIsAnAnswer
    <2> QED  BY <1>6, <2>2, <2>3 DEF AnswerSelectAll
  <1>7. ASSUME NEW kind \in {"status", "edit", "delete"}, NEW ids \in SUBSET Rows, NEW versions,
               SendBulk(kind, ids, versions), failedDelete' \subseteq Rows,
               kind # "delete" => versions = getRowVersions(ids)
        PROVE  SelectionInv'
    <2>1. bulk' = [kind |-> kind, ids |-> ids, versions |-> versions, page |-> listed]
          /\ UNCHANGED <<db, filtered, listed, selected, allMode, asking, answered>>
      BY <1>7 DEF SendBulk
    <2>2. bulk'.kind = kind /\ bulk'.ids = ids /\ bulk'.versions = versions /\ bulk'.page = listed
      BY <2>1
    <2>3. kind # "delete" =>
            /\ DOMAIN versions = ids \cap DOMAIN listed
            /\ \A i \in DOMAIN versions : versions[i] = listed[i]
      BY <1>7 DEF getRowVersions
    <2> QED  BY <1>7, <2>1, <2>2, <2>3 DEF SelectionInv, SelTypeOK, AllModeIsAnAnswer
  <1>8. CASE handleBulkStatusChange \/ handleBulkEdit \/ handleBulkDelete
    BY <1>0, <1>7, <1>8 DEF handleBulkStatusChange, handleBulkEdit, handleBulkDelete
  <1>9. CASE RetryDelete
    BY <1>0, <1>7, <1>9 DEF RetryDelete
  <1>10. NoBulk.kind = "none" /\ NoBulk.ids = {}
    BY DEF NoBulk
  <1>11. CASE BulkSucceeds
    <2>1. db' \in [Rows -> Gone..MaxVersion]
      <3>1. CASE bulk.kind = "delete"
        BY <1>0, <1>11, <3>1, SelectionAssumption DEF BulkSucceeds, Gone
      <3>2. CASE bulk.kind # "delete"
        BY <1>0, <1>11, <3>2, SelectionAssumption DEF BulkSucceeds, Gone
      <3> QED  BY <3>1, <3>2
    <2> QED  BY <1>10, <1>11, <2>1 DEF BulkSucceeds, SelectionInv, SelTypeOK, AllModeIsAnAnswer
  <1>12. CASE BulkFails
    <2>1. failedDelete' \subseteq Rows
      BY <1>0, <1>12 DEF BulkFails, Bulks
    <2> QED  BY <1>10, <1>12, <2>1 DEF BulkFails, SelectionInv, SelTypeOK, AllModeIsAnAnswer
  <1>13. CASE Relist
    <2>1. filtered' \subseteq Rows /\ listed' \in Pages(filtered')
      BY <1>13 DEF Relist
    <2>2. DOMAIN listed' \subseteq Rows /\ Cardinality(DOMAIN listed') <= PageSize
      BY <2>1, PageType
    <2> QED  BY <1>13, <2>1, <2>2 DEF Relist, SelectionInv, SelTypeOK, AllModeIsAnAnswer
  <1>14. CASE OtherWrites
    <2>1. db' \in [Rows -> Gone..MaxVersion]
      BY <1>0, <1>14, SelectionAssumption DEF OtherWrites, Gone, Living
    <2> QED  BY <1>14, <2>1 DEF OtherWrites, SelectionInv, SelTypeOK, AllModeIsAnAnswer
  <1>15. CASE UNCHANGED selVars
    BY <1>15 DEF selVars, SelectionInv, SelTypeOK, AllModeIsAnAnswer
  <1> QED  BY <1>2, <1>3, <1>4, <1>5, <1>6, <1>8, <1>9, <1>11, <1>12, <1>13, <1>14, <1>15 DEF SelNext

\* A bulk edit that is accepted finds the versions its page had.
LEMMA BulkKeeps ==
    ASSUME SelectionInv, SelNext \/ UNCHANGED selVars
    PROVE  bulk.kind \in {"status", "edit"} /\ bulk' = NoBulk /\ db' # db =>
              \A i \in bulk.ids \cap DOMAIN bulk.page : db[i] = bulk.page[i]
  <1> SUFFICES ASSUME bulk.kind \in {"status", "edit"}, bulk' = NoBulk, db' # db,
                      NEW i \in bulk.ids \cap DOMAIN bulk.page
               PROVE  db[i] = bulk.page[i]
    OBVIOUS
  <1>1. bulk # NoBulk
    BY DEF NoBulk
  <1>2. BulkSucceeds
    BY <1>1 DEF SelNext, selVars, ToggleRow, TogglePage, Select, handleSelectAllFiltered, AnswerSelectAll,
                ClearSelection, handleBulkStatusChange, handleBulkEdit, handleBulkDelete, RetryDelete,
                SendBulk, BulkFails, Relist, OtherWrites
  <1>3. ~Conflicts
    BY <1>2 DEF BulkSucceeds
  <1> QED  BY <1>3 DEF Conflicts, SelectionInv

-----------------------------------------------------------------------------
(* The kanban board: a drop does what the column showed *)

KanbanInv == KanbanTypeOK /\ DropMatchesShown /\ EnterOpensRing

\* The cards of a column are those shown in it.
LEMMA EntriesType ==
    ASSUME NEW value
    PROVE  /\ EntriesOf(value) \in Seq(Cards) /\ Len(EntriesOf(value)) <= Cardinality(Cards)
           /\ \A n \in 1..Len(EntriesOf(value)) : columns[EntriesOf(value)[n]] = value
  <1> DEFINE ids == [c \in Cards |-> c]
             those == {c \in Cards : columns[c] = value}
             there == {c \in DOMAIN ids : columns[ids[c]] = value}
  <1>1. PICK size \in Nat : size = Cardinality(Cards)
    BY KanbanAssumption, FS_CardinalityType
  <1>2. Cards = 1..size
    BY <1>1, KanbanAssumption
  <1>3. ids \in Seq(Cards) /\ DOMAIN ids = Cards /\ Len(ids) = size
    BY <1>2, IsASeq
  <1>4. there = those /\ those \in SUBSET (DOMAIN ids)
    BY <1>3
  <1>5. EntriesOf(value) = ElementsAt(ids, those)
    BY <1>4 DEF EntriesOf, Filter
  <1>6. \A i \in those : ids[i] \in those
    OBVIOUS
  <1> HIDE DEF ids
  <1>7. EntriesOf(value) \in Seq(those) /\ Len(EntriesOf(value)) <= size
    BY <1>3, <1>4, <1>5, <1>6, PassedType
  <1>8. \A n \in 1..Len(EntriesOf(value)) : EntriesOf(value)[n] \in those
    BY <1>7, ElementOfSeq
  <1> HIDE DEF those
  <1>9. \A n \in 1..Len(EntriesOf(value)) : EntriesOf(value)[n] \in Cards
    BY <1>8 DEF those
  <1>10. EntriesOf(value) \in Seq(Cards)
    BY <1>7, <1>9, Retype
  <1> QED  BY <1>1, <1>7, <1>8, <1>10 DEF those

LEMMA FocusedType ==
    /\ focusedCardId \in Cards \cup {NoCard}
    /\ focusedCardId # NoCard => focusedCol + 1 \in DOMAIN BoardColumns
                                 /\ columns[focusedCardId] = BoardColumns[focusedCol + 1]
  <1>1. Len(BoardColumns) \in Nat /\ DOMAIN BoardColumns = 1..Len(BoardColumns)
    BY KanbanAssumption, LenProperties
  <1>2. CASE focusedCol \in 0..Len(BoardColumns) - 1
             /\ focusedCard \in 0..Len(EntriesOf(BoardColumns[focusedCol + 1])) - 1
    <2> DEFINE those == EntriesOf(BoardColumns[focusedCol + 1])
    <2>1. those \in Seq(Cards) /\ Len(those) \in Nat
      BY EntriesType, LenProperties
    <2>2. focusedCard + 1 \in 1..Len(those) /\ focusedCol + 1 \in 1..Len(BoardColumns)
      BY <1>1, <1>2, <2>1
    <2>3. focusedCardId = those[focusedCard + 1]
      BY <1>2 DEF focusedCardId, CardAt
    <2>4. those[focusedCard + 1] \in Cards
      BY <2>1, <2>2, ElementOfSeq
    <2>5. columns[those[focusedCard + 1]] = BoardColumns[focusedCol + 1]
      BY <2>2, EntriesType
    <2> QED  BY <1>1, <2>2, <2>3, <2>4, <2>5
  <1>3. CASE ~(focusedCol \in 0..Len(BoardColumns) - 1
               /\ focusedCard \in 0..Len(EntriesOf(BoardColumns[focusedCol + 1])) - 1)
    BY <1>3 DEF focusedCardId, CardAt
  <1> QED  BY <1>2, <1>3

LEMMA KanbanStarts == KanbanInit => KanbanInv
  <1> SUFFICES ASSUME KanbanInit  PROVE  KanbanInv
    OBVIOUS
  <1>1. Len(BoardColumns) \in Nat /\ Cardinality(Cards) \in Nat
    BY KanbanAssumption, LenProperties, FS_CardinalityType
  <1>2. focusedCol \in -1..Len(BoardColumns) - 1 /\ focusedCard \in -1..Cardinality(Cards)
    <2>1. focusedCol = -1 /\ focusedCard = -1
      BY DEF KanbanInit
    <2> QED  BY <1>1, <2>1
  <1>3. allowedMoves \in [ColumnValues -> SUBSET ColumnValues] \cup {<<>>}
    BY DEF KanbanInit
  <1>4. NoDrop \in Drops /\ NoEnter \in Enters
    BY DEF NoDrop, NoEnter, Drops, Enters
  <1>5. drop = NoDrop /\ enter = NoEnter
    BY DEF KanbanInit
  <1>6. DropMatchesShown /\ EnterOpensRing
    BY <1>5 DEF DropMatchesShown, EnterOpensRing, NoDrop, NoEnter
  <1>7. /\ column \in [Cards -> ColumnValues] /\ columns \in [Cards -> ColumnValues]
        /\ dragged \in Cards \cup {NoCard} /\ fromColumn \in ColumnValues \cup {""}
        /\ hideEmpty \in BOOLEAN /\ collapsedColumns \subseteq ColumnValues
    BY DEF KanbanInit
  <1> QED  BY <1>2, <1>3, <1>4, <1>5, <1>6, <1>7 DEF KanbanInv, KanbanTypeOK

LEMMA KanbanStep == KanbanInv /\ (KanbanNext \/ UNCHANGED kanbanVars) => KanbanInv'
  <1> SUFFICES ASSUME KanbanInv, KanbanNext \/ UNCHANGED kanbanVars  PROVE  KanbanInv'
    OBVIOUS
  <1>0. /\ column \in [Cards -> ColumnValues] /\ columns \in [Cards -> ColumnValues]
        /\ dragged \in Cards \cup {NoCard} /\ fromColumn \in ColumnValues \cup {""}
        /\ focusedCol \in -1..Len(BoardColumns) - 1 /\ focusedCard \in -1..Cardinality(Cards)
        /\ hideEmpty \in BOOLEAN /\ collapsedColumns \subseteq ColumnValues
        /\ drop \in Drops /\ enter \in Enters /\ DropMatchesShown /\ EnterOpensRing
    BY DEF KanbanInv, KanbanTypeOK
  \* What a step has to keep when it drops nothing and opens nothing.
  <1>1. ASSUME UNCHANGED <<allowedMoves, drop, enter>>,
               column' \in [Cards -> ColumnValues], columns' \in [Cards -> ColumnValues],
               dragged' \in Cards \cup {NoCard}, fromColumn' \in ColumnValues \cup {""},
               focusedCol' \in -1..Len(BoardColumns) - 1, focusedCard' \in -1..Cardinality(Cards),
               hideEmpty' \in BOOLEAN, collapsedColumns' \subseteq ColumnValues
        PROVE  KanbanInv'
    BY <1>1 DEF KanbanInv, KanbanTypeOK, DropMatchesShown, EnterOpensRing
  <1>2. CASE DragStart
    <2>1. PICK c \in Cards : dragged' = c /\ fromColumn' = columns[c]
      BY <1>2 DEF DragStart, findColumnValue
    <2> QED  BY <1>0, <1>1, <1>2, <2>1 DEF DragStart, kanbanFocus
  <1>3. CASE DragEnd
    <2>0. CASE UNCHANGED <<column, drop>>
      BY <1>0, <1>1, <1>3, <2>0 DEF DragEnd, kanbanFocus
    <2> SUFFICES ASSUME ~UNCHANGED <<column, drop>>  PROVE KanbanInv'
      BY <2>0
    <2>1. PICK value \in ColumnValues :
              LET from == columns[dragged]
                  sends == from # value /\ MayMove(from, value) IN
              /\ drop' = [shown |-> columnDropState(value), sent |-> sends, moved |-> from # fromColumn]
              /\ column' \in IF sends THEN {column, [column EXCEPT ![dragged] = value]} ELSE {column}
      BY <1>0, <1>3 DEF DragEnd, findColumnValue, Targets
    <2>2. column' \in [Cards -> ColumnValues]
      BY <1>0, <2>1
    <2>3. columnDropState(value) \in {"idle", "allowed", "blocked"}
      BY DEF columnDropState
    <2>4. drop' \in Drops
      BY <2>1, <2>3 DEF Drops
    <2>5. /\ drop'.shown = columnDropState(value)
          /\ drop'.sent <=> (columns[dragged] # value /\ MayMove(columns[dragged], value))
          /\ drop'.moved <=> (columns[dragged] # fromColumn)
      BY <2>1
    <2>6. DropMatchesShown'
      BY <2>5 DEF DropMatchesShown, columnDropState, MayMove
    <2>7. UNCHANGED <<columns, allowedMoves, kanbanFocus>> /\ dragged' = NoCard /\ fromColumn' = ""
      BY <1>3 DEF DragEnd
    <2> QED  BY <2>2, <2>4, <2>6, <2>7 DEF KanbanInv, KanbanTypeOK, EnterOpensRing, kanbanFocus
  <1>4. CASE DragCancel
    BY <1>0, <1>1, <1>4 DEF DragCancel, kanbanFocus
  <1>5. CASE handleBoardKeyDown
    <2>0. PICK width \in Nat, size \in Nat : width = Len(BoardColumns) /\ size = Cardinality(Cards) /\ width > 0
      BY KanbanAssumption, LenProperties, EmptySeq, FS_CardinalityType
    <2>1. ASSUME NEW a \in Int, NEW b \in Int
          PROVE  /\ Min({a, b}) \in {a, b} /\ Min({a, b}) <= a /\ Min({a, b}) <= b
                 /\ Max({a, b}) \in {a, b} /\ Max({a, b}) >= a /\ Max({a, b}) >= b
      <3>1. /\ \E x \in {a, b} : \A y \in {a, b} : x <= y
            /\ \E x \in {a, b} : \A y \in {a, b} : x >= y
        OBVIOUS
      <3>2. /\ Min({a, b}) \in {a, b} /\ \A y \in {a, b} : Min({a, b}) <= y
            /\ Max({a, b}) \in {a, b} /\ \A y \in {a, b} : Max({a, b}) >= y
        BY <3>1, Zenon DEF Min, Max
      <3> QED  BY <3>2
    <2>2. UNCHANGED <<column, columns, allowedMoves, dragged, fromColumn, hideEmpty, collapsedColumns, drop, enter>>
      BY <1>5 DEF handleBoardKeyDown
    <2>3. focusedCol \in -1..width - 1 /\ focusedCard \in -1..size
      BY <1>0, <2>0
    <2>4. CASE focusedCol' = Min({focusedCol + 1, Len(BoardColumns) - 1}) /\ focusedCard' = 0
      <3>1. PICK a \in Int, b \in Int : a = focusedCol + 1 /\ b = Len(BoardColumns) - 1 /\ a >= 0 /\ b = width - 1
        BY <2>0, <2>3
      <3>2. focusedCol' \in {a, b} /\ focusedCol' <= b
        BY <2>1, <2>4, <3>1
      <3>3. focusedCol' \in -1..width - 1
        BY <2>0, <3>1, <3>2
      <3>4. 0 \in -1..size
        OBVIOUS
      <3> QED  BY <1>0, <1>1, <2>0, <2>2, <2>4, <3>3, <3>4, Zenon
    <2>5. CASE focusedCol' = Max({focusedCol - 1, 0}) /\ focusedCard' = 0
      <3>1. PICK a \in Int, b \in Int : a = focusedCol - 1 /\ a <= width - 1 /\ b = 0
        BY <2>0, <2>3
      <3>2. focusedCol' \in {a, b} /\ focusedCol' >= b
        BY <2>1, <2>5, <3>1
      <3>3. focusedCol' \in -1..width - 1
        BY <2>0, <3>1, <3>2
      <3>4. 0 \in -1..size
        OBVIOUS
      <3> QED  BY <1>0, <1>1, <2>0, <2>2, <2>5, <3>3, <3>4, Zenon
    <2>6. CASE focusedCard' = Min({focusedCard + 1, Len(EntriesOf(BoardColumns[focusedCol + 1])) - 1})
               /\ UNCHANGED focusedCol
      <3>1. PICK m \in Nat : m = Len(EntriesOf(BoardColumns[focusedCol + 1])) /\ m <= size
        BY <2>0, EntriesType, LenProperties
      <3>2. PICK a \in Int, b \in Int : a = focusedCard + 1 /\ b = m - 1 /\ a >= 0 /\ b >= -1 /\ b < size
        BY <2>3, <3>1
      <3>3. focusedCard' \in {a, b} /\ focusedCard' <= b
        BY <2>1, <2>6, <3>1, <3>2
      <3>4. focusedCard' \in -1..size
        BY <3>2, <3>3
      <3> QED  BY <1>0, <1>1, <2>0, <2>2, <2>6, <3>4, Zenon
    <2>7. CASE focusedCard' = Max({focusedCard - 1, 0}) /\ UNCHANGED focusedCol
      <3>1. PICK a \in Int, b \in Int : a = focusedCard - 1 /\ a <= size /\ b = 0
        BY <2>3
      <3>2. focusedCard' \in {a, b} /\ focusedCard' >= b
        BY <2>1, <2>7, <3>1
      <3>3. focusedCard' \in -1..size
        BY <3>1, <3>2
      <3> QED  BY <1>0, <1>1, <2>0, <2>2, <2>7, <3>3, Zenon
    <2> QED  BY <1>5, <2>4, <2>5, <2>6, <2>7 DEF handleBoardKeyDown
  <1>6. CASE Enter
    <2>1. /\ enter' = [opened |-> focusedCardId, ring |-> Ring,
                       hidden |-> hideEmpty \/ columns[focusedCardId] \in collapsedColumns]
          /\ focusedCardId # NoCard
      BY <1>6 DEF Enter
    <2>2. focusedCardId \in Cards \cup {NoCard} /\ Ring \in Cards \cup {NoCard}
      BY FocusedType DEF Ring
    <2>3. enter' \in Enters
      BY <2>1, <2>2 DEF Enters
    <2>4. /\ enter'.opened = focusedCardId /\ enter'.ring = Ring
          /\ enter'.hidden <=> (hideEmpty \/ columns[focusedCardId] \in collapsedColumns)
      BY <2>1
    <2>5. ~hideEmpty => visibleColumns = BoardColumns
      BY DEF visibleColumns
    <2>6. EnterOpensRing'
      BY <2>1, <2>4, <2>5, FocusedType DEF EnterOpensRing, Ring
    <2> QED  BY <1>6, <2>3, <2>6 DEF Enter, KanbanInv, KanbanTypeOK, DropMatchesShown
  <1>7. CASE ToggleHideEmpty
    BY <1>0, <1>1, <1>7 DEF ToggleHideEmpty
  <1>8. CASE toggleCollapse
    <2>1. collapsedColumns' \subseteq ColumnValues
      BY <1>0, <1>8 DEF toggleCollapse
    <2> QED  BY <1>0, <1>1, <1>8, <2>1 DEF toggleCollapse
  <1>9. CASE SomebodyMoves
    <2>1. column' \in [Cards -> ColumnValues]
      BY <1>0, <1>9 DEF SomebodyMoves
    <2> QED  BY <1>0, <1>1, <1>9, <2>1 DEF SomebodyMoves, kanbanFocus
  <1>10. CASE RefetchColumns
    BY <1>0, <1>1, <1>10 DEF RefetchColumns, kanbanFocus
  <1>11. CASE UNCHANGED kanbanVars
    BY <1>0, <1>1, <1>11 DEF kanbanVars
  <1> QED  BY <1>2, <1>3, <1>4, <1>5, <1>6, <1>7, <1>8, <1>9, <1>10, <1>11 DEF KanbanNext

-----------------------------------------------------------------------------
(* The gantt chart: bars start before they end *)

InOrder(b) == b.start <= b.end

\* A request that was computed from the dates of the version it names.
SentFor(u, b) ==
    u.version # Unlisted =>
        /\ u.version <= b.version
        /\ u.version = b.version /\ ~u.ahead => u.base = Dates(b)

\* Dates that were read of the record with their version.
ReadOf(r, b) == r.version <= b.version /\ (r.version = b.version => Dates(r) = Dates(b))

\* Nothing that is shown, dragged or under way is turned around; what is shown, or was
\* shown when a drag began, is the record or older than it.
GanttOrder ==
    /\ InOrder(bar) /\ InOrder(shownBar) /\ InOrder(drag)
    /\ \A n \in DOMAIN updates : InOrder(updates[n]) /\ SentFor(updates[n], bar)
    /\ listedVersion <= bar.version
    /\ ReadOf(shownBar, bar) /\ (drag # NoDrag => ReadOf(drag, bar))

GanttInv == GanttTypeOK /\ GanttOrder

\* Dragging keeps the ends in order.
LEMMA DraggedOrder ==
    ASSUME NEW type \in Handles \cup {"none"}, NEW start \in Int, NEW end \in Int, start <= end, NEW delta \in Int
    PROVE  /\ Dragged(type, start, end, delta) \in Int \X Int
           /\ Dragged(type, start, end, delta)[1] <= Dragged(type, start, end, delta)[2]
  <1>1. /\ \A a, b \in Int : Min({a, b}) \in Int /\ Min({a, b}) <= b
        /\ \A a, b \in Int : Max({a, b}) \in Int /\ b <= Max({a, b})
    <2>1. ASSUME NEW a \in Int, NEW b \in Int
          PROVE  /\ Min({a, b}) \in {a, b} /\ \A y \in {a, b} : Min({a, b}) <= y
                 /\ Max({a, b}) \in {a, b} /\ \A y \in {a, b} : Max({a, b}) >= y
      <3>1. /\ \E x \in {a, b} : \A y \in {a, b} : x <= y
            /\ \E x \in {a, b} : \A y \in {a, b} : x >= y
        OBVIOUS
      <3> QED  BY <3>1, Zenon DEF Min, Max
    <2> QED  BY <2>1
  <1>2. start + delta \in Int /\ end + delta \in Int
    OBVIOUS
  <1>3. CASE type = "move"
    BY <1>2, <1>3 DEF Dragged
  <1>4. CASE type = "resize-start"
    BY <1>1, <1>2, <1>4 DEF Dragged
  <1>5. CASE type = "resize-end"
    BY <1>1, <1>2, <1>5 DEF Dragged
  <1>6. CASE type = "none"
    BY <1>6 DEF Dragged
  <1> QED  BY <1>3, <1>4, <1>5, <1>6 DEF Handles

LEMMA GanttMeans == GanttInv => BarsKeepOrder
  <1> SUFFICES ASSUME GanttInv  PROVE  BarsKeepOrder
    OBVIOUS
  <1>1. /\ drag.type \in Handles \cup {"none"} /\ drag.delta \in Int
        /\ shownBar.start \in Int /\ shownBar.end \in Int /\ shownBar.start <= shownBar.end
        /\ bar.start <= bar.end
    BY DEF GanttInv, GanttOrder, GanttTypeOK, GanttBar, GanttDrag, InOrder
  <1> QED  BY <1>1, DraggedOrder DEF BarsKeepOrder, Preview

LEMMA GanttStarts == GanttInit => GanttInv
  <1> SUFFICES ASSUME GanttInit  PROVE  GanttInv
    OBVIOUS
  <1>1. PICK length \in 0..1 : bar = [start |-> 0, end |-> IF twoDates THEN length ELSE 0, version |-> 0]
    BY DEF GanttInit
  <1>2. /\ bar.start = 0 /\ bar.end \in Int /\ bar.start <= bar.end /\ bar.version = 0
        /\ bar \in GanttBar
    BY <1>1, GanttAssumption DEF GanttBar, Version
  <1>3. /\ shownBar = bar /\ listedVersion \in {0, Unlisted} /\ drag = NoDrag /\ updates = <<>>
        /\ opened = FALSE /\ twoDates \in BOOLEAN /\ lastAnswer = NoUpdate
    BY DEF GanttInit
  <1>4. NoDrag \in GanttDrag /\ InOrder(NoDrag)
    BY GanttAssumption DEF NoDrag, GanttDrag, InOrder, Version
  <1>5. NoUpdate \in DateUpdate
    BY DEF NoUpdate, DateUpdate
  <1>6. listedVersion \in Version \cup {Unlisted} /\ listedVersion <= 0
    BY <1>3, GanttAssumption DEF Version, Unlisted
  <1>7. GanttTypeOK
    <2>1. bar \in GanttBar /\ shownBar \in GanttBar /\ drag \in GanttDrag /\ lastAnswer \in DateUpdate
      BY <1>2, <1>3, <1>4, <1>5
    <2>2. opened \in BOOLEAN /\ twoDates \in BOOLEAN
      BY <1>3, Zenon
    <2>4. updates \in Seq(DateUpdate)
      BY <1>3, EmptySeq, Zenon
    <2>3. listedVersion \in Version \cup {Unlisted}
      BY <1>6
    <2> QED  BY <2>1, <2>2, <2>3, <2>4 DEF GanttTypeOK
  <1>8. GanttOrder
    BY <1>2, <1>3, <1>4, <1>6 DEF GanttOrder, InOrder, ReadOf
  <1> QED  BY <1>7, <1>8 DEF GanttInv

\* A request is added that starts before it ends.
LEMMA DateRequestSent ==
    ASSUME GanttInv, NEW start \in Int, NEW end \in Int, start <= end, NEW from,
           from.start \in Int, from.end \in Int, from.version \in Version, ReadOf(from, bar),
           handleGanttUpdate(start, end, from), UNCHANGED bar
    PROVE  /\ updates' \in Seq(DateUpdate)
           /\ \A n \in DOMAIN updates' : InOrder(updates'[n]) /\ SentFor(updates'[n], bar')
  <1> DEFINE u == DateRequest(start, end, from)
  <1>0. bar \in GanttBar /\ listedVersion \in Version \cup {Unlisted} /\ updates \in Seq(DateUpdate)
    BY DEF GanttInv, GanttTypeOK
  <1>1. bar.version \in Version /\ Dates(from) \in Int \X Int
    BY <1>0 DEF GanttBar, Dates
  <1>2. /\ u.start = start /\ u.end = (IF twoDates THEN end ELSE start) /\ u.version = listedVersion
        /\ u.base = Dates(from) /\ u.ahead = (listedVersion > from.version)
        /\ u \in DateUpdate
    BY <1>0, <1>1 DEF DateRequest, DateUpdate
  <1>3. u.end \in Int /\ u.start <= u.end
    BY <1>2
  <1>4. SentFor(u, bar)
    <2>1. ~u.ahead => ~(listedVersion > from.version)
      BY <1>2
    <2>2. /\ listedVersion <= bar.version /\ from.version <= bar.version
          /\ from.version = bar.version => Dates(from) = Dates(bar)
      BY DEF GanttInv, GanttOrder, ReadOf
    <2>3. listedVersion \in Int /\ from.version \in Int /\ bar.version \in Int
      BY <1>0, <1>1, GanttAssumption DEF Version, Unlisted
    <2>4. u.version = listedVersion /\ u.base = Dates(from)
      BY <1>2
    <2> HIDE DEF u
    <2> QED  BY <2>1, <2>2, <2>3, <2>4 DEF SentFor
  <1>5. updates' = Append(updates, u)
    BY DEF handleGanttUpdate
  <1> HIDE DEF u
  <1>6. /\ updates' \in Seq(DateUpdate) /\ Len(updates) \in Nat /\ Len(updates') = Len(updates) + 1
        /\ \A i \in 1..Len(updates) + 1 : updates'[i] = IF i <= Len(updates) THEN updates[i] ELSE u
    BY <1>0, <1>2, <1>5, AppendType
  <1>7. DOMAIN updates' = 1..Len(updates) + 1 /\ DOMAIN updates = 1..Len(updates)
    BY <1>0, <1>6, LenProperties
  <1>8. \A n \in DOMAIN updates : InOrder(updates[n]) /\ SentFor(updates[n], bar)
    BY DEF GanttInv, GanttOrder
  <1>9. \A n \in DOMAIN updates' : InOrder(updates'[n]) /\ SentFor(updates'[n], bar)
    BY <1>3, <1>4, <1>6, <1>7, <1>8 DEF InOrder
  <1> QED  BY <1>6, <1>9

LEMMA GanttStep == GanttInv /\ (GanttNext \/ UNCHANGED ganttVars) => GanttInv'
  <1> SUFFICES ASSUME GanttInv, GanttNext \/ UNCHANGED ganttVars  PROVE  GanttInv'
    OBVIOUS
  <1>0. /\ bar \in GanttBar /\ shownBar \in GanttBar /\ drag \in GanttDrag /\ updates \in Seq(DateUpdate)
        /\ lastAnswer \in DateUpdate /\ opened \in BOOLEAN /\ twoDates \in BOOLEAN
        /\ listedVersion \in Version \cup {Unlisted}
        /\ InOrder(bar) /\ InOrder(shownBar) /\ InOrder(drag)
        /\ \A n \in DOMAIN updates : InOrder(updates[n]) /\ SentFor(updates[n], bar)
        /\ listedVersion <= bar.version /\ ReadOf(shownBar, bar) /\ (drag # NoDrag => ReadOf(drag, bar))
    BY DEF GanttInv, GanttTypeOK, GanttOrder
  <1>1. /\ bar.start \in Int /\ bar.end \in Int /\ bar.version \in Version
        /\ shownBar.start \in Int /\ shownBar.end \in Int /\ shownBar.version \in Version
        /\ drag.type \in Handles \cup {"none"} /\ drag.start \in Int /\ drag.end \in Int /\ drag.delta \in Int
        /\ drag.version \in Version
    BY <1>0 DEF GanttBar, GanttDrag
  \* The gestures: nothing changes but the drag and the requests.
  <1>2. ASSUME UNCHANGED <<bar, shownBar, listedVersion, twoDates, lastAnswer>>, opened' \in BOOLEAN,
               drag' \in GanttDrag, InOrder(drag'), drag' # NoDrag => ReadOf(drag', bar), updates' \in Seq(DateUpdate),
               \A n \in DOMAIN updates' : InOrder(updates'[n]) /\ SentFor(updates'[n], bar')
        PROVE  GanttInv'
    <2>1. GanttTypeOK'
      BY <1>0, <1>2 DEF GanttTypeOK
    <2>2. GanttOrder'
      BY <1>0, <1>2 DEF GanttOrder, ReadOf
    <2> QED  BY <2>1, <2>2 DEF GanttInv
  <1>3. ASSUME UNCHANGED <<bar, updates>>
        PROVE  updates' \in Seq(DateUpdate) /\ \A n \in DOMAIN updates' : InOrder(updates'[n]) /\ SentFor(updates'[n], bar')
    BY <1>0, <1>3
  <1>4. CASE handleMouseDown
    <2>1. PICK type \in Handles : drag' = [type |-> type, start |-> shownBar.start, end |-> shownBar.end,
                                           version |-> shownBar.version, delta |-> 0]
      BY <1>4 DEF handleMouseDown
    <2>2. drag' \in GanttDrag /\ InOrder(drag') /\ ReadOf(drag', bar)
      BY <1>0, <1>1, <2>1 DEF GanttDrag, InOrder, ReadOf, Dates
    <2> QED  BY <1>0, <1>2, <1>3, <1>4, <2>2 DEF handleMouseDown
  <1>5. CASE handleMouseMove
    <2>1. PICK d \in Deltas : drag' = [drag EXCEPT !.delta = d]
      BY <1>5 DEF handleMouseMove
    <2>2. drag' \in GanttDrag /\ drag'.start = drag.start /\ drag'.end = drag.end /\ drag'.version = drag.version
      BY <1>0, <2>1, GanttAssumption DEF GanttDrag
    <2>3. InOrder(drag') /\ ReadOf(drag', bar)
      BY <1>0, <1>5, <2>2 DEF InOrder, ReadOf, Dates, handleMouseMove
    <2> QED  BY <1>0, <1>2, <1>3, <1>5, <2>2, <2>3 DEF handleMouseMove
  <1>6. CASE handleMouseUp
    <2> DEFINE to == Dragged(drag.type, drag.start, drag.end, drag.delta)
    <2>1. to \in Int \X Int /\ to[1] <= to[2]
      BY <1>0, <1>1, DraggedOrder DEF InOrder
    <2>2. /\ UNCHANGED <<bar, shownBar, listedVersion, twoDates, lastAnswer>> /\ drag' = NoDrag
          /\ opened' \in BOOLEAN /\ (IF drag.delta = 0 THEN UNCHANGED updates ELSE handleGanttUpdate(to[1], to[2], drag))
          /\ drag # NoDrag
      BY <1>6 DEF handleMouseUp
    <2>3. NoDrag \in GanttDrag /\ InOrder(NoDrag)
      BY GanttAssumption DEF NoDrag, GanttDrag, InOrder, Version
    <2> HIDE DEF to
    <2>4. updates' \in Seq(DateUpdate) /\ \A n \in DOMAIN updates' : InOrder(updates'[n]) /\ SentFor(updates'[n], bar')
      BY <1>0, <1>1, <1>3, <2>1, <2>2, DateRequestSent
    <2> QED  BY <1>2, <2>2, <2>3, <2>4
  <1>7. CASE handleArrowKey
    <2>1. PICK d \in {-1, 1} : handleGanttUpdate(shownBar.start + d, shownBar.end + d, shownBar)
      BY <1>7 DEF handleArrowKey
    <2>2. /\ shownBar.start + d \in Int /\ shownBar.end + d \in Int
          /\ shownBar.start + d <= shownBar.end + d
      BY <1>0, <1>1 DEF InOrder
    <2>3. UNCHANGED bar
      BY <1>7 DEF handleArrowKey
    <2>4. updates' \in Seq(DateUpdate) /\ \A n \in DOMAIN updates' : InOrder(updates'[n]) /\ SentFor(updates'[n], bar')
      BY <1>0, <1>1, <2>1, <2>2, <2>3, DateRequestSent
    <2> QED  BY <1>0, <1>2, <1>7, <2>4 DEF handleArrowKey
  \* The record changes: its version is new.
  <1>8. ASSUME NEW start \in Int, NEW end \in Int, start <= end, bar.version < MaxWrites,
               bar' = [start |-> start, end |-> end, version |-> bar.version + 1],
               UNCHANGED <<shownBar, listedVersion, twoDates, drag, opened>>, lastAnswer' \in DateUpdate,
               updates' \in Seq(DateUpdate),
               \A n \in DOMAIN updates' : \E i \in DOMAIN updates : updates'[n] = updates[i]
        PROVE  GanttInv'
    <2>0. bar.version + 1 \in Version
      BY SMTT(30), <1>1, <1>8, GanttAssumption DEF Version
    <2>1. bar'.version = bar.version + 1 /\ bar'.version \in Version /\ bar' \in GanttBar /\ InOrder(bar')
      BY <1>8, <2>0 DEF GanttBar, InOrder
    <2>2. ASSUME NEW i \in DOMAIN updates  PROVE  InOrder(updates[i]) /\ SentFor(updates[i], bar')
      <3>1. updates[i] \in DateUpdate /\ SentFor(updates[i], bar) /\ InOrder(updates[i])
        BY <1>0, <2>2, LenProperties, ElementOfSeq
      <3>2. updates[i].version \in Version \cup {Unlisted}
        BY <3>1 DEF DateUpdate
      <3>3. updates[i].version # Unlisted => updates[i].version <= bar.version
        BY <3>1 DEF SentFor
      <3>4. updates[i].version # Unlisted => updates[i].version < bar'.version
        BY <1>1, <2>1, <3>2, <3>3, GanttAssumption DEF Version
      <3>5. (updates[i].version \in Int /\ bar'.version \in Int) \/ updates[i].version = Unlisted
        BY <2>1, <3>2, GanttAssumption DEF Version
      <3> QED  BY <2>1, <3>1, <3>4, <3>5 DEF SentFor
    <2>3. \A n \in DOMAIN updates' : InOrder(updates'[n]) /\ SentFor(updates'[n], bar')
      <3> SUFFICES ASSUME NEW n \in DOMAIN updates'  PROVE  InOrder(updates'[n]) /\ SentFor(updates'[n], bar')
        OBVIOUS
      <3>1. PICK i \in DOMAIN updates : updates'[n] = updates[i]
        BY <1>8
      <3> QED  BY <2>2, <3>1 DEF SentFor
    <2>4. listedVersion' <= bar'.version /\ shownBar'.version < bar'.version
      <3>1. listedVersion \in Int /\ shownBar.version \in Int /\ bar.version \in Int
        BY <1>0, <1>1, GanttAssumption DEF Version, Unlisted
      <3> QED  BY <1>0, <1>8, <2>1, <3>1 DEF ReadOf
    <2>5. ReadOf(shownBar', bar') /\ (drag' # NoDrag => ReadOf(drag', bar'))
      <3>1. \A r \in {shownBar, drag} : ReadOf(r, bar) => r.version < bar'.version
        BY <1>1, <2>1, GanttAssumption DEF Version, ReadOf
      <3>2. \A r \in {shownBar, drag} : r.version < bar'.version => ReadOf(r, bar')
        BY <1>1, <2>1, GanttAssumption DEF Version, ReadOf
      <3>3. shownBar' = shownBar /\ drag' = drag
        BY <1>8
      <3> QED  BY <1>0, <3>1, <3>2, <3>3
    <2>6. GanttTypeOK'
      BY <1>0, <1>8, <2>1 DEF GanttTypeOK
    <2>7. GanttOrder'
      <3>1. InOrder(shownBar') /\ InOrder(drag') /\ listedVersion' <= bar'.version
        BY <1>0, <1>8, <2>4
      <3> QED  BY <2>1, <2>3, <2>5, <3>1 DEF GanttOrder
    <2> QED  BY <2>6, <2>7 DEF GanttInv
  <1>9. CASE SomebodyReschedules
    <2>1. PICK d \in Deltas : bar' = [start |-> bar.start + d, end |-> bar.end + d, version |-> bar.version + 1]
      BY <1>9 DEF SomebodyReschedules
    <2>2. /\ bar.start + d \in Int /\ bar.end + d \in Int /\ bar.start + d <= bar.end + d
      BY <1>0, <1>1, GanttAssumption DEF InOrder
    <2> QED  BY <1>0, <1>8, <1>9, <2>1, <2>2 DEF SomebodyReschedules
  <1>10. CASE GanttAnswered
    <2>1. PICK n \in DOMAIN updates :
              /\ updates' = RemoveAt(updates, n)
              /\ \/ /\ VersionHolds(updates[n]) /\ bar.version < MaxWrites
                    /\ bar' = [start |-> updates[n].start, end |-> updates[n].end, version |-> bar.version + 1]
                    /\ lastAnswer' = updates[n]
                 \/ UNCHANGED <<bar, lastAnswer>>
              /\ UNCHANGED <<acts, shownBar, listedVersion, twoDates, drag, opened>>
      BY <1>10 DEF GanttAnswered
    <2>2. DOMAIN updates = 1..Len(updates) /\ Len(updates) \in Nat
      BY <1>0, LenProperties
    <2>3. /\ updates' \in Seq(DateUpdate) /\ Len(updates') = Len(updates) - 1
          /\ \A i \in 1..Len(updates) - 1 : updates'[i] = IF i < n THEN updates[i] ELSE updates[i + 1]
      BY <1>0, <2>1, <2>2, RemoveAtType
    <2>4. DOMAIN updates' = 1..Len(updates) - 1
      BY <2>3, LenProperties
    <2>5. \A k \in DOMAIN updates' : \E i \in DOMAIN updates : updates'[k] = updates[i]
      <3> SUFFICES ASSUME NEW k \in DOMAIN updates'  PROVE  \E i \in DOMAIN updates : updates'[k] = updates[i]
        OBVIOUS
      <3>1. k \in DOMAIN updates /\ k + 1 \in DOMAIN updates
        BY <2>2, <2>4
      <3> QED  BY <2>3, <2>4, <3>1
    <2>6. updates[n] \in DateUpdate /\ InOrder(updates[n])
      BY <1>0, <2>1, <2>2, ElementOfSeq
    <2>7. updates[n].start \in Int /\ updates[n].end \in Int
      BY <2>6 DEF DateUpdate
    <2>8. CASE UNCHANGED <<bar, lastAnswer>>
      <3>1. \A k \in DOMAIN updates' : InOrder(updates'[k]) /\ SentFor(updates'[k], bar')
        BY <1>0, <2>5, <2>8
      <3> QED  BY <1>0, <1>2, <2>1, <2>3, <2>8, <3>1
    <2>9. CASE /\ VersionHolds(updates[n]) /\ bar.version < MaxWrites
               /\ bar' = [start |-> updates[n].start, end |-> updates[n].end, version |-> bar.version + 1]
               /\ lastAnswer' = updates[n]
      BY <1>8, <2>1, <2>3, <2>5, <2>6, <2>7, <2>9 DEF InOrder
    <2> QED  BY <2>1, <2>8, <2>9
  <1>11. CASE RefetchChart
    <2>1. shownBar' = bar /\ UNCHANGED <<bar, listedVersion, twoDates, drag, updates, opened, lastAnswer>>
      BY <1>11 DEF RefetchChart
    <2>2. bar.version <= bar.version
      BY <1>1, GanttAssumption DEF Version
    <2>3. GanttTypeOK'
      BY <1>0, <2>1 DEF GanttTypeOK
    <2>4. GanttOrder'
      BY <1>0, <2>1, <2>2 DEF GanttOrder, ReadOf
    <2> QED  BY <2>3, <2>4 DEF GanttInv
  <1>12. CASE RefetchListed
    <2>1. listedVersion' = bar.version /\ UNCHANGED <<bar, shownBar, twoDates, drag, updates, opened, lastAnswer>>
      BY <1>12 DEF RefetchListed
    <2>2. listedVersion' \in Version \cup {Unlisted} /\ listedVersion' <= bar'.version
      BY <1>1, <2>1, GanttAssumption DEF Version
    <2>3. GanttTypeOK'
      BY <1>0, <2>1, <2>2 DEF GanttTypeOK
    <2>4. GanttOrder'
      BY <1>0, <2>1, <2>2 DEF GanttOrder
    <2> QED  BY <2>3, <2>4 DEF GanttInv
  <1>13. CASE UNCHANGED ganttVars
    <2>1. UNCHANGED <<bar, shownBar, listedVersion, twoDates, drag, updates, opened, lastAnswer>>
      BY <1>13 DEF ganttVars
    <2> QED  BY <1>0, <1>2, <1>3, <2>1
  <1> QED  BY <1>4, <1>5, <1>6, <1>7, <1>9, <1>10, <1>11, <1>12, <1>13 DEF GanttNext

\* A drag whose row was not read again in the meantime is sent as it was shown.
LEMMA PreviewSaved ==
    ASSUME GanttInv, handleMouseUp, updates' # updates, Dates(shownBar) = <<drag.start, drag.end>>
    PROVE  Last(updates').start = Preview[1] /\ (twoDates => Last(updates').end = Preview[2])
  <1> DEFINE to == Dragged(drag.type, drag.start, drag.end, drag.delta)
             u == DateRequest(to[1], to[2], drag)
  <1>1. to = Preview
    BY DEF Preview, Dates
  <1>2. updates' = Append(updates, u)
    BY DEF handleMouseUp, handleGanttUpdate
  <1>3. Last(updates') = u
    <2>1. updates \in Seq(DateUpdate \cup {u}) /\ u \in DateUpdate \cup {u}
      BY DEF GanttInv, GanttTypeOK
    <2> HIDE DEF u
    <2>2. /\ updates' \in Seq(DateUpdate \cup {u}) /\ Len(updates) \in Nat /\ Len(updates') = Len(updates) + 1
          /\ updates'[Len(updates) + 1] = u
      BY <1>2, <2>1, AppendType
    <2>3. Last(updates') = updates'[Len(updates')]
      BY DEF Last
    <2> QED  BY <2>2, <2>3
  <1> QED  BY <1>1, <1>3 DEF DateRequest

\* A request that is carried out replaces the dates it was computed from.
LEMMA AnswerReplaces ==
    ASSUME GanttInv, GanttNext \/ UNCHANGED ganttVars
    PROVE  lastAnswer' # lastAnswer /\ lastAnswer'.version # Unlisted /\ ~lastAnswer'.ahead
              => lastAnswer'.base = Dates(bar)
  <1> SUFFICES ASSUME lastAnswer' # lastAnswer, lastAnswer'.version # Unlisted, ~lastAnswer'.ahead
               PROVE  lastAnswer'.base = Dates(bar)
    OBVIOUS
  <1>1. GanttAnswered
    BY DEF GanttNext, ganttVars, handleMouseDown, handleMouseMove, handleMouseUp, handleArrowKey,
           SomebodyReschedules, RefetchChart, RefetchListed
  <1>2. PICK n \in DOMAIN updates : VersionHolds(updates[n]) /\ lastAnswer' = updates[n]
    BY <1>1 DEF GanttAnswered
  <1> QED  BY <1>2 DEF GanttInv, GanttOrder, SentFor, VersionHolds

-----------------------------------------------------------------------------
(* The spreadsheet: merged areas are apart, copies are what is shown *)

\* A merge is kept by its corners, and no two merges overlap.
MergesInv ==
    /\ \A m \in mergedCells : m[1][1] <= m[2][1] /\ m[1][2] <= m[2][2]
    /\ \A m, n \in mergedCells : m # n => ~Overlap(AreaOf(m), AreaOf(n))

SheetInv == SheetTypeOK /\ MergesInv /\ CopiesWhatIsShown

\* Trimming keeps every row that is not empty.
LEMMA TrimmedType ==
    ASSUME NEW n \in Nat, NEW newRows \in [1..n -> SheetRow]
    PROVE  /\ Trimmed(newRows) \in Seq(SheetRow) /\ Len(Trimmed(newRows)) <= n
           /\ \A i \in DOMAIN Trimmed(newRows) : i \in 1..n /\ Trimmed(newRows)[i] = newRows[i]
           /\ \A i \in 1..n : newRows[i] # EmptyRow => i \in DOMAIN Trimmed(newRows)
           /\ \A k \in Nat : k + 1 = n /\ newRows[n] = EmptyRow => Len(Trimmed(newRows)) <= k
  <1> DEFINE full == {i \in DOMAIN newRows : newRows[i] # EmptyRow}
  <1>1. newRows \in Seq(SheetRow) /\ Len(newRows) = n
    BY IsASeq
  <1>2. CASE full = {}
    <2>1. Trimmed(newRows) = <<>>
      BY <1>2 DEF Trimmed
    <2>2. <<>> \in Seq(SheetRow) /\ Len(<<>>) = 0 /\ DOMAIN <<>> = {}
      OBVIOUS
    <2>3. \A i \in 1..n : newRows[i] = EmptyRow
      BY <1>2
    <2> QED  BY <2>1, <2>2, <2>3
  <1>3. CASE full # {}
    <2>0. full \subseteq 0..n /\ full \subseteq 1..n
      OBVIOUS
    <2>1. PICK m \in full : m = Max(full) /\ m \in 1..n /\ newRows[m] # EmptyRow /\ \A i \in full : i <= m
      BY <1>3, <2>0, Extremes
    <2>2. Trimmed(newRows) = SubSeq(newRows, 1, m)
      BY <1>3, <2>1 DEF Trimmed
    <2>3. /\ SubSeq(newRows, 1, m) \in Seq(SheetRow) /\ Len(SubSeq(newRows, 1, m)) = m
          /\ \A i \in 1..m : SubSeq(newRows, 1, m)[i] = newRows[i]
      <3>1. 1 \in 1..Len(newRows) + 1 /\ m \in 0..Len(newRows) /\ 1 - 1 <= m /\ m \in Nat
        BY <1>1, <2>1
      <3>2. SubSeq(newRows, 1, m) = [i \in 1..m |-> newRows[i]]
        BY <3>1
      <3>3. \A i \in 1..m : newRows[i] \in SheetRow
        BY <2>1
      <3>4. SubSeq(newRows, 1, m) \in Seq(SheetRow) /\ Len(SubSeq(newRows, 1, m)) = m
        BY <3>1, <3>2, <3>3, IsASeq
      <3> QED  BY <3>2, <3>4
    <2> DEFINE kept == SubSeq(newRows, 1, m)
    <2>4. DOMAIN kept = 1..m
      BY <2>3, LenProperties
    <2>5. Trimmed(newRows) = kept
      BY <2>2
    <2> HIDE DEF kept
    <2>6. \A i \in 1..n : newRows[i] # EmptyRow => i \in 1..m
      BY <2>1
    <2>7. kept \in Seq(SheetRow) /\ Len(kept) = m /\ \A i \in 1..m : kept[i] = newRows[i]
      BY <2>3 DEF kept
    <2>8. \A i \in DOMAIN kept : i \in 1..n /\ kept[i] = newRows[i]
      BY <2>1, <2>4, <2>7
    <2>9. \A i \in 1..n : newRows[i] # EmptyRow => i \in DOMAIN kept
      BY <2>4, <2>6
    <2>10. kept \in Seq(SheetRow) /\ Len(kept) <= n
      BY <2>1, <2>7
    <2>11. \A k \in Nat : k + 1 = n /\ newRows[n] = EmptyRow => Len(kept) <= k
      <3> SUFFICES ASSUME NEW k \in Nat, k + 1 = n, newRows[n] = EmptyRow  PROVE  m <= k
        BY <2>7
      <3>1. m # n
        BY <2>1
      <3> QED  BY <3>1
    <2> QED  BY <2>5, <2>8, <2>9, <2>10, <2>11
  <1> QED  BY <1>2, <1>3

LEMMA EmptyIsRow == EmptyRow \in SheetRow
  BY DEF EmptyRow, SheetRow

\* What is displayed are the rows of the value and empty ones.
LEMMA DisplayType ==
    ASSUME SheetTypeOK
    PROVE  \E n \in 0..MaxSheetRows :
              /\ displayRows \in [1..n -> SheetRow] /\ DOMAIN displayRows = 1..n
              /\ Len(sheet) <= n /\ DOMAIN sheet \subseteq 1..n
              /\ \A i \in DOMAIN sheet : displayRows[i] = sheet[i]
              /\ \A i \in 1..n : i \notin DOMAIN sheet => displayRows[i] = EmptyRow
  <1>1. sheet \in Seq(SheetRow) /\ Len(sheet) <= MaxSheetRows
    BY DEF SheetTypeOK
  <1>2. PICK k \in Nat : k = Len(sheet) /\ DOMAIN sheet = 1..k /\ k <= MaxSheetRows
    BY <1>1, LenProperties
  <1>3. \A i \in 1..k : sheet[i] \in SheetRow
    BY <1>1, <1>2, ElementOfSeq
  <1>4. PICK n \in 0..MaxSheetRows : n = Max({Len(sheet), initialRows}) /\ k <= n
    <2>1. k \in Int /\ initialRows \in Int
      BY <1>2, SheetAssumption
    <2>2. Max({k, initialRows}) \in {k, initialRows} /\ k <= Max({k, initialRows})
      BY <2>1, PairBounds
    <2>3. Max({k, initialRows}) \in 0..MaxSheetRows
      BY <1>2, <2>2, SheetAssumption
    <2> QED  BY <1>2, <2>2, <2>3
  <1>5. displayRows = [i \in 1..n |-> IF i \in 1..k THEN sheet[i] ELSE EmptyRow]
    BY <1>2, <1>4 DEF displayRows
  <1>6. displayRows \in [1..n -> SheetRow]
    BY <1>3, <1>5, EmptyIsRow
  <1>7. DOMAIN displayRows = 1..n /\ \A i \in 1..n : displayRows[i] = IF i \in 1..k THEN sheet[i] ELSE EmptyRow
    BY <1>5
  <1>8. DOMAIN sheet \subseteq 1..n
    BY <1>2, <1>4
  <1> QED  BY <1>2, <1>4, <1>6, <1>7, <1>8

\* Without a sort and a filter the screen shows the rows as they are.
LEMMA DirectShows ==
    ASSUME SheetTypeOK, Direct
    PROVE  DOMAIN visibleRows = DOMAIN displayRows /\ \A r \in DOMAIN displayRows : visibleRows[r] = r
  <1>1. PICK n \in Nat : DOMAIN displayRows = 1..n
    BY DisplayType, SheetAssumption
  <1>2. sort.col = 0 /\ filter.text = 0
    BY DEF Direct, NoSort
  <1> DEFINE matching == {i \in DOMAIN displayRows : filter.text # 0 => displayRows[i][filter.col] = filter.text}
             key(i) == IF sort.col = 0 THEN 0
                       ELSE IF sort.asc THEN displayRows[i][sort.col] ELSE -displayRows[i][sort.col]
             before(i, j) == key(i) < key(j) \/ (key(i) = key(j) /\ i < j)
             earlier(i) == {j \in matching : before(j, i)}
  <1>3. visibleRows = [r \in 1..Cardinality(matching) |-> CHOOSE i \in matching : Cardinality(earlier(i)) = r - 1]
    BY DEF visibleRows, Ordered
  <1>4. matching = 1..n
    BY <1>1, <1>2
  <1>5. \A i, j \in 1..n : before(i, j) <=> i < j
    BY <1>2
  <1> HIDE DEF matching, before
  <1>6. \A i \in matching : Cardinality(earlier(i)) = i - 1
    <2> SUFFICES ASSUME NEW i \in matching  PROVE  Cardinality(earlier(i)) = i - 1
      OBVIOUS
    <2>1. i \in 1..n
      BY <1>4
    <2>2. earlier(i) = 1..(i - 1)
      BY <1>4, <1>5, <2>1
    <2>3. Cardinality(1..(i - 1)) = i - 1
      BY <2>1, FS_Interval
    <2> QED  BY <2>2, <2>3
  <1> HIDE DEF earlier
  <1>7. Cardinality(matching) = n
    BY <1>4, FS_Interval
  <1>8. \A r \in 1..n : (CHOOSE i \in matching : Cardinality(earlier(i)) = r - 1) = r
    <2> SUFFICES ASSUME NEW r \in 1..n  PROVE  (CHOOSE i \in matching : Cardinality(earlier(i)) = r - 1) = r
      OBVIOUS
    <2>1. \A i \in matching : (Cardinality(earlier(i)) = r - 1) <=> i = r
      BY <1>4, <1>6
    <2>2. r \in matching
      BY <1>4
    <2> QED  BY <2>1, <2>2
  <1> QED  BY <1>1, <1>3, <1>7, <1>8

\* The screen has no more rows than there are.
LEMMA VisibleType ==
    ASSUME SheetTypeOK
    PROVE  \E m \in 0..MaxSheetRows : DOMAIN visibleRows = 1..m
  <1>1. PICK n \in 0..MaxSheetRows : DOMAIN displayRows = 1..n
    BY DisplayType
  <1> DEFINE matching == {i \in DOMAIN displayRows : filter.text # 0 => displayRows[i][filter.col] = filter.text}
  <1>2. DOMAIN visibleRows = 1..Cardinality(matching)
    BY DEF visibleRows, Ordered
  <1>3. matching \subseteq 1..n /\ n \in Nat
    BY <1>1, SheetAssumption
  <1> HIDE DEF matching
  <1>4. /\ IsFiniteSet(1..n) /\ Cardinality(1..n) = n
    BY <1>3, FS_Interval
  <1>5. Cardinality(matching) \in Nat /\ Cardinality(matching) <= n
    BY <1>3, <1>4, FS_Subset, FS_CardinalityType
  <1>6. Cardinality(matching) \in 0..MaxSheetRows
    BY <1>1, <1>5, SheetAssumption
  <1> QED  BY <1>2, <1>6

\* A change of the rows is a value again.
LEMMA ChangeType ==
    ASSUME NEW n \in 0..MaxSheetRows, NEW newRows \in [1..n -> SheetRow], emitChange(newRows)
    PROVE  sheet' \in Seq(SheetRow) /\ Len(sheet') <= MaxSheetRows
  <1>1. n \in Nat /\ n <= MaxSheetRows
    BY SheetAssumption
  <1>2. sheet' \in Seq(SheetRow) /\ Len(sheet') <= n
    BY <1>1, TrimmedType DEF emitChange
  <1>3. Len(sheet') \in Nat
    BY <1>2, LenProperties
  <1> QED  BY <1>1, <1>2, <1>3, SheetAssumption

LEMMA RowAdded ==
    ASSUME SheetTypeOK, addRow
    PROVE  sheet' \in Seq(SheetRow) /\ Len(sheet') <= MaxSheetRows
  <1>1. PICK n \in 0..MaxSheetRows : displayRows \in [1..n -> SheetRow]
    BY DisplayType
  <1>2. n \in Nat /\ n <= MaxSheetRows
    BY SheetAssumption
  <1>3. displayRows \in Seq(SheetRow) /\ Len(displayRows) = n
    BY <1>1, <1>2, IsASeq
  <1> DEFINE newRows == Append(displayRows, EmptyRow)
  <1>4. /\ newRows \in Seq(SheetRow) /\ Len(newRows) = n + 1
        /\ newRows[n + 1] = EmptyRow
    BY <1>2, <1>3, EmptyIsRow, AppendType
  <1> HIDE DEF newRows
  <1>5. newRows \in [1..(n + 1) -> SheetRow]
    BY <1>4, LenProperties, ElementOfSeq
  <1>6. PICK m \in Nat : m = n + 1
    BY <1>2
  <1>7. Trimmed(newRows) \in Seq(SheetRow) /\ Len(Trimmed(newRows)) <= n
    BY <1>2, <1>4, <1>5, <1>6, TrimmedType
  <1>8. sheet' = Trimmed(newRows) /\ Len(Trimmed(newRows)) \in Nat
    BY <1>7, LenProperties DEF addRow, emitChange, newRows
  <1> QED  BY <1>2, <1>7, <1>8, SheetAssumption

\* A cell changes.
LEMMA CellPut ==
    ASSUME NEW n, NEW newRows \in [1..n -> SheetRow], NEW r, NEW c, NEW v \in CellValues \cup {0}
    PROVE  /\ [newRows EXCEPT ![r][c] = v] \in [1..n -> SheetRow]
           /\ \A i \in 1..n : i # r => [newRows EXCEPT ![r][c] = v][i] = newRows[i]
  <1>1. \A oneRow \in SheetRow : [oneRow EXCEPT ![c] = v] \in SheetRow
    BY DEF SheetRow
  <1>2. CASE r \in 1..n
    BY <1>1, <1>2
  <1>3. CASE r \notin 1..n
    BY <1>1, <1>3
  <1> QED  BY <1>2, <1>3

LEMMA AreaBounds ==
    ASSUME NEW p \in Cell, NEW q \in Cell
    PROVE  /\ Area(p, q).r0 \in 1..MaxSheetRows + 1 /\ Area(p, q).r1 \in 1..MaxSheetRows + 1
           /\ Area(p, q).c0 \in Cols /\ Area(p, q).c1 \in Cols
           /\ Area(p, q).r0 <= Area(p, q).r1 /\ Area(p, q).c0 <= Area(p, q).c1
           /\ p[1] <= q[1] /\ p[2] <= q[2] =>
                 /\ Area(p, q).r0 = p[1] /\ Area(p, q).r1 = q[1]
                 /\ Area(p, q).c0 = p[2] /\ Area(p, q).c1 = q[2]
  <1>1. p[1] \in 1..MaxSheetRows + 1 /\ q[1] \in 1..MaxSheetRows + 1 /\ p[2] \in Cols /\ q[2] \in Cols
    BY DEF Cell
  <1>2. p[1] \in Int /\ q[1] \in Int /\ p[2] \in Int /\ q[2] \in Int
    BY <1>1, SheetAssumption DEF Cols
  <1>3. /\ Area(p, q).r0 = Min({p[1], q[1]}) /\ Area(p, q).r1 = Max({p[1], q[1]})
        /\ Area(p, q).c0 = Min({p[2], q[2]}) /\ Area(p, q).c1 = Max({p[2], q[2]})
    BY DEF Area
  <1>4. /\ Area(p, q).r0 \in {p[1], q[1]} /\ Area(p, q).r0 <= p[1] /\ Area(p, q).r0 <= q[1]
        /\ Area(p, q).r1 \in {p[1], q[1]} /\ Area(p, q).r1 >= p[1] /\ Area(p, q).r1 >= q[1]
    BY ZenonT(40), <1>2, <1>3, PairBounds
  <1>5. /\ Area(p, q).c0 \in {p[2], q[2]} /\ Area(p, q).c0 <= p[2] /\ Area(p, q).c0 <= q[2]
        /\ Area(p, q).c1 \in {p[2], q[2]} /\ Area(p, q).c1 >= p[2] /\ Area(p, q).c1 >= q[2]
    BY ZenonT(40), <1>2, <1>3, PairBounds
  <1> QED  BY <1>1, <1>2, <1>4, <1>5

LEMMA SheetMeans == SheetInv => MergesDisjoint
  <1> SUFFICES ASSUME SheetInv, NEW m \in mergedCells, NEW n \in mergedCells, m # n,
                      NEW r \in 1..MaxSheetRows + 1, NEW c \in Cols,
                      InArea(r, c, AreaOf(m)), InArea(r, c, AreaOf(n))
               PROVE  FALSE
    BY DEF MergesDisjoint
  <1>1. m \in Cell \X Cell /\ n \in Cell \X Cell
    BY DEF SheetInv, SheetTypeOK
  <1>2. /\ AreaOf(m).r0 \in Int /\ AreaOf(m).r1 \in Int /\ AreaOf(m).c0 \in Int /\ AreaOf(m).c1 \in Int
        /\ AreaOf(n).r0 \in Int /\ AreaOf(n).r1 \in Int /\ AreaOf(n).c0 \in Int /\ AreaOf(n).c1 \in Int
    BY <1>1, AreaBounds, SheetAssumption DEF AreaOf, Cols
  <1>3. ~Overlap(AreaOf(m), AreaOf(n))
    BY DEF SheetInv, MergesInv
  <1>4. r \in Int /\ c \in Int
    BY SheetAssumption DEF Cols
  <1> QED  BY <1>2, <1>3, <1>4 DEF InArea, Overlap

LEMMA SheetStarts == SheetInit => SheetInv
  <1> SUFFICES ASSUME SheetInit  PROVE  SheetInv
    OBVIOUS
  <1>1. PICK r \in SheetRow, s \in SheetRow : sheet = Trimmed(<<r, s>>)
    BY DEF SheetInit
  <1>2. <<r, s>> \in [1..2 -> SheetRow]
    OBVIOUS
  <1>3. PICK n \in 0..MaxSheetRows : n = 2
    BY SheetAssumption
  <1>4. sheet \in Seq(SheetRow) /\ Len(sheet) <= n
    BY <1>1, <1>2, <1>3, TrimmedType, SheetAssumption
  <1>5. Len(sheet) <= MaxSheetRows
    <2>1. Len(sheet) \in Nat
      BY <1>4, LenProperties
    <2> QED  BY <1>3, <1>4, <2>1, SheetAssumption
  <1>6. NoSort \in SheetSort /\ NoFilter \in SheetFilter
    BY DEF NoSort, NoFilter, SheetSort, SheetFilter
  <1>7. /\ sort = NoSort /\ filter = NoFilter /\ mergedCells = {} /\ clipboard = NoCopy
        /\ activeCell = NoSheetCell /\ selAnchor = NoSheetCell /\ selCursor = NoSheetCell
    BY DEF SheetInit
  <1>8. SheetTypeOK
    BY <1>4, <1>5, <1>6, <1>7 DEF SheetTypeOK
  <1>9. MergesInv /\ CopiesWhatIsShown
    BY <1>7 DEF MergesInv, CopiesWhatIsShown, NoCopy
  <1> QED  BY <1>8, <1>9 DEF SheetInv

\* What the marks and the selection stand on are cells of the screen.
LEMMA SelectionCells ==
    ASSUME SheetTypeOK, HasSelection
    PROVE  selAnchor \in Cell /\ selCursor \in Cell
  BY DEF SheetTypeOK, HasSelection

LEMMA SheetRowsStep ==
    ASSUME SheetTypeOK, SheetNext
    PROVE  sheet' \in Seq(SheetRow) /\ Len(sheet') <= MaxSheetRows
  <1>1. PICK n \in 0..MaxSheetRows : displayRows \in [1..n -> SheetRow] /\ DOMAIN displayRows = 1..n
    BY DisplayType
  <1>2. ASSUME sheet' = sheet  PROVE  sheet' \in Seq(SheetRow) /\ Len(sheet') <= MaxSheetRows
    BY <1>2 DEF SheetTypeOK
  <1>3. CASE updateCell
    <2>1. PICK r \in DOMAIN visibleRows, c \in Cols, v \in CellValues \cup {0} :
            emitChange([displayRows EXCEPT ![visibleRows[r]][c] = v])
      BY <1>3 DEF updateCell
    <2>2. [displayRows EXCEPT ![visibleRows[r]][c] = v] \in [1..n -> SheetRow]
      BY <1>1, CellPut
    <2> QED  BY <2>1, <2>2, ChangeType
  <1>4. CASE AddRow
    BY <1>4, RowAdded DEF AddRow
  <1>5. CASE handleSheetKeyDown
    <2>1. addRow \/ sheet' = sheet
      BY <1>5 DEF handleSheetKeyDown
    <2> QED  BY <1>2, <2>1, RowAdded
  <1>6. CASE DeleteSelection
    <2> DEFINE newRows == [r \in DOMAIN displayRows |-> [c \in Cols |->
                          IF InArea(r, c, selection) THEN 0 ELSE displayRows[r][c]]]
    <2>1. emitChange(newRows)
      BY <1>6 DEF DeleteSelection
    <2>2. \A r \in 1..n, c \in Cols : displayRows[r][c] \in CellValues \cup {0}
      BY <1>1 DEF SheetRow
    <2>3. newRows \in [1..n -> SheetRow]
      BY <1>1, <2>2 DEF SheetRow
    <2> HIDE DEF newRows
    <2> QED  BY <2>1, <2>3, ChangeType
  <1>7. CASE handlePaste
    <2> DEFINE r == activeCell[1]
               c == activeCell[2]
               m == Max({Len(displayRows), r + 1})
               newRows == [i \in 1..m |-> IF i \in DOMAIN displayRows THEN displayRows[i] ELSE EmptyRow]
    <2>1. PICK v \in CellValues \cup {0}, w \in CellValues \cup {0} :
             r + 1 <= MaxSheetRows /\ emitChange([newRows EXCEPT ![r][c] = v, ![r + 1][c] = w])
      BY <1>7 DEF handlePaste
    <2>2. activeCell \in Cell
      BY <1>7 DEF handlePaste, SheetTypeOK
    <2>3. r \in 1..MaxSheetRows + 1 /\ r \in Nat
      BY <2>2, SheetAssumption DEF Cell
    <2>4. n \in Nat /\ n <= MaxSheetRows /\ Len(displayRows) = n
      BY <1>1, SheetAssumption, IsASeq
    <2>5. m \in 0..MaxSheetRows
      <3>1. r + 1 \in Int /\ n \in Int
        BY <2>3, <2>4
      <3>2. Max({n, r + 1}) \in {n, r + 1}
        BY <3>1, PairBounds
      <3> QED  BY <2>1, <2>3, <2>4, <3>2, SheetAssumption
    <2> HIDE DEF m
    <2>6. newRows \in [1..m -> SheetRow]
      BY <1>1, EmptyIsRow
    <2> HIDE DEF newRows, r, c
    <2>7. [newRows EXCEPT ![r][c] = v] \in [1..m -> SheetRow]
      BY <2>6, CellPut
    <2>8. [[newRows EXCEPT ![r][c] = v] EXCEPT ![r + 1][c] = w] \in [1..m -> SheetRow]
      BY <2>7, CellPut
    <2> QED  BY <2>1, <2>5, <2>8, ChangeType
  <1>8. CASE handleSheetCellClick \/ DropSelection \/ handleCopy \/ toggleSort \/ SetFilter \/ handleMerge
    BY <1>2, <1>8 DEF handleSheetCellClick, DropSelection, handleCopy, toggleSort, SetFilter, handleMerge
  <1> QED  BY <1>3, <1>4, <1>5, <1>6, <1>7, <1>8 DEF SheetNext

LEMMA MarksStep ==
    ASSUME SheetTypeOK, SheetNext
    PROVE  {activeCell', selAnchor', selCursor'} \subseteq Cell \cup {NoSheetCell}
  <1>0. {activeCell, selAnchor, selCursor} \subseteq Cell \cup {NoSheetCell}
    BY DEF SheetTypeOK
  <1>1. \A r \in DOMAIN visibleRows, c \in Cols : <<r, c>> \in Cell
    <2>1. PICK m \in 0..MaxSheetRows : DOMAIN visibleRows = 1..m
      BY VisibleType
    <2>2. \A r \in 1..m : r \in 1..MaxSheetRows + 1
      BY SheetAssumption
    <2> QED  BY <2>1, <2>2 DEF Cell
  <1>2. CASE updateCell
    BY <1>0, <1>1, <1>2 DEF updateCell
  <1>3. CASE handleSheetCellClick
    BY <1>0, <1>1, <1>3 DEF handleSheetCellClick
  <1>4. CASE handleSheetKeyDown
    <2>1. PICK to \in Cell : activeCell' = <<to[1], to[2]>> /\ selAnchor' = <<to[1], to[2]>>
                              /\ selCursor' = <<to[1], to[2]>>
      BY <1>4 DEF handleSheetKeyDown, MoveTo
    <2>2. <<to[1], to[2]>> \in Cell
      BY DEF Cell
    <2> QED  BY <2>1, <2>2
  <1>5. CASE DropSelection
    BY <1>0, <1>5 DEF DropSelection
  <1>6. CASE handlePaste
    <2>1. activeCell \in Cell /\ activeCell[1] + 1 <= MaxSheetRows
      BY <1>0, <1>6 DEF handlePaste
    <2>2. activeCell' = activeCell /\ selAnchor' = activeCell /\ selCursor' = <<activeCell[1] + 1, activeCell[2]>>
      BY <1>6 DEF handlePaste
    <2>3. activeCell[1] \in 1..MaxSheetRows + 1 /\ activeCell[2] \in Cols
      BY <2>1 DEF Cell
    <2>4. activeCell[1] + 1 \in 1..MaxSheetRows + 1
      BY <2>1, <2>3, SheetAssumption
    <2>5. <<activeCell[1] + 1, activeCell[2]>> \in Cell
      BY <2>3, <2>4 DEF Cell
    <2> QED  BY <2>1, <2>2, <2>5
  <1>7. CASE AddRow \/ DeleteSelection \/ handleCopy \/ toggleSort \/ SetFilter \/ handleMerge
    BY <1>0, <1>7 DEF AddRow, DeleteSelection, handleCopy, toggleSort, SetFilter, handleMerge, sheetMarks
  <1> QED  BY <1>2, <1>3, <1>4, <1>5, <1>6, <1>7 DEF SheetNext

\* Merging drops the areas the new one overlaps.
LEMMA MergesStep ==
    ASSUME SheetTypeOK, MergesInv, SheetNext
    PROVE  mergedCells' \subseteq Cell \X Cell /\ MergesInv'
  <1>1. CASE mergedCells' = mergedCells
    BY <1>1 DEF SheetTypeOK, MergesInv
  <1>2. CASE handleMerge
    <2> DEFINE area == selection
               corners == <<<<area.r0, area.c0>>, <<area.r1, area.c1>>>>
               apart == {m \in mergedCells : ~Overlap(AreaOf(m), area)}
    <2>1. mergedCells' \in {apart, apart \cup {corners}}
      BY <1>2 DEF handleMerge
    <2>2. selAnchor \in Cell /\ selCursor \in Cell
      BY <1>2, SelectionCells DEF handleMerge
    <2>3. /\ area.r0 \in 1..MaxSheetRows + 1 /\ area.r1 \in 1..MaxSheetRows + 1
          /\ area.c0 \in Cols /\ area.c1 \in Cols
          /\ area.r0 <= area.r1 /\ area.c0 <= area.c1
      BY <2>2, AreaBounds DEF selection
    <2> HIDE DEF area
    <2>4. <<area.r0, area.c0>> \in Cell /\ <<area.r1, area.c1>> \in Cell
      BY <2>3 DEF Cell
    <2>5. corners \in Cell \X Cell /\ corners[1][1] <= corners[2][1] /\ corners[1][2] <= corners[2][2]
      BY <2>3, <2>4
    <2>6. /\ AreaOf(corners).r0 = area.r0 /\ AreaOf(corners).r1 = area.r1
          /\ AreaOf(corners).c0 = area.c0 /\ AreaOf(corners).c1 = area.c1
      BY <2>3, <2>4, AreaBounds DEF AreaOf
    <2>7. \A b : /\ Overlap(b, AreaOf(corners)) <=> Overlap(b, area)
                 /\ Overlap(AreaOf(corners), b) <=> Overlap(area, b)
      BY <2>6, Zenon DEF Overlap
    <2>8. \A m \in mergedCells : Overlap(area, AreaOf(m)) => Overlap(AreaOf(m), area)
      BY DEF Overlap
    <2>9. apart \subseteq mergedCells /\ \A m \in apart : ~Overlap(AreaOf(m), area) /\ ~Overlap(area, AreaOf(m))
      BY <2>8
    <2> HIDE DEF corners, apart
    <2>10. mergedCells' \subseteq Cell \X Cell
      BY <2>1, <2>5, <2>9 DEF SheetTypeOK
    <2>11. \A m \in mergedCells' : m[1][1] <= m[2][1] /\ m[1][2] <= m[2][2]
      BY <2>1, <2>5, <2>9 DEF MergesInv
    <2>12. \A m, k \in mergedCells' : m # k => ~Overlap(AreaOf(m), AreaOf(k))
      <3> SUFFICES ASSUME NEW m \in mergedCells', NEW k \in mergedCells', m # k
                   PROVE  ~Overlap(AreaOf(m), AreaOf(k))
        OBVIOUS
      <3>1. CASE m \in apart /\ k \in apart
        BY <2>9, <3>1 DEF MergesInv
      <3>2. CASE m = corners /\ k \in apart
        BY <2>7, <2>9, <3>2, Zenon
      <3>3. CASE k = corners /\ m \in apart
        BY <2>7, <2>9, <3>3, Zenon
      <3> QED  BY <2>1, <3>1, <3>2, <3>3
    <2> QED  BY <2>10, <2>11, <2>12, Zenon DEF MergesInv
  <1> QED  BY <1>1, <1>2 DEF SheetNext, updateCell, AddRow, handleSheetCellClick, handleSheetKeyDown,
                            DropSelection, DeleteSelection, handleCopy, handlePaste, toggleSort, SetFilter

LEMMA ClipboardStep ==
    ASSUME SheetTypeOK, CopiesWhatIsShown, SheetNext
    PROVE  DOMAIN clipboard' = DOMAIN NoCopy /\ CopiesWhatIsShown'
  <1>1. CASE clipboard' = clipboard
    BY <1>1 DEF SheetTypeOK, CopiesWhatIsShown
  <1>2. CASE handleCopy
    <2> DEFINE inside == selection
               taken == [r \in inside.r0..inside.r1 |-> [c \in inside.c0..inside.c1 |->
                            IF r \in DOMAIN displayRows THEN displayRows[r][c] ELSE 0]]
               seen == [r \in inside.r0..inside.r1 |-> [c \in inside.c0..inside.c1 |->
                            IF r \in DOMAIN visibleRows THEN displayRows[visibleRows[r]][c] ELSE 0]]
    <2>1. clipboard' = [copied |-> taken, shown |-> seen, direct |-> Direct]
      BY <1>2 DEF handleCopy
    <2>2. Direct => taken = seen
      <3> SUFFICES ASSUME Direct  PROVE  taken = seen
        OBVIOUS
      <3>1. DOMAIN visibleRows = DOMAIN displayRows /\ \A r \in DOMAIN displayRows : visibleRows[r] = r
        BY DirectShows
      <3> HIDE DEF inside
      <3> QED  BY <3>1, Zenon
    <2> HIDE DEF taken, seen
    <2> QED  BY <2>1, <2>2 DEF NoCopy, CopiesWhatIsShown
  <1> QED  BY <1>1, <1>2 DEF SheetNext, updateCell, AddRow, handleSheetCellClick, handleSheetKeyDown,
                            DropSelection, DeleteSelection, handlePaste, toggleSort, SetFilter, handleMerge

LEMMA OrderStep ==
    ASSUME SheetTypeOK, SheetNext
    PROVE  sort' \in SheetSort /\ filter' \in SheetFilter
  <1>0. sort \in SheetSort /\ filter \in SheetFilter
    BY DEF SheetTypeOK
  <1>1. CASE toggleSort
    <2>1. PICK c \in Cols : sort' = CASE sort.col # c -> [col |-> c, asc |-> TRUE]
                  [] sort.col = c /\ sort.asc -> [col |-> c, asc |-> FALSE]
                  [] OTHER -> NoSort
      BY <1>1 DEF toggleSort
    <2>2. sort' \in {[col |-> c, asc |-> TRUE], [col |-> c, asc |-> FALSE], NoSort}
      BY <2>1
    <2>3. {[col |-> c, asc |-> TRUE], [col |-> c, asc |-> FALSE], NoSort} \subseteq SheetSort
      BY DEF NoSort, SheetSort
    <2> QED  BY <1>0, <1>1, <2>2, <2>3 DEF toggleSort
  <1>2. CASE SetFilter
    BY <1>0, <1>2 DEF SetFilter, SheetFilter, NoFilter
  <1> QED  BY <1>0, <1>1, <1>2 DEF SheetNext, updateCell, AddRow, handleSheetCellClick, handleSheetKeyDown,
                            DropSelection, DeleteSelection, handleCopy, handlePaste, handleMerge

LEMMA SheetStep == SheetInv /\ (SheetNext \/ UNCHANGED sheetVars) => SheetInv'
  <1> SUFFICES ASSUME SheetInv, SheetNext \/ UNCHANGED sheetVars  PROVE  SheetInv'
    OBVIOUS
  <1>1. CASE SheetNext
    BY <1>1, SheetRowsStep, MarksStep, MergesStep, ClipboardStep, OrderStep, Zenon DEF SheetInv, SheetTypeOK
  <1>2. CASE UNCHANGED sheetVars
    BY <1>2 DEF sheetVars, SheetInv, SheetTypeOK, MergesInv, CopiesWhatIsShown
  <1> QED  BY <1>1, <1>2

-----------------------------------------------------------------------------
(* The import of a file: columns go where the dialog says *)

CsvInv == CsvTypeOK /\ MapOfShownColumns /\ FreeColumnsAsMapped

LEMMA CsvStarts == CsvInit => CsvInv
  <1> SUFFICES ASSUME CsvInit  PROVE  CsvInv
    OBVIOUS
  <1>1. NoMap \in Maps /\ \A h \in Headers : NoMap[h] = ""
    BY DEF NoMap, Maps
  <1>2. NoImport \in [file : Files \cup {NoFile}, map : Maps, columns : Maps]
    BY <1>1 DEF NoImport
  <1>3. CsvTypeOK
    BY <1>1, <1>2 DEF CsvInit, CsvTypeOK
  <1>4. MapOfShownColumns
    BY <1>1 DEF CsvInit, MapOfShownColumns
  <1>5. FreeColumnsAsMapped
    BY <1>1 DEF CsvInit, NoImport, FreeColumnsAsMapped
  <1> QED  BY <1>3, <1>4, <1>5 DEF CsvInv

LEMMA CsvStep == CsvInv /\ (CsvNext \/ UNCHANGED csvVars) => CsvInv'
  <1> SUFFICES ASSUME CsvInv, CsvNext \/ UNCHANGED csvVars  PROVE  CsvInv'
    OBVIOUS
  <1>0. CsvTypeOK /\ MapOfShownColumns /\ FreeColumnsAsMapped
    BY DEF CsvInv
  <1>1. CASE UNCHANGED csvVars
    BY <1>0, <1>1 DEF csvVars, CsvInv, CsvTypeOK, MapOfShownColumns, FreeColumnsAsMapped
  <1>2. CASE handleImportCSV
    BY <1>0, <1>2 DEF handleImportCSV, CsvInv, CsvTypeOK, MapOfShownColumns, FreeColumnsAsMapped
  <1>3. CASE FieldsRefetched
    <2>1. readers' \subseteq Files
      BY <1>0, <1>3 DEF FieldsRefetched, CsvTypeOK
    <2> QED  BY <1>0, <1>3, <2>1 DEF FieldsRefetched, CsvInv, CsvTypeOK, MapOfShownColumns, FreeColumnsAsMapped
  <1>4. CASE FileRead
    <2>1. PICK f \in readers : readers' = readers \ {f} /\ csvData' = f /\ columnMap' = autoMap(f)
      BY <1>4 DEF FileRead
    <2>2. f \in Files
      BY <1>0, <2>1 DEF CsvTypeOK
    <2>3. autoMap(f) \in Maps /\ \A h \in Headers : autoMap(f)[h] # "" => h \in HeadersOf[f]
      BY DEF autoMap, Maps, Offered
    <2>4. f # NoFile
      BY <2>2, CsvAssumption
    <2>5. CsvTypeOK'
      BY <1>0, <1>4, <2>1, <2>2, <2>3 DEF FileRead, CsvTypeOK
    <2>6. MapOfShownColumns'
      BY <2>1, <2>3, <2>4 DEF MapOfShownColumns
    <2> QED  BY <1>0, <1>4, <2>5, <2>6 DEF FileRead, CsvInv, FreeColumnsAsMapped
  <1>5. CASE setColumnMap
    <2>1. PICK h \in HeadersOf[csvData], f \in Offered \cup {""} : columnMap' = [columnMap EXCEPT ![h] = f]
      BY <1>5 DEF setColumnMap
    <2>2. columnMap' \in Maps
      BY <1>0, <2>1 DEF CsvTypeOK, Maps, Offered
    <2>3. csvData # NoFile /\ csvData' = csvData
      BY <1>5 DEF setColumnMap
    <2>4. MapOfShownColumns'
      BY <1>0, <2>1, <2>3 DEF MapOfShownColumns, CsvTypeOK, Maps
    <2> QED  BY <1>0, <1>5, <2>2, <2>4 DEF setColumnMap, CsvInv, CsvTypeOK, FreeColumnsAsMapped
  <1>6. CASE ClosePreview
    BY <1>0, <1>6 DEF ClosePreview, CsvInv, CsvTypeOK, MapOfShownColumns, FreeColumnsAsMapped
  <1>7. CASE handleConfirm
    <2>1. csvPreviewFile \in Files
      BY <1>0, <1>7 DEF handleConfirm, CsvTypeOK
    <2>2. imports' \subseteq [file : Files, map : Maps]
      BY <1>0, <1>7, <2>1 DEF handleConfirm, finalMap, CsvTypeOK
    <2> QED  BY <1>0, <1>7, <2>2 DEF handleConfirm, CsvInv, CsvTypeOK, MapOfShownColumns, FreeColumnsAsMapped
  <1>8. CASE ImportCSV
    <2>1. PICK r \in imports :
            /\ imports' = imports \ {r}
            /\ \/ UNCHANGED imported
               \/ imported' = [file |-> r.file, map |-> r.map, columns |-> Mappings(r)]
      BY <1>8 DEF ImportCSV
    <2>2. r.file \in Files /\ r.map \in Maps
      BY <1>0 DEF CsvTypeOK
    <2>3. \A h \in Headers : Column(r, h) \in CsvFields \cup {""}
      BY <2>2, CsvAssumption DEF Column, Maps
    <2>4. Mappings(r) \in Maps
      BY <2>3 DEF Mappings, Maps
    <2>5. imported' \in [file : Files \cup {NoFile}, map : Maps, columns : Maps]
      BY <1>0, <2>1, <2>2, <2>4 DEF CsvTypeOK
    <2>6. CsvTypeOK'
      BY <1>0, <1>8, <2>1, <2>5 DEF ImportCSV, CsvTypeOK
    <2>7. \A h \in Headers : Named[h] = "" /\ Mappings(r)[h] # "" => Mappings(r)[h] = r.map[h]
      BY DEF Mappings, Column
    <2>8. FreeColumnsAsMapped'
      <3>1. CASE imported' = imported
        BY <1>0, <3>1 DEF FreeColumnsAsMapped
      <3>2. CASE imported'.map = r.map /\ imported'.columns = Mappings(r)
        BY <2>7, <3>2, Zenon DEF FreeColumnsAsMapped
      <3>3. [file |-> r.file, map |-> r.map, columns |-> Mappings(r)].map = r.map
        OBVIOUS
      <3>4. [file |-> r.file, map |-> r.map, columns |-> Mappings(r)].columns = Mappings(r)
        OBVIOUS
      <3> QED  BY <2>1, <3>1, <3>2, <3>3, <3>4, Zenon
    <2>9. MapOfShownColumns'
      BY <1>0, <1>8 DEF ImportCSV, MapOfShownColumns
    <2> QED  BY <2>6, <2>8, <2>9 DEF CsvInv
  <1> QED  BY <1>1, <1>2, <1>3, <1>4, <1>5, <1>6, <1>7, <1>8 DEF CsvNext

-----------------------------------------------------------------------------
(* The calendars: bars have their place, and every event is somewhere *)

\* The numbers a finite set's elements get by a strict total order
Earlier(S, before, i) == {j \in S : <<j, i>> \in before}
Orders(before, S) ==
    /\ \A i, j \in S : i # j => <<i, j>> \in before \/ <<j, i>> \in before
    /\ \A i \in S : <<i, i>> \notin before
    /\ \A i, j, k \in S : <<i, j>> \in before /\ <<j, k>> \in before => <<i, k>> \in before

LEMMA EveryNumber ==
    ASSUME NEW S, IsFiniteSet(S), NEW before, Orders(before, S)
    PROVE  /\ Cardinality(S) \in Nat
           /\ \A n \in 0..Cardinality(S) - 1 : \E i \in S : Cardinality(Earlier(S, before, i)) = n
           /\ \A i \in S : Cardinality(Earlier(S, before, i)) \in 0..Cardinality(S) - 1
           /\ \A i, j \in S : Cardinality(Earlier(S, before, i)) = Cardinality(Earlier(S, before, j)) => i = j
           /\ \A i, j \in S : <<i, j>> \in before =>
                Cardinality(Earlier(S, before, i)) < Cardinality(Earlier(S, before, j))
  <1> DEFINE number(i) == Cardinality(Earlier(S, before, i))
             numbers == 0..Cardinality(S) - 1
             f == [i \in S |-> number(i)]
  <1>1. Cardinality(S) \in Nat
    BY FS_CardinalityType
  <1>2. \A i \in S : IsFiniteSet(Earlier(S, before, i)) /\ number(i) \in Nat
    BY FS_Subset, FS_CardinalityType DEF Earlier
  <1>3. ASSUME NEW i \in S, NEW T \in SUBSET S, Earlier(S, before, i) \subseteq T, i \in T
        PROVE  number(i) < Cardinality(T)
    <2>1. IsFiniteSet(T) /\ Cardinality(T) \in Nat
      BY FS_Subset, FS_CardinalityType
    <2>2. Earlier(S, before, i) # T
      BY <1>3 DEF Orders, Earlier
    <2>3. number(i) <= Cardinality(T) /\ (Cardinality(T) = number(i) => T = Earlier(S, before, i))
      BY <1>3, <2>1, FS_Subset
    <2> QED  BY <1>2, <2>1, <2>2, <2>3
  <1>4. \A i, j \in S : <<i, j>> \in before => number(i) < number(j)
    <2> SUFFICES ASSUME NEW i \in S, NEW j \in S, <<i, j>> \in before
                 PROVE  number(i) < number(j)
      OBVIOUS
    <2>1. Earlier(S, before, i) \subseteq Earlier(S, before, j) /\ i \in Earlier(S, before, j)
      BY DEF Orders, Earlier
    <2>2. Earlier(S, before, j) \in SUBSET S
      BY DEF Earlier
    <2> QED  BY <1>3, <2>1, <2>2
  <1>5. \A i, j \in S : number(i) = number(j) => i = j
    <2> SUFFICES ASSUME NEW i \in S, NEW j \in S, number(i) = number(j), i # j
                 PROVE  FALSE
      OBVIOUS
    <2>1. <<i, j>> \in before \/ <<j, i>> \in before
      BY DEF Orders
    <2> QED  BY <1>2, <1>4, <2>1
  <1>6. \A i \in S : number(i) \in numbers
    <2> SUFFICES ASSUME NEW i \in S  PROVE number(i) \in numbers
      OBVIOUS
    <2>1. number(i) < Cardinality(S)
      BY <1>3 DEF Earlier
    <2> QED  BY <1>1, <1>2, <2>1
  <1>7. IsFiniteSet(numbers) /\ Cardinality(numbers) = Cardinality(S)
    <2>1. PICK c \in Nat : c = Cardinality(S)
      BY <1>1
    <2>2. 0 \in Int /\ c - 1 \in Int /\ IsFiniteSet(0..c - 1)
          /\ Cardinality(0..c - 1) = IF 0 > c - 1 THEN 0 ELSE c - 1 - 0 + 1
      BY FS_Interval
    <2>3. Cardinality(0..c - 1) = c
      BY <2>2
    <2> QED  BY <2>1, <2>2, <2>3
  <1> HIDE DEF number, numbers
  <1>8. f \in Injection(S, numbers)
    BY <1>5, <1>6 DEF Injection, IsInjective
  <1>9. f \in Surjection(S, numbers)
    <2> HIDE DEF f
    <2> QED  BY <1>7, <1>8, FS_Injection
  <1>10. \A n \in numbers : \E i \in S : number(i) = n
    BY <1>9 DEF Surjection
  <1> QED  BY <1>1, <1>4, <1>5, <1>6, <1>10 DEF number, numbers

\* The segments of a week in their order
Segment == [of : Events, startCol : Int, endCol : Int]
SegmentOrder(S) == {p \in S \X S : SegmentBefore(p[1], p[2])}

LEMMA SegmentsOrdered ==
    ASSUME NEW S \in SUBSET Segment
    PROVE  /\ Orders(SegmentOrder(S), S)
           /\ \A s, t \in S : <<t, s>> \notin SegmentOrder(S) => s.startCol <= t.startCol
  <1>1. \A s \in S : s.of \in Nat /\ s.startCol \in Int /\ s.endCol \in Int
    BY CalendarAssumption DEF Segment
  <1>2. \A s, t \in S : s.of = t.of /\ s.startCol = t.startCol /\ s.endCol = t.endCol => s = t
    BY DEF Segment
  <1>3. \A s, t \in S : <<s, t>> \in SegmentOrder(S) <=> SegmentBefore(s, t)
    BY DEF SegmentOrder
  <1>4. \A s, t \in S : s # t => SegmentBefore(s, t) \/ SegmentBefore(t, s)
    BY <1>1, <1>2 DEF SegmentBefore
  <1>5. \A s \in S : ~SegmentBefore(s, s)
    BY <1>1 DEF SegmentBefore
  <1>6. \A s, t, u \in S : SegmentBefore(s, t) /\ SegmentBefore(t, u) => SegmentBefore(s, u)
    BY <1>1 DEF SegmentBefore
  <1>7. \A s, t \in S : ~SegmentBefore(t, s) => s.startCol <= t.startCol
    BY <1>1 DEF SegmentBefore
  <1> QED  BY <1>3, <1>4, <1>5, <1>6, <1>7 DEF Orders

LEMMA ListHasAll ==
    ASSUME NEW S \in SUBSET Segment, IsFiniteSet(S), NEW list, list = Ordered(S, SegmentBefore)
    PROVE  /\ list \in Seq(S) /\ Len(list) \in Nat
           /\ \A n \in 1..Len(list) : list[n] \in S
           /\ \A s \in S : \E n \in 1..Len(list) : list[n] = s
           /\ \A n \in 2..Len(list) : list[n - 1].startCol <= list[n].startCol
  <1> DEFINE k == Cardinality(S)
             number(i) == Cardinality(Earlier(S, SegmentOrder(S), i))
             at(n) == CHOOSE i \in S : Cardinality({j \in S : SegmentBefore(j, i)}) = n - 1
  <1>1. /\ k \in Nat
        /\ \A n \in 0..k - 1 : \E i \in S : number(i) = n
        /\ \A i \in S : number(i) \in 0..k - 1
        /\ \A i, j \in S : number(i) = number(j) => i = j
        /\ \A i, j \in S : <<i, j>> \in SegmentOrder(S) => number(i) < number(j)
    BY SegmentsOrdered, EveryNumber
  <1>2. \A i \in S : Cardinality({j \in S : SegmentBefore(j, i)}) = number(i)
    <2>1. \A i \in S : {j \in S : SegmentBefore(j, i)} = Earlier(S, SegmentOrder(S), i)
      BY DEF Earlier, SegmentOrder
    <2> QED  BY <2>1
  <1>3. list = [n \in 1..k |-> at(n)]
    BY DEF Ordered
  <1> HIDE DEF k, number
  <1>4. ASSUME NEW n \in 1..k  PROVE at(n) \in S /\ number(at(n)) = n - 1
    <2>1. n - 1 \in 0..k - 1
      BY <1>1
    <2>2. \E i \in S : Cardinality({j \in S : SegmentBefore(j, i)}) = n - 1
      BY <1>1, <1>2, <2>1
    <2>3. at(n) \in S /\ Cardinality({j \in S : SegmentBefore(j, at(n))}) = n - 1
      BY <2>2, Zenon
    <2> HIDE DEF at
    <2> QED  BY <1>2, <2>3
  <1> HIDE DEF at
  <1>5. DOMAIN list = 1..k /\ \A n \in 1..k : list[n] \in S
    BY <1>3, <1>4
  <1>6. list \in Seq(S) /\ Len(list) = k
    <2>1. list = [n \in 1..k |-> list[n]]
      BY <1>3
    <2>2. list \in Seq(S)
      BY <1>1, <1>5, <2>1, IsASeq
    <2> QED  BY <1>1, <1>5, <2>2, LenProperties
  <1>7. ASSUME NEW s \in S  PROVE \E n \in 1..k : list[n] = s
    <2>1. PICK n \in 1..k : n = number(s) + 1
      BY <1>1
    <2>2. number(at(n)) = number(s)
      BY <1>1, <1>4, <2>1
    <2>3. at(n) = s
      BY <1>1, <1>4, <2>2
    <2> QED  BY <1>3, <2>3
  <1>8. ASSUME NEW n \in 2..k  PROVE list[n - 1].startCol <= list[n].startCol
    <2>1. n \in 1..k /\ n - 1 \in 1..k /\ (n - 1) - 1 < n - 1
      BY <1>1
    <2>2. number(list[n - 1]) < number(list[n])
      <3>1. number(list[n]) = n - 1 /\ number(list[n - 1]) = (n - 1) - 1
        BY <1>3, <1>4, <2>1
      <3> QED  BY <2>1, <3>1
    <2>3. PICK a \in S, b \in S : a = list[n - 1] /\ b = list[n]
      BY <1>5, <2>1
    <2>4. number(a) \in Int /\ number(b) \in Int /\ number(a) < number(b)
      BY <1>1, <2>2, <2>3
    <2>5. <<b, a>> \notin SegmentOrder(S)
      BY <1>1, <2>4
    <2>6. a.startCol <= b.startCol
      BY <2>5, SegmentsOrdered
    <2> QED  BY <2>3, <2>6
  <1> QED  BY <1>1, <1>5, <1>6, <1>7, <1>8

\* A bar goes to a track that is free where it begins.
Bar == [of : Events, startCol : Int, endCol : Int, track : Nat]
Drawn == [ends : Seq(Int), placed : SUBSET Bar]

LEMMA TrackIsFree ==
    ASSUME NEW ends \in Seq(Int), NEW s \in Segment
    PROVE  /\ TrackFor(ends, s) \in 1..Len(ends) + 1 /\ Len(ends) \in Nat
           /\ TrackFor(ends, s) <= Len(ends) => ends[TrackFor(ends, s)] < s.startCol
           /\ \A i \in 1..Len(ends) : i < TrackFor(ends, s) => ends[i] >= s.startCol
  <1> DEFINE free == {t \in DOMAIN ends : ends[t] < s.startCol}
  <1>1. PICK k \in Nat : k = Len(ends) /\ DOMAIN ends = 1..k
    BY LenProperties
  <1>0. s.startCol \in Int /\ \A i \in 1..k : ends[i] \in Int
    BY <1>1, ElementOfSeq DEF Segment
  <1>2. CASE free = {}
    <2>1. TrackFor(ends, s) = k + 1
      BY <1>1, <1>2 DEF TrackFor
    <2>2. \A i \in 1..k : ends[i] >= s.startCol
      BY <1>0, <1>1, <1>2
    <2> QED  BY <1>1, <2>1, <2>2
  <1>3. CASE free # {}
    <2>1. TrackFor(ends, s) = Min(free)
      BY <1>3 DEF TrackFor
    <2>2. free \in SUBSET (0..k)
      BY <1>1
    <2>3. Min(free) \in free /\ \A i \in free : Min(free) <= i
      <3> HIDE DEF free
      <3> QED  BY <1>1, <1>3, <2>2, Extremes
    <2>4. ASSUME NEW i \in 1..k, i < Min(free)  PROVE ends[i] >= s.startCol
      <3>1. i \notin free
        <4> HIDE DEF free
        <4>1. PICK first \in 0..k : first = Min(free)
          BY <2>2, <2>3, Zenon
        <4>2. i < first /\ (i \in free => first <= i) /\ i \in Int
          BY <2>3, <2>4, <4>1
        <4> QED  BY <1>1, <4>1, <4>2
      <3> QED  BY <1>0, <1>1, <3>1
    <2> QED  BY <1>1, <2>1, <2>3, <2>4
  <1> QED  BY <1>2, <1>3

LEMMA PlaceMeans ==
    ASSUME NEW acc \in Drawn, NEW s \in Segment, NEW t, t = TrackFor(acc.ends, s)
    PROVE  /\ Place(acc, s) \in Drawn
           /\ DOMAIN Place(acc, s).ends = DOMAIN acc.ends \cup {t}
           /\ Place(acc, s).ends[t] = s.endCol
           /\ \A i \in DOMAIN acc.ends : i # t => Place(acc, s).ends[i] = acc.ends[i]
           /\ Place(acc, s).placed = acc.placed \cup
                {[of |-> s.of, startCol |-> s.startCol, endCol |-> s.endCol, track |-> t]}
  <1>0. acc.ends \in Seq(Int) /\ acc.placed \in SUBSET Bar
    BY DEF Drawn
  <1>1. PICK k \in Nat : k = Len(acc.ends) /\ DOMAIN acc.ends = 1..k
    BY <1>0, LenProperties
  <1>2. t \in 1..k + 1
    BY <1>0, <1>1, TrackIsFree
  <1> DEFINE ends == [i \in DOMAIN acc.ends \cup {t} |-> IF i = t THEN s.endCol ELSE acc.ends[i]]
             placed == acc.placed \cup {[of |-> s.of, startCol |-> s.startCol, endCol |-> s.endCol, track |-> t]}
  <1>3. Place(acc, s) = [ends |-> ends, placed |-> placed]
    BY DEF Place
  <1>4. \A i \in 1..k : acc.ends[i] \in Int
    BY <1>0, <1>1, ElementOfSeq
  <1>5. s.of \in Events /\ s.startCol \in Int /\ s.endCol \in Int
    BY DEF Segment
  <1>6. ends \in Seq(Int)
    <2>1. PICK m \in Nat : DOMAIN acc.ends \cup {t} = 1..m
      <3>1. CASE t = k + 1
        <4>1. k + 1 \in Nat /\ (1..k) \cup {k + 1} = 1..k + 1
          OBVIOUS
        <4> QED  BY <1>1, <3>1, <4>1
      <3>2. CASE t # k + 1
        <4>1. (1..k) \cup {t} = 1..k
          BY <1>2, <3>2
        <4> QED  BY <1>1, <4>1
      <3> QED  BY <3>1, <3>2
    <2>2. \A i \in 1..m : ends[i] \in Int
      BY <1>1, <1>4, <1>5, <2>1
    <2>3. ends = [i \in 1..m |-> ends[i]]
      BY <2>1
    <2> HIDE DEF ends
    <2> QED  BY <2>2, <2>3, IsASeq
  <1>7. placed \in SUBSET Bar
    <2>1. [of |-> s.of, startCol |-> s.startCol, endCol |-> s.endCol, track |-> t] \in Bar
      BY <1>2, <1>5 DEF Bar
    <2> QED  BY <1>0, <2>1
  <1>8. Place(acc, s) \in Drawn
    <2> HIDE DEF ends, placed
    <2> QED  BY <1>3, <1>6, <1>7 DEF Drawn
  <1>9. Place(acc, s).ends = ends /\ Place(acc, s).placed = placed
    <2> HIDE DEF ends, placed
    <2> QED  BY <1>3
  <1> QED  BY <1>8, <1>9

\* What holds of the bars that have their track
Apart(placed) ==
    \A p, q \in placed :
        p # q /\ p.track = q.track => p.endCol < q.startCol \/ q.endCol < p.startCol

Under(acc) ==
    /\ acc \in Drawn /\ Apart(acc.placed)
    /\ \A p \in acc.placed : p.track \in DOMAIN acc.ends /\ p.endCol <= acc.ends[p.track]

LEMMA PlaceKeeps ==
    ASSUME NEW acc, Under(acc), NEW s \in Segment, s.startCol <= s.endCol
    PROVE  Under(Place(acc, s))
  <1> DEFINE t == TrackFor(acc.ends, s)
             newBar == [of |-> s.of, startCol |-> s.startCol, endCol |-> s.endCol, track |-> t]
             now == Place(acc, s)
  <1>0. acc \in Drawn /\ acc.ends \in Seq(Int) /\ acc.placed \subseteq Bar
    BY DEF Under, Drawn
  <1>1. PICK k \in Nat : k = Len(acc.ends) /\ DOMAIN acc.ends = 1..k
    BY <1>0, LenProperties
  <1>2. t \in 1..k + 1 /\ (t <= k => acc.ends[t] < s.startCol)
    BY <1>0, <1>1, TrackIsFree
  <1>3. /\ now \in Drawn /\ DOMAIN now.ends = (1..k) \cup {t} /\ now.ends[t] = s.endCol
        /\ \A i \in 1..k : i # t => now.ends[i] = acc.ends[i]
        /\ now.placed = acc.placed \cup {newBar}
    BY <1>0, <1>1, PlaceMeans
  <1>4. s.startCol \in Int /\ s.endCol \in Int
    BY DEF Segment
  <1>5. \A i \in 1..k : acc.ends[i] \in Int
    BY <1>0, <1>1, ElementOfSeq
  <1>6. newBar.startCol = s.startCol /\ newBar.endCol = s.endCol /\ newBar.track = t
    OBVIOUS
  <1>7. \A p \in acc.placed : p.startCol \in Int /\ p.endCol \in Int /\ p.track \in 1..k
                              /\ p.endCol <= acc.ends[p.track]
    BY <1>0, <1>1 DEF Under, Bar
  <1> HIDE DEF now, newBar, t
  <1>8. \A p \in acc.placed : p.track = t => p.endCol < s.startCol
    BY <1>2, <1>4, <1>5, <1>7
  <1>9. Apart(now.placed)
    <2> SUFFICES ASSUME NEW p \in now.placed, NEW q \in now.placed, p # q, p.track = q.track
                 PROVE  p.endCol < q.startCol \/ q.endCol < p.startCol
      BY DEF Apart
    <2>1. CASE p \in acc.placed /\ q \in acc.placed
      BY <2>1 DEF Under, Apart
    <2>2. CASE p \in acc.placed /\ q = newBar
      BY <1>6, <1>8, <2>2
    <2>3. CASE p = newBar /\ q \in acc.placed
      BY <1>6, <1>8, <2>3
    <2> QED  BY <1>3, <2>1, <2>2, <2>3
  <1>10. ASSUME NEW p \in now.placed
         PROVE  p.track \in DOMAIN now.ends /\ p.endCol <= now.ends[p.track]
    <2>1. CASE p \in acc.placed /\ p.track # t
      BY <1>3, <1>7, <2>1
    <2>2. CASE p \in acc.placed /\ p.track = t
      BY <1>3, <1>4, <1>7, <1>8, <2>2
    <2>3. CASE p = newBar
      BY <1>3, <1>4, <1>6, <2>3
    <2> QED  BY <1>3, <2>1, <2>2, <2>3
  <1> QED  BY <1>3, <1>9, <1>10 DEF Under, now

\* A track is taken where the bars of the later tracks begin.
Topped(acc) ==
    \A t \in DOMAIN acc.ends : \E b \in acc.placed : b.track = t /\ b.endCol = acc.ends[t]
Stacked(placed) ==
    \A p \in placed : \A t \in 1..p.track - 1 :
        \E b \in placed : b.track = t /\ b.startCol <= p.startCol /\ p.startCol <= b.endCol

LEMMA PlaceStacks ==
    ASSUME NEW acc, Under(acc), Topped(acc), Stacked(acc.placed), NEW s \in Segment,
           \A b \in acc.placed : b.startCol <= s.startCol
    PROVE  /\ Topped(Place(acc, s)) /\ Stacked(Place(acc, s).placed)
           /\ \A b \in Place(acc, s).placed : b.startCol <= s.startCol
  <1> DEFINE t == TrackFor(acc.ends, s)
             newBar == [of |-> s.of, startCol |-> s.startCol, endCol |-> s.endCol, track |-> t]
             now == Place(acc, s)
  <1>0. acc \in Drawn /\ acc.ends \in Seq(Int) /\ acc.placed \subseteq Bar
    BY DEF Under, Drawn
  <1>1. PICK k \in Nat : k = Len(acc.ends) /\ DOMAIN acc.ends = 1..k
    BY <1>0, LenProperties
  <1>2. t \in 1..k + 1 /\ \A i \in 1..k : i < t => acc.ends[i] >= s.startCol
    BY <1>0, <1>1, TrackIsFree
  <1>3. /\ DOMAIN now.ends = (1..k) \cup {t} /\ now.ends[t] = s.endCol
        /\ \A i \in 1..k : i # t => now.ends[i] = acc.ends[i]
        /\ now.placed = acc.placed \cup {newBar}
    BY <1>0, <1>1, PlaceMeans
  <1>4. s.startCol \in Int /\ \A i \in 1..k : acc.ends[i] \in Int
    BY <1>0, <1>1, ElementOfSeq DEF Segment
  <1>5. newBar.startCol = s.startCol /\ newBar.endCol = s.endCol /\ newBar.track = t
    OBVIOUS
  <1> HIDE DEF now, newBar, t
  <1>6. \A b \in now.placed : b.startCol <= s.startCol
    BY <1>3, <1>4, <1>5
  <1>7. Topped(now)
    <2> SUFFICES ASSUME NEW i \in DOMAIN now.ends
                 PROVE  \E b \in now.placed : b.track = i /\ b.endCol = now.ends[i]
      BY DEF Topped
    <2>1. CASE i = t
      BY <1>3, <1>5, <2>1
    <2>2. CASE i # t
      <3>1. i \in DOMAIN acc.ends /\ now.ends[i] = acc.ends[i]
        BY <1>1, <1>3, <2>2
      <3> QED  BY <1>3, <3>1 DEF Topped
    <2> QED  BY <2>1, <2>2
  <1>8. Stacked(now.placed)
    <2> SUFFICES ASSUME NEW p \in now.placed, NEW i \in 1..p.track - 1
                 PROVE  \E b \in now.placed : b.track = i /\ b.startCol <= p.startCol /\ p.startCol <= b.endCol
      BY DEF Stacked
    <2>1. CASE p \in acc.placed
      BY <1>3, <2>1 DEF Stacked
    <2>2. CASE p = newBar
      <3>1. i \in 1..k /\ i < t
        BY <1>2, <1>5, <2>2
      <3>2. PICK b \in acc.placed : b.track = i /\ b.endCol = acc.ends[i]
        BY <1>1, <3>1 DEF Topped
      <3>3. s.startCol <= acc.ends[i]
        BY <1>2, <1>4, <3>1
      <3> QED  BY <1>3, <1>5, <2>2, <3>2, <3>3
    <2> QED  BY <1>3, <2>1, <2>2
  <1> QED  BY <1>6, <1>7, <1>8 DEF now

\* Every segment gets a track, those of one track do not cover each other, and the
\* tracks before a bar's are taken where it begins.
LEMMA TracksAssigned ==
    ASSUME NEW S \in SUBSET Segment, IsFiniteSet(S), \A s \in S : s.startCol <= s.endCol
    PROVE  /\ AssignTracks(S) \subseteq Bar /\ Apart(AssignTracks(S)) /\ Stacked(AssignTracks(S))
           /\ \A s \in S : \E p \in AssignTracks(S) : p.of = s.of
  <1> DEFINE list == Ordered(S, SegmentBefore)
             k == Len(list)
             first == [ends |-> <<>>, placed |-> {}]
             is(f) == f = [n \in 0..k |-> IF n = 0 THEN first ELSE Place(f[n - 1], list[n])]
             assigned == CHOOSE f : is(f)
             step == [p \in (1..k) \X Drawn |-> Place(p[2], list[p[1]])]
  <1>1. AssignTracks(S) = assigned[k].placed
    BY DEF AssignTracks
  <1>2. /\ k \in Nat /\ \A n \in 1..k : list[n] \in S
        /\ \A s \in S : \E n \in 1..k : list[n] = s
        /\ \A n \in 2..k : list[n - 1].startCol <= list[n].startCol
    BY ListHasAll
  <1> HIDE DEF list, k
  <1>3. first \in Drawn /\ first.placed = {} /\ first.ends = <<>>
    <2>1. <<>> \in Seq(Int) /\ {} \in SUBSET Bar
      OBVIOUS
    <2> QED  BY <2>1 DEF Drawn
  <1>4. \A n \in 1..k : list[n] \in Segment /\ list[n].startCol <= list[n].endCol
    BY <1>2
  <1> HIDE DEF first
  <1>5. \E f : is(f)
    <2>1. step \in [(1..k) \X Drawn -> Drawn]
      <3>1. \A n \in 1..k : \A acc \in Drawn : Place(acc, list[n]) \in Drawn
        BY <1>4, PlaceMeans
      <3> QED  BY <3>1
    <2>2. \A n \in 1..k : \A acc \in Drawn : step[<<n, acc>>] = Place(acc, list[n])
      OBVIOUS
    <2> HIDE DEF step
    <2>3. PICK f \in [0..k -> Drawn] : Iteration(f, k, first, step)
      BY <1>2, <1>3, <2>1, Iterates
    <2>4. f[0] = first /\ \A n \in 1..k : f[n] = step[<<n, f[n - 1]>>]
      BY <2>3 DEF Iteration
    <2>5. \A n \in 1..k : f[n - 1] \in Drawn
      BY <1>2
    <2>6. \A n \in 1..k : f[n] = Place(f[n - 1], list[n])
      BY <2>2, <2>4, <2>5
    <2>7. \A n \in 0..k : f[n] = IF n = 0 THEN first ELSE Place(f[n - 1], list[n])
      BY <1>2, <2>4, <2>6
    <2>8. is(f)
      BY <2>3, <2>7
    <2> QED  BY <2>8
  <1>6. is(assigned)
    BY <1>5, Zenon
  <1> HIDE DEF assigned
  <1>7. assigned[0] = first /\ \A n \in 1..k : assigned[n] = Place(assigned[n - 1], list[n])
    <2>1. \A n \in 0..k : assigned[n] = IF n = 0 THEN first ELSE Place(assigned[n - 1], list[n])
      BY <1>6, Zenon
    <2>2. 0 \in 0..k /\ \A n \in 1..k : n \in 0..k /\ n # 0
      BY <1>2
    <2> QED  BY <2>1, <2>2
  <1> DEFINE begun(n) == \A b \in assigned[n].placed : n # 0 /\ b.startCol <= list[n].startCol
             P == {n \in 0..k : /\ Under(assigned[n]) /\ Topped(assigned[n])
                               /\ Stacked(assigned[n].placed) /\ begun(n)
                               /\ \A i \in 1..n : \E p \in assigned[n].placed : p.of = list[i].of}
  <1>8. 0 \in P
    <2>1. Under(assigned[0]) /\ Topped(assigned[0]) /\ Stacked(assigned[0].placed) /\ begun(0)
      BY <1>3, <1>7 DEF Under, Apart, Topped, Stacked
    <2>2. 0 \in 0..k /\ 1..0 = {}
      BY <1>2
    <2> QED  BY <2>1, <2>2
  <1>9. ASSUME NEW n \in 1..k, n - 1 \in P  PROVE n \in P
    <2> DEFINE acc == assigned[n - 1]  s == list[n]
    <2>1. /\ Under(acc) /\ Topped(acc) /\ Stacked(acc.placed) /\ begun(n - 1)
          /\ \A i \in 1..n - 1 : \E p \in acc.placed : p.of = list[i].of
      BY <1>9
    <2>2. s \in Segment /\ s.startCol <= s.endCol /\ assigned[n] = Place(acc, s)
      BY <1>4, <1>7
    <2>3. Under(assigned[n])
      <3> HIDE DEF acc, s
      <3> QED  BY <2>1, <2>2, PlaceKeeps
    <2>8. \A b \in acc.placed : b.startCol <= s.startCol
      <3> SUFFICES ASSUME NEW b \in acc.placed  PROVE b.startCol <= s.startCol
        OBVIOUS
      <3>1. n - 1 # 0 /\ b.startCol <= list[n - 1].startCol
        BY <2>1
      <3>2. n \in 2..k /\ n - 1 \in 1..k
        BY <1>2, <3>1
      <3>3. list[n - 1].startCol <= list[n].startCol
        BY <1>2, <3>2
      <3>4. b.startCol \in Int /\ list[n - 1].startCol \in Int /\ list[n].startCol \in Int
        BY <1>4, <2>1, <3>2 DEF Under, Drawn, Bar, Segment
      <3> QED  BY <3>1, <3>3, <3>4
    <2>9. Topped(assigned[n]) /\ Stacked(assigned[n].placed) /\ begun(n)
      <3>1. /\ Topped(Place(acc, s)) /\ Stacked(Place(acc, s).placed)
            /\ \A b \in Place(acc, s).placed : b.startCol <= s.startCol
        <4> HIDE DEF acc, s
        <4> QED  BY <2>1, <2>2, <2>8, PlaceStacks
      <3>2. n # 0
        BY <1>2
      <3> QED  BY <2>2, <3>1, <3>2
    <2>4. acc.placed \subseteq assigned[n].placed /\ \E p \in assigned[n].placed : p.of = s.of
      <3> HIDE DEF acc, s
      <3>1. PICK t : t = TrackFor(acc.ends, s)
        OBVIOUS
      <3>2. assigned[n].placed = acc.placed \cup
                {[of |-> s.of, startCol |-> s.startCol, endCol |-> s.endCol, track |-> t]}
        BY <2>1, <2>2, <3>1, PlaceMeans DEF Under
      <3>3. PICK newBar : newBar = [of |-> s.of, startCol |-> s.startCol, endCol |-> s.endCol, track |-> t]
        OBVIOUS
      <3>4. newBar.of = s.of
        BY <3>3
      <3> QED  BY <3>2, <3>3, <3>4, Zenon
    <2>5. \A i \in 1..n : i \in 1..n - 1 \/ i = n
      BY <1>2
    <2>6. \A i \in 1..n : \E p \in assigned[n].placed : p.of = list[i].of
      BY <2>1, <2>4, <2>5
    <2>7. n \in 0..k
      BY <1>2
    <2> HIDE DEF begun
    <2> QED  BY <2>3, <2>6, <2>7, <2>9
  <1>10. k \in P
    <2> HIDE DEF P
    <2>1. k \in 0..k
      BY <1>2
    <2> QED  BY <1>2, <1>8, <1>9, <2>1, CountedUp
  <1>11. /\ Under(assigned[k]) /\ Stacked(assigned[k].placed)
         /\ \A i \in 1..k : \E p \in assigned[k].placed : p.of = list[i].of
    BY <1>10
  <1>12. assigned[k].placed \subseteq Bar /\ Apart(assigned[k].placed)
    BY <1>11 DEF Under, Drawn
  <1> QED  BY <1>1, <1>2, <1>11, <1>12

\* The months follow one another, and every day lies in one.
LEMMA MonthBounds ==
    /\ \A m \in Months : /\ MonthStarts[m] \in Nat /\ MonthStarts[m + 1] \in Nat
                         /\ MonthStarts[m] < MonthStarts[m + 1]
    /\ \A m \in Months : MonthDays(m) \subseteq Days
    /\ Days \subseteq Nat /\ Today \in Days
    /\ \A m \in Months : MonthStarts[m] \in MonthDays(m)
  <1>1. PICK k \in Nat : k = Len(MonthStarts) /\ DOMAIN MonthStarts = 1..k
    BY CalendarAssumption, LenProperties
  <1>2. k # 0
    BY <1>1, CalendarAssumption, EmptySeq
  <1>3. \A i \in 1..k : MonthStarts[i] \in Nat
    BY <1>1, CalendarAssumption, ElementOfSeq
  <1>4. \A i \in 1..k - 1 : MonthStarts[i] < MonthStarts[i + 1]
    BY <1>1, CalendarAssumption
  <1>5. Months = 1..k - 1 /\ Days = MonthStarts[1]..MonthStarts[k] - 1
    BY <1>1 DEF Months, Days
  <1>6. \A i \in 0..k - 1 : MonthStarts[1] <= MonthStarts[i + 1]
    <2> DEFINE P == {i \in 0..k - 1 : MonthStarts[1] <= MonthStarts[i + 1]}
    <2>1. 0 \in P
      BY <1>2, <1>3
    <2>2. ASSUME NEW i \in 1..k - 1, i - 1 \in P  PROVE i \in P
      <3>1. MonthStarts[1] <= MonthStarts[i - 1 + 1] /\ i - 1 + 1 = i
        BY <2>2
      <3>2. MonthStarts[1] \in Nat /\ MonthStarts[i] \in Nat /\ MonthStarts[i + 1] \in Nat
        BY <1>2, <1>3
      <3>3. MonthStarts[1] <= MonthStarts[i + 1]
        BY <1>4, <3>1, <3>2
      <3> QED  BY <3>3
    <2>3. k - 1 \in Nat
      BY <1>2
    <2> HIDE DEF P
    <2>4. \A i \in 0..k - 1 : i \in P
      BY <2>1, <2>2, <2>3, CountedUp
    <2> QED  BY <2>4 DEF P
  <1>7. \A i \in 0..k - 1 : MonthStarts[k - i] <= MonthStarts[k]
    <2> DEFINE P == {i \in 0..k - 1 : MonthStarts[k - i] <= MonthStarts[k]}
    <2>1. 0 \in P
      BY <1>2, <1>3
    <2>2. ASSUME NEW i \in 1..k - 1, i - 1 \in P  PROVE i \in P
      <3>1. MonthStarts[k - (i - 1)] <= MonthStarts[k] /\ k - (i - 1) = k - i + 1 /\ k - i \in 1..k - 1
        BY <2>2
      <3>2. MonthStarts[k] \in Nat /\ MonthStarts[k - i] \in Nat /\ MonthStarts[k - i + 1] \in Nat
        BY <1>2, <1>3, <3>1
      <3>3. MonthStarts[k - i] <= MonthStarts[k]
        BY <1>4, <3>1, <3>2
      <3> QED  BY <3>3
    <2>3. k - 1 \in Nat
      BY <1>2
    <2> HIDE DEF P
    <2>4. \A i \in 0..k - 1 : i \in P
      BY <2>1, <2>2, <2>3, CountedUp
    <2> QED  BY <2>4 DEF P
  <1>8. ASSUME NEW m \in Months
        PROVE  /\ MonthStarts[m] \in Nat /\ MonthStarts[m + 1] \in Nat /\ MonthStarts[m] < MonthStarts[m + 1]
               /\ MonthStarts[1] <= MonthStarts[m] /\ MonthStarts[m + 1] <= MonthStarts[k]
    <2>1. m \in 1..k - 1 /\ m \in 1..k /\ m + 1 \in 1..k
      BY <1>5
    <2>2. m - 1 \in 0..k - 1 /\ m - 1 + 1 = m
      BY <2>1
    <2>3. k - (m + 1) \in 0..k - 1 /\ k - (k - (m + 1)) = m + 1
      BY <2>1
    <2>4. MonthStarts[1] <= MonthStarts[m]
      BY <1>6, <2>2
    <2>5. MonthStarts[m + 1] <= MonthStarts[k]
      BY <1>7, <2>3
    <2> QED  BY <1>3, <1>4, <2>1, <2>4, <2>5
  <1>9. MonthStarts[1] \in Nat /\ MonthStarts[k] \in Nat
    BY <1>2, <1>3
  <1>10. ASSUME NEW m \in Months  PROVE MonthDays(m) \subseteq Days
    <2>1. PICK a \in Nat, b \in Nat : a = MonthStarts[m] /\ b = MonthStarts[m + 1]
      BY <1>8
    <2>2. PICK low \in Nat, high \in Nat : low = MonthStarts[1] /\ high = MonthStarts[k]
      BY <1>9
    <2>3. low <= a /\ b <= high
      BY <1>8, <2>1, <2>2
    <2>4. MonthDays(m) = a..b - 1 /\ Days = low..high - 1
      BY <1>5, <2>1, <2>2 DEF MonthDays
    <2> QED  BY <2>3, <2>4
  <1>11. Days \subseteq Nat /\ Today \in Days
    BY <1>5, <1>9, CalendarAssumption DEF Days
  <1>12. \A m \in Months : MonthStarts[m] \in MonthDays(m)
    BY <1>8 DEF MonthDays
  <1> QED  BY <1>8, <1>10, <1>11, <1>12

LEMMA MonthOfDay ==
    ASSUME NEW d \in Days
    PROVE  MonthOf(d) \in Months /\ d \in MonthDays(MonthOf(d))
  <1>1. PICK k \in Nat : k = Len(MonthStarts) /\ DOMAIN MonthStarts = 1..k
    BY CalendarAssumption, LenProperties
  <1>2. k # 0
    BY <1>1, CalendarAssumption, EmptySeq
  <1>3. \A i \in 1..k : MonthStarts[i] \in Nat
    BY <1>1, CalendarAssumption, ElementOfSeq
  <1>4. Months = 1..k - 1 /\ Days = MonthStarts[1]..MonthStarts[k] - 1
    BY <1>1 DEF Months, Days
  <1> DEFINE begun == {i \in 1..k : MonthStarts[i] <= d}
  <1>5. d \in Nat /\ MonthStarts[1] <= d /\ d < MonthStarts[k]
    BY <1>2, <1>3, <1>4, MonthBounds
  <1>6. begun \in SUBSET (0..k) /\ begun # {}
    BY <1>2, <1>5
  <1>7. PICK m \in begun : \A i \in begun : i <= m
    <2> HIDE DEF begun
    <2> QED  BY <1>6, Extremes
  <1>8. m # k
    BY <1>3, <1>5, <1>7
  <1>9. m \in Months /\ m + 1 \in 1..k /\ m + 1 \notin begun
    BY <1>4, <1>7, <1>8
  <1>10. MonthStarts[m] <= d /\ d < MonthStarts[m + 1]
    BY <1>3, <1>5, <1>7, <1>9
  <1>11. MonthOf(d) \in Months /\ MonthStarts[MonthOf(d)] <= d /\ d < MonthStarts[MonthOf(d) + 1]
    BY <1>9, <1>10, Zenon DEF MonthOf
  <1> QED  BY <1>5, <1>11, MonthBounds DEF MonthDays

\* Weeks follow one another.
LEMMA WeekGrows ==
    ASSUME NEW d \in Nat, NEW e \in Nat, d <= e
    PROVE  WeekOf(d) \in Nat /\ WeekOf(e) \in Nat /\ WeekOf(d) <= WeekOf(e)
  <1>1. PICK l \in Nat \ {0} : l = WeekLength
    BY CalendarAssumption
  <1>2. d \div l \in 0..d /\ e \div l \in 0..e
    BY <1>1, QuotientType
  <1>3. PICK p \in Nat, q \in Nat : p = d \div l /\ q = e \div l
    BY <1>2
  <1>4. l * p <= d /\ d < l * p + l /\ l * q <= e /\ e < l * q + l
    BY <1>3
  <1>5. p <= q
    <2> SUFFICES ASSUME q + 1 <= p  PROVE FALSE
      OBVIOUS
    <2>1. PICK r \in Nat : p = q + 1 + r
      <3>1. p - (q + 1) \in Nat
        OBVIOUS
      <3> QED  BY <3>1
    <2>2. l * p = l * q + l + l * r /\ l * r >= 0
      BY <2>1
    <2> QED  BY <1>4, <2>2
  <1> QED  BY <1>1, <1>3, <1>5 DEF WeekOf

LEMMA WeekHasDays ==
    ASSUME NEW m \in Months, NEW w \in WeeksOf(m)
    PROVE  /\ Min(WeekDays(m, w)) \in WeekDays(m, w) /\ Max(WeekDays(m, w)) \in WeekDays(m, w)
           /\ \A d \in WeekDays(m, w) : Min(WeekDays(m, w)) <= d /\ d <= Max(WeekDays(m, w))
           /\ WeekDays(m, w) \subseteq MonthDays(m) /\ MonthDays(m) \subseteq Nat
  <1>1. PICK n \in Nat : n = MonthStarts[m + 1]
    BY MonthBounds
  <1>2. MonthDays(m) \subseteq 0..n /\ MonthDays(m) \subseteq Nat
    <2>1. MonthStarts[m] \in Nat
      BY MonthBounds
    <2> QED  BY <1>1, <2>1 DEF MonthDays
  <1>3. PICK d \in MonthDays(m) : w = WeekOf(d)
    BY DEF WeeksOf
  <1>4. d \in WeekDays(m, w) /\ WeekDays(m, w) \subseteq MonthDays(m)
    BY <1>3 DEF WeekDays
  <1>5. WeekDays(m, w) \in SUBSET (0..n) /\ WeekDays(m, w) # {}
    BY <1>2, <1>4
  <1> QED  BY <1>1, <1>2, <1>4, <1>5, Extremes

\* The calendar's state: what the server sent are events.
CalInv == CalTypeOK /\ \A n \in DOMAIN monthDates : monthDates[n] \in Event

LEMMA EventDays ==
    ASSUME NEW e \in Event
    PROVE  e.from \in Nat /\ e.to \in Nat /\ e.from <= e.to /\ e.from \in Days /\ e.to \in Days
  <1>1. e.from \in Days /\ e.to \in Days /\ e.to - e.from \in Lengths
    BY DEF Event
  <1>2. e.from \in Nat /\ e.to \in Nat
    BY <1>1, MonthBounds
  <1>3. e.to - e.from \in Nat
    BY <1>1, CalendarAssumption
  <1>4. e.from <= e.to
    BY <1>2, <1>3
  <1> QED  BY <1>1, <1>2, <1>4

LEMMA SegmentMeans ==
    ASSUME CalInv, NEW m \in Months, NEW w \in WeeksOf(m), NEW n \in DOMAIN monthDates,
           monthDates[n].from <= Max(WeekDays(m, w)), monthDates[n].to >= Min(WeekDays(m, w))
    PROVE  /\ SegmentOf(n, m, w) \in Segment /\ SegmentOf(n, m, w).of = n
           /\ SegmentOf(n, m, w).startCol <= SegmentOf(n, m, w).endCol
  <1>1. PICK low \in Int, high \in Int : low = Min(WeekDays(m, w)) /\ high = Max(WeekDays(m, w)) /\ low <= high
    BY WeekHasDays
  <1>2. PICK from \in Int, to \in Int : from = monthDates[n].from /\ to = monthDates[n].to /\ from <= to
    BY EventDays DEF CalInv
  <1>3. PICK a \in Int : a = Max({from, low}) /\ a \in {from, low}
    BY PairBounds
  <1>4. PICK b \in Int : b = Min({to, high}) /\ b \in {to, high}
    BY PairBounds
  <1>5. SegmentOf(n, m, w) = [of |-> n, startCol |-> a, endCol |-> b]
    BY <1>1, <1>2, <1>3, <1>4 DEF SegmentOf
  <1>6. a <= b
    BY <1>1, <1>2, <1>3, <1>4
  <1>7. n \in Events
    BY DEF CalInv, CalTypeOK, monthDates
  <1> QED  BY <1>5, <1>6, <1>7 DEF Segment

LEMMA SegmentsType ==
    ASSUME CalInv, NEW m \in Months, NEW w \in WeeksOf(m)
    PROVE  /\ Segments(m, w) \in SUBSET Segment /\ IsFiniteSet(Segments(m, w))
           /\ \A s \in Segments(m, w) : s.startCol <= s.endCol
  <1> DEFINE these == {k \in DOMAIN monthDates : MultiDay(k)
        /\ monthDates[k].from <= Max(WeekDays(m, w)) /\ monthDates[k].to >= Min(WeekDays(m, w))}
             f == [n \in these |-> SegmentOf(n, m, w)]
  <1>1. Segments(m, w) = {SegmentOf(n, m, w) : n \in these}
    BY DEF Segments
  <1>2. \A n \in these : SegmentOf(n, m, w) \in Segment /\ SegmentOf(n, m, w).startCol <= SegmentOf(n, m, w).endCol
    BY SegmentMeans
  <1>3. IsFiniteSet(these)
    <2>1. these \subseteq Events
      BY DEF CalInv, CalTypeOK, monthDates
    <2> QED  BY <2>1, CalendarAssumption, FS_Subset
  <1> HIDE DEF these
  <1>4. IsFiniteSet(Segments(m, w))
    <2>1. f \in Surjection(these, Segments(m, w))
      BY <1>1 DEF Surjection
    <2> HIDE DEF f
    <2> QED  BY <1>3, <2>1, FS_Surjection
  <1> QED  BY <1>1, <1>2, <1>4

\* Every event that lies in a week has a bar there.
LEMMA BarsPlaced ==
    ASSUME CalInv, NEW w \in WeeksOf(shownMonth)
    PROVE  /\ Placed(w) \subseteq Bar /\ Apart(Placed(w)) /\ Stacked(Placed(w))
           /\ \A s \in Segments(shownMonth, w) : \E p \in Placed(w) : p.of = s.of
  <1>1. shownMonth \in Months
    BY MonthOfDay DEF CalInv, CalTypeOK, shownMonth
  <1>2. /\ Segments(shownMonth, w) \in SUBSET Segment /\ IsFiniteSet(Segments(shownMonth, w))
        /\ \A s \in Segments(shownMonth, w) : s.startCol <= s.endCol
    BY <1>1, SegmentsType
  <1> QED  BY <1>2, TracksAssigned DEF Placed

LEMMA BarsApart == CalInv => BarsDisjoint
  <1> SUFFICES ASSUME CalInv, NEW w \in WeeksOf(shownMonth), NEW s \in DrawnSpans(w), NEW t \in DrawnSpans(w),
                      s # t, s.track = t.track
               PROVE  s.endCol < t.startCol \/ t.endCol < s.startCol
    BY DEF BarsDisjoint
  <1>1. s \in Placed(w) /\ t \in Placed(w)
    BY DEF DrawnSpans
  <1> QED  BY <1>1, BarsPlaced DEF Apart

LEMMA CalStarts == CalInit => CalInv
  <1> SUFFICES ASSUME CalInit  PROVE CalInv
    OBVIOUS
  <1>1. calendarData.month = 0 /\ DOMAIN calendarData.of = {}
    BY DEF CalInit, NoCalendar
  <1>2. viewDate \in Days
    BY MonthBounds DEF CalInit
  <1>3. /\ allApps \in BOOLEAN /\ animating = FALSE /\ dates \in [Events -> Event]
        /\ viewMode = "month" /\ direction = 0
    BY DEF CalInit
  <1>4. direction \in -1..1 /\ animating \in BOOLEAN
    <2>1. 0 \in -1..1
      OBVIOUS
    <2> QED  BY <1>3, <2>1, Zenon
  <1> QED  BY <1>1, <1>2, <1>3, <1>4 DEF CalInv, CalTypeOK, monthDates

LEMMA CalStep ==
    ASSUME CalInv, CalNext \/ UNCHANGED calVars
    PROVE  CalInv'
  <1>0. /\ {allApps, animating} \subseteq BOOLEAN /\ dates \in [Events -> Event]
        /\ calendarData.month \in Months \cup {0} /\ DOMAIN monthDates \subseteq Events
        /\ viewDate \in Days /\ viewMode \in {"month", "week", "day"} /\ direction \in -1..1
        /\ \A n \in DOMAIN monthDates : monthDates[n] \in Event
    BY DEF CalInv, CalTypeOK, monthDates
  <1>1. shownMonth \in Months
    BY <1>0, MonthOfDay DEF shownMonth
  <1>2. CASE UNCHANGED calVars
    BY <1>0, <1>2 DEF calVars, CalInv, CalTypeOK, monthDates
  <1>3. CASE AnswerCalendar
    <2>1. PICK S \in Listed(shownMonth) :
            /\ calendarData' = [month |-> shownMonth, of |-> [n \in S |-> dates[n]]]
            /\ UNCHANGED <<allApps, dates, viewDate, viewMode, direction, animating>>
      BY <1>3 DEF AnswerCalendar, Answers
    <2>2. S \subseteq Events
      BY DEF Listed, Selected
    <2>3. /\ calendarData'.month = shownMonth /\ DOMAIN calendarData'.of = S
          /\ \A n \in S : calendarData'.of[n] = dates[n]
      BY <2>1
    <2> QED  BY <1>0, <1>1, <2>1, <2>2, <2>3 DEF CalInv, CalTypeOK, monthDates
  <1>4. CASE navigate
    <2>1. UNCHANGED <<allApps, dates, calendarData, viewMode>>
          /\ \E dir \in {-1, 1} : goMonth(dir) \/ goDays(dir)
      BY <1>4 DEF navigate
    <2>2. viewDate' \in Days /\ direction' \in -1..1 /\ animating' \in BOOLEAN
      <3>1. PICK dir \in {-1, 1} : goMonth(dir) \/ goDays(dir)
        BY <2>1
      <3>2. CASE goMonth(dir)
        <4>1. dir \in -1..1
          OBVIOUS
        <4> QED  BY <1>0, <3>2, <4>1 DEF goMonth
      <3>3. CASE goDays(dir)
        <4>1. viewDate' \in Days /\ direction' = direction /\ animating' = animating
          BY <3>3 DEF goDays
        <4> QED  BY <1>0, <4>1
      <3> QED  BY <3>1, <3>2, <3>3
    <2> QED  BY <1>0, <2>1, <2>2 DEF CalInv, CalTypeOK, monthDates
  <1>5. CASE handleAnimationEnd
    <2>1. \A m \in Months : MonthStarts[m] \in Days
      BY MonthBounds
    <2>2. viewDate' \in Days
      BY <1>0, <1>5, <2>1 DEF handleAnimationEnd
    <2>3. direction' \in -1..1 /\ animating' \in BOOLEAN
      <3>1. direction' = 0 /\ animating' = FALSE
        BY <1>5 DEF handleAnimationEnd
      <3>2. 0 \in -1..1
        OBVIOUS
      <3> QED  BY <3>1, <3>2, Zenon
    <2>4. UNCHANGED <<allApps, dates, calendarData, viewMode>>
      BY <1>5 DEF handleAnimationEnd
    <2> QED  BY <1>0, <2>2, <2>3, <2>4 DEF CalInv, CalTypeOK, monthDates
  <1>6. CASE goToday
    <2>1. viewDate' \in Days
      BY <1>6, MonthBounds DEF goToday
    <2> QED  BY <1>0, <1>6, <2>1 DEF goToday, CalInv, CalTypeOK, monthDates
  <1>7. CASE SetViewMode
    BY <1>0, <1>7 DEF SetViewMode, CalInv, CalTypeOK, monthDates
  <1>8. CASE handleDragEnd
    <2>1. PICK n \in Singles, d \in MonthDays(shownMonth) :
            dates' = [dates EXCEPT ![n] = [from |-> d, to |-> d, timed |-> FALSE]]
      BY <1>8 DEF handleDragEnd
    <2>2. UNCHANGED <<allApps, calendarData, viewDate, viewMode, direction, animating>>
      BY <1>8 DEF handleDragEnd
    <2>3. n \in DOMAIN monthDates /\ monthDates[n].to = monthDates[n].from /\ monthDates[n] \in Event
      BY <1>0, <2>1 DEF Singles, MultiDay
    <2>4. 0 \in Lengths
      <3>1. monthDates[n].to - monthDates[n].from \in Lengths /\ monthDates[n].from \in Nat
        BY <2>3, EventDays DEF Event
      <3> QED  BY <2>3, <3>1
    <2>5a. d \in Days /\ d \in Nat
      BY <1>1, <2>1, MonthBounds
    <2>5. d \in Days /\ d - d = 0
      BY <2>5a
    <2>6. [from |-> d, to |-> d, timed |-> FALSE] \in Event
      BY <2>4, <2>5 DEF Event
    <2>7. dates' \in [Events -> Event]
      BY <1>0, <2>1, <2>6
    <2> QED  BY <1>0, <2>2, <2>7 DEF CalInv, CalTypeOK, monthDates
  <1> QED  BY <1>2, <1>3, <1>4, <1>5, <1>6, <1>7, <1>8 DEF CalNext

\* A bar without a track that is shown lies over one of each that is.
LEMMA LeftOut == CalInv => LeftOutWhereFull
  <1> SUFFICES ASSUME CalInv, NEW w \in WeeksOf(shownMonth), NEW s \in Placed(w) \ DrawnSpans(w),
                      NEW t \in 1..MaxVisibleSpans
               PROVE  \E b \in DrawnSpans(w) : b.track = t /\ b.startCol <= s.startCol /\ s.startCol <= b.endCol
    BY DEF LeftOutWhereFull
  <1>1. Placed(w) \subseteq Bar /\ Stacked(Placed(w))
    BY BarsPlaced
  <1>2. s.track \in Nat /\ MaxVisibleSpans \in Nat /\ ~(s.track <= MaxVisibleSpans)
    BY <1>1, CalendarAssumption DEF DrawnSpans, Bar
  <1>3. t \in 1..s.track - 1
    BY <1>2
  <1>4. PICK b \in Placed(w) : b.track = t /\ b.startCol <= s.startCol /\ s.startCol <= b.endCol
    BY <1>1, <1>3 DEF Stacked
  <1>5. b \in DrawnSpans(w)
    BY <1>2, <1>4 DEF DrawnSpans
  <1> QED  BY <1>4, <1>5

\* What is selected and not answered is beyond the limit.
LEMMA BeyondLimit ==
    ASSUME CalInv, NEW S \in Listed(shownMonth), NEW n \in Selected(shownMonth) \ S
    PROVE  Cardinality(S) = MaxListed[allApps] /\ \A k \in S : dates[k].from <= dates[n].from
  <1> DEFINE all == Selected(shownMonth)
  <1>1. /\ S \in SUBSET all /\ Cardinality(S) = Min({MaxListed[allApps], Cardinality(all)})
        /\ \A k \in S : dates[k].from <= dates[n].from
    BY DEF Listed
  <1>2. IsFiniteSet(all)
    <2>1. all \subseteq Events
      BY DEF Selected
    <2> HIDE DEF all
    <2> QED  BY <2>1, CalendarAssumption, FS_Subset
  <1> HIDE DEF all
  <1>3. Cardinality(S) # Cardinality(all)
    <2>1. n \in all \ S
      BY DEF all
    <2> QED  BY <1>1, <1>2, <2>1, FS_Subset
  <1>4. MaxListed[allApps] \in Int /\ Cardinality(all) \in Int
    <2>1. Cardinality(all) \in Nat
      BY <1>2, FS_CardinalityType
    <2>2. allApps \in BOOLEAN
      BY DEF CalInv, CalTypeOK
    <2> QED  BY <2>1, <2>2, CalendarAssumption
  <1>5. Min({MaxListed[allApps], Cardinality(all)}) \in {MaxListed[allApps], Cardinality(all)}
    BY <1>4, PairBounds
  <1> QED  BY <1>1, <1>3, <1>5

\* What lies in the month is selected, and what is answered of it and lies in a week
\* has a bar or is a card.
LEMMA EventsAccounted == CalInv => GridAccountsForEvents
  <1> SUFFICES ASSUME CalInv, NEW S \in Listed(shownMonth), monthDates = [k \in S |-> dates[k]],
                      NEW n \in Events, NEW m, m = shownMonth,
                      NEW d \in (dates[n].from..dates[n].to) \cap MonthDays(m),
                      ~(dates[n].timed /\ dates[n].from = LastDay(m)),
                      ~(allApps /\ dates[n].from < MonthStarts[m]), n \notin Singles,
                      ~(/\ n \notin DOMAIN monthDates /\ Cardinality(DOMAIN monthDates) = MaxListed[allApps]
                        /\ \A k \in DOMAIN monthDates : dates[k].from <= dates[n].from),
                      NEW w \in WeeksOf(m),
                      NEW day \in (dates[n].from..dates[n].to) \cap WeekDays(m, w)
               PROVE  \E s \in Placed(w) :
                          /\ s.of = n
                          /\ s \in DrawnSpans(w) \cup CountedIn(w)
                             \/ (w + 1) * WeekLength - 1 \notin MonthDays(m)
    BY DEF GridAccountsForEvents, Answers
  <1>0. m \in Months /\ dates[n] \in Event
    BY MonthOfDay DEF CalInv, CalTypeOK, shownMonth
  <1>1. PICK from \in Nat, to \in Nat : from = dates[n].from /\ to = dates[n].to /\ from <= to
    BY <1>0, EventDays
  <1>2. PICK low \in Nat, next \in Nat : low = MonthStarts[m] /\ next = MonthStarts[m + 1]
    BY <1>0, MonthBounds
  <1>3. d \in Int /\ low <= d /\ d <= next - 1 /\ from <= d /\ d <= to
    BY <1>1, <1>2 DEF MonthDays
  <1>4. n \in Selected(m)
    <2>1. from < LastDay(m) \/ from = LastDay(m)
      BY <1>1, <1>2, <1>3 DEF LastDay
    <2>2. BeforeEnd(dates[n], m)
      BY <1>1, <2>1 DEF BeforeEnd
    <2>3. to >= low /\ (allApps => from >= low)
      BY <1>1, <1>2, <1>3
    <2>4. IF allApps THEN dates[n].from >= MonthStarts[m] ELSE dates[n].to >= MonthStarts[m]
      BY <1>1, <1>2, <2>3
    <2> QED  BY <2>2, <2>4 DEF Selected
  <1>5. n \in DOMAIN monthDates /\ monthDates[n] = dates[n]
    <2>1. n \in S
      BY <1>4, BeyondLimit
    <2> QED  BY <2>1
  <1>6. MultiDay(n)
    <2> SUFFICES ASSUME ~MultiDay(n)  PROVE FALSE
      OBVIOUS
    <2>1. from = to
      BY <1>1, <1>5 DEF MultiDay
    <2>2. from = d
      BY <1>1, <1>3, <2>1
    <2> QED  BY <1>1, <1>5, <2>2 DEF Singles
  <1>7. /\ monthDates[n].from <= Max(WeekDays(m, w)) /\ monthDates[n].to >= Min(WeekDays(m, w))
    <2>1. PICK a \in Nat, b \in Nat : a = Min(WeekDays(m, w)) /\ b = Max(WeekDays(m, w)) /\ a <= day /\ day <= b
      BY <1>0, WeekHasDays
    <2>2. from <= day /\ day <= to /\ day \in Int
      BY <1>1
    <2> QED  BY <1>1, <1>5, <2>1, <2>2
  <1>8. SegmentOf(n, m, w) \in Segments(m, w) /\ SegmentOf(n, m, w).of = n
    BY <1>0, <1>5, <1>6, <1>7, SegmentMeans DEF Segments
  <1>9. PICK s \in Placed(w) : s.of = n
    BY <1>8, BarsPlaced
  <1>10. s \in DrawnSpans(w) \cup CountedIn(w) \/ (w + 1) * WeekLength - 1 \notin MonthDays(m)
    BY DEF CountedIn
  <1> QED  BY <1>9, <1>10

\* An event within one week lies in no other.
LEMMA ShownOnce == CalInv => WeekShowsOnce
  <1> SUFFICES ASSUME CalInv, NEW n \in DOMAIN monthDates, NEW m, m = shownMonth,
                      NEW w, w = WeekOf(viewDate),
                      monthDates[n].from \in WeekDays(m, w), WeekOf(monthDates[n].to) = w
               PROVE  Cardinality({b \in WeekBucket : b[1] = n}) = 1
    BY DEF WeekShowsOnce
  <1>0. m \in Months /\ monthDates[n] \in Event
    BY MonthOfDay DEF CalInv, CalTypeOK, shownMonth
  <1>1. PICK from \in Nat, to \in Nat : from = monthDates[n].from /\ to = monthDates[n].to /\ from <= to
    BY <1>0, EventDays
  <1>2. from \in MonthDays(m) /\ WeekOf(from) = w /\ w \in WeeksOf(m)
    BY <1>1 DEF WeekDays, WeeksOf
  <1>3. <<n, w>> \in WeekBucket
    <2>1. CASE MultiDay(n)
      <3>1. PICK a \in Nat, b \in Nat : a = Min(WeekDays(m, w)) /\ b = Max(WeekDays(m, w)) /\ a <= from /\ from <= b
        BY <1>0, <1>1, <1>2, WeekHasDays
      <3>2. monthDates[n].from <= Max(WeekDays(m, w)) /\ monthDates[n].to >= Min(WeekDays(m, w))
        BY <1>1, <3>1
      <3>3. SegmentOf(n, m, w) \in Segments(m, w) /\ SegmentOf(n, m, w).of = n
        BY <1>0, <1>2, <2>1, <3>2, SegmentMeans DEF Segments
      <3> QED  BY <1>1, <1>2, <2>1, <3>3 DEF WeekBucket
    <2>2. CASE ~MultiDay(n)
      BY <1>1, <1>2, <2>2 DEF WeekBucket, Singles
    <2> QED  BY <2>1, <2>2
  <1>4. ASSUME NEW b \in WeekBucket, b[1] = n  PROVE b = <<n, w>>
    <2>1. PICK v \in WeeksOf(m) : b = <<n, v>>
      BY <1>4 DEF WeekBucket
    <2>2. CASE MultiDay(n)
      <3>1. PICK s \in Segments(m, v) : s.of = n
        BY <1>4, <2>1, <2>2 DEF WeekBucket
      <3>2. PICK k \in DOMAIN monthDates :
              /\ s = SegmentOf(k, m, v)
              /\ monthDates[k].from <= Max(WeekDays(m, v)) /\ monthDates[k].to >= Min(WeekDays(m, v))
        BY DEF Segments
      <3>3. k = n
        BY <1>0, <3>1, <3>2, SegmentMeans
      <3>4. PICK low \in Nat, high \in Nat :
              /\ low = Min(WeekDays(m, v)) /\ high = Max(WeekDays(m, v))
              /\ low \in WeekDays(m, v) /\ high \in WeekDays(m, v)
        BY <1>0, WeekHasDays
      <3>5. WeekOf(low) = v /\ WeekOf(high) = v /\ from <= high /\ low <= to
        BY <1>1, <3>2, <3>3, <3>4 DEF WeekDays
      <3>6. WeekOf(from) <= WeekOf(high) /\ WeekOf(low) <= WeekOf(to)
            /\ WeekOf(from) \in Nat /\ WeekOf(to) \in Nat /\ WeekOf(low) \in Nat
        BY <3>5, WeekGrows
      <3>7. v = w
        BY <1>1, <1>2, <3>5, <3>6
      <3> QED  BY <2>1, <3>7
    <2>3. CASE ~MultiDay(n)
      BY <1>1, <1>2, <1>4, <2>1, <2>3 DEF WeekBucket
    <2> QED  BY <2>2, <2>3
  <1>5. {b \in WeekBucket : b[1] = n} = {<<n, w>>}
    BY <1>3, <1>4
  <1> QED  BY <1>5, FS_Singleton

LEMMA CalMeans == CalInv => BarsDisjoint /\ GridAccountsForEvents /\ LeftOutWhereFull /\ WeekShowsOnce
  BY BarsApart, EventsAccounted, LeftOut, ShownOnce
=============================================================================
