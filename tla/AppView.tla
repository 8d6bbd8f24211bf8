------------------------------- MODULE AppView -------------------------------
(***************************************************************************)
(* The question the records page asks the server                            *)
(* (frontend/src/pages/AppViewPage.tsx with FilterBuilder, FilterChips and   *)
(* SortPanel): a tree of filter conditions, a search box with a debounce     *)
(* timer, two sources of the sort order, a page number and saved views.      *)
(*                                                                          *)
(* Conditions have no identity here, a condition is its place in the tree.   *)
(* The tree is two levels deep, as deep as the builder can make it.          *)
(***************************************************************************)
EXTENDS Screen

CONSTANTS
    Fields,      \* data fields, in the order of the collection
    OpsOf,       \* the operators of each field's type, the default first
    Values,      \* values a user can type or pick
    SearchTexts, \* texts a user can search for
    Views,       \* ids of saved views
    MaxConds     \* bound on the conditions of the tree

NoTimer == "no timer"
NoQuestion == "none"
NoView == "none"

ASSUME ViewAssumption ==
    /\ Fields \in Seq(ToSet(Fields)) /\ Fields # <<>>
    /\ \A f \in ToSet(Fields) : OpsOf[f] \in Seq(ToSet(OpsOf[f])) /\ OpsOf[f] # <<>>
    /\ "" \notin Values \cup SearchTexts /\ NoTimer \notin SearchTexts /\ NoView \notin Views

VARIABLES
    group,        \* filterGroup
    question,     \* the question to the AI under way: the logic it was asked under
    sorts,        \* sortItems, the sort panel
    arrow,        \* sorting, the column headers
    box,          \* searchInputValue
    timer,        \* the text of the pending debounce timer
    text,         \* searchText
    page,         \* page
    saved,        \* the saved views
    active,       \* activeView
    deletingView, \* the view whose deletion is under way
    overtaken     \* the box was cleared under a pending timer (observation only)

viewVars == <<group, question, sorts, arrow, box, timer, text, page, saved, active, deletingView, overtaken>>

FieldSet == ToSet(Fields)
CondOps == UNION {ToSet(OpsOf[f]) : f \in FieldSet}
Cond == [field : FieldSet, op : CondOps, value : Values \cup {""}]
SubGroup == [logic : {"and", "or"}, conds : Seq(Cond)]
FilterTree == [logic : {"and", "or"}, conds : Seq(Cond), subs : Seq(SubGroup)]
SortItem == [field : FieldSet, desc : BOOLEAN]

-----------------------------------------------------------------------------
(* The filter tree *)

emptyFilterGroup == [logic |-> "and", conds |-> <<>>, subs |-> <<>>]

isFilterGroupEmpty(g) == g.conds = <<>> /\ \A s \in ToSet(g.subs) : s.conds = <<>>

flattenFilterGroup(g) == g.conds \o FlattenSeq([n \in DOMAIN g.subs |-> g.subs[n].conds])

\* Mutant: sub-groups of one condition count as empty.
SerializeLargeSubs(g) == [g EXCEPT !.subs = Filter(@, LAMBDA s : Len(s.conds) > 1)]

\* serializeFilterGroup drops the empty sub-groups.
serializeFilterGroup(g) == [g EXCEPT !.subs = Filter(@, LAMBDA s : s.conds # <<>>)]

Sends(c) == c.op = "is_null" \/ c.value # ""

\* Without OR and sub-groups the conditions become query parameters: blank ones
\* are left out, and of two on one field the last one stays.
LastOn(f, conds) ==
    LET places == {n \in DOMAIN conds : conds[n].field = f /\ Sends(conds[n])} IN
    IF places = {} THEN {} ELSE {conds[Max(places)]}

Parameters(g) == UNION {LastOn(f, flattenFilterGroup(g)) : f \in FieldSet}

needsJsonFilter(g) == g.logic = "or" \/ g.subs # <<>>

FiltersOf(g, q) ==
    IF needsJsonFilter(g) /\ ~isFilterGroupEmpty(g)
    THEN [tree |-> serializeFilterGroup(g), params |-> {}, q |-> q]
    ELSE [tree |-> emptyFilterGroup, params |-> Parameters(g), q |-> q]

filters == FiltersOf(group, text)

sortParam == IF sorts # <<>> THEN sorts ELSE arrow

\* The export and the e-mail report send the conditions as parameters whatever
\* the tree is.
buildExportQS == [tree |-> emptyFilterGroup, params |-> Parameters(group), q |-> text]

\* How the server reads one condition: is_null without the operand "true" asks
\* for rows that have a value.
Null == "null"
DataRow == [FieldSet -> Values \cup {Null}]
buildCondClause(r, c) ==
    IF c.op = "is_null" THEN r[c.field] # Null ELSE r[c.field] = c.value

\* A group without conditions restricts nothing.
Joined(logic, parts) ==
    parts = {} \/ IF logic = "or" THEN TRUE \in parts ELSE FALSE \notin parts

buildGroupClause(r, g) ==
    LET clauses(conds) == {buildCondClause(r, c) : c \in ToSet(conds)}
        subs == {s \in ToSet(g.subs) : s.conds # <<>>} IN
    Joined(g.logic, clauses(g.conds) \cup {Joined(s.logic, clauses(s.conds)) : s \in subs})

Selects(request, r) ==
    buildGroupClause(r, request.tree) /\ \A c \in request.params : buildCondClause(r, c)

-----------------------------------------------------------------------------
ViewTypeOK ==
    /\ group \in FilterTree /\ Len(group.subs) <= 1
    /\ question \in {NoQuestion, "and", "or"}
    /\ sorts \in Seq(SortItem)
    /\ arrow \in Seq(SortItem) /\ Len(arrow) <= 1
    /\ {box, text} \subseteq SearchTexts \cup {""}
    /\ timer \in SearchTexts \cup {"", NoTimer}
    /\ page \in {1, 2}
    /\ {active, deletingView} \subseteq Views \cup {NoView}
    /\ \A v \in DOMAIN saved : saved[v].filter \in FilterTree /\ saved[v].sort \in Seq(SortItem)
    /\ overtaken \in BOOLEAN

ViewInit ==
    /\ group = emptyFilterGroup
    /\ question = NoQuestion
    /\ sorts = <<>> /\ arrow = <<>>
    /\ box = "" /\ text = "" /\ timer = NoTimer
    /\ page = 1
    /\ saved = <<>>
    /\ active = NoView /\ deletingView = NoView
    /\ overtaken = FALSE

-----------------------------------------------------------------------------
(* FilterBuilder: every change goes through onFilterGroupChange, which goes   *)
(* back to the first page.                                                    *)

\* Mutant: the page number stays.
ChangeOnThisPage(g) ==
    /\ Act("view")
    /\ group' = g
    /\ UNCHANGED <<question, sorts, arrow, box, timer, text, page, saved, active, deletingView, overtaken>>

onFilterGroupChange(g) ==
    /\ Act("view")
    /\ group' = g
    /\ page' = 1
    /\ UNCHANGED <<question, sorts, arrow, box, timer, text, saved, active, deletingView, overtaken>>

HasRoom == Len(flattenFilterGroup(group)) < MaxConds
NewCond == [field |-> Head(Fields), op |-> Head(OpsOf[Head(Fields)]), value |-> ""]

addCondition == HasRoom /\ onFilterGroupChange([group EXCEPT !.conds = Append(@, NewCond)])

\* The field of a condition changes: its operator stays when the new type has
\* it, its value goes.
WithField(c, f) ==
    [field |-> f,
     op |-> IF f = c.field \/ c.op \in ToSet(OpsOf[f]) THEN c.op ELSE Head(OpsOf[f]),
     value |-> IF f = c.field THEN c.value ELSE ""]

\* ConditionRow and ValueInput: what the user can make of one condition.
Edits(c) ==
    {WithField(c, f) : f \in FieldSet}
        \cup {[c EXCEPT !.op = o] : o \in ToSet(OpsOf[c.field])}
        \cup (IF c.op = "is_null" THEN {} ELSE {[c EXCEPT !.value = v] : v \in Values})

updateCondition ==
    \E n \in DOMAIN group.conds : \E c \in Edits(group.conds[n]) :
        onFilterGroupChange([group EXCEPT !.conds[n] = c])

\* removeCondition of the builder and the cross of a FilterChips badge, which
\* reaches the sub-groups as well.
removeCondFromGroup ==
    \/ \E n \in DOMAIN group.conds :
        onFilterGroupChange([group EXCEPT !.conds = RemoveAt(@, n)])
    \/ \E m \in DOMAIN group.subs : \E n \in DOMAIN group.subs[m].conds :
        onFilterGroupChange([group EXCEPT !.subs[m].conds = RemoveAt(@, n)])

Other(logic) == IF logic = "and" THEN "or" ELSE "and"

\* The button between two root conditions.
toggleLogic == Len(group.conds) > 1 /\ onFilterGroupChange([group EXCEPT !.logic = Other(@)])

addSubGroup ==
    /\ Len(group.subs) < 1
    /\ onFilterGroupChange([group EXCEPT !.subs =
            Append(@, [logic |-> Other(group.logic), conds |-> <<>>])])

toggleSubGroup ==
    \E m \in DOMAIN group.subs : onFilterGroupChange([group EXCEPT !.subs[m].logic = Other(@)])

\* SubGroupBuilder edits the conditions of a sub-group.
updateSubGroup ==
    \E m \in DOMAIN group.subs :
        \/ HasRoom /\ onFilterGroupChange([group EXCEPT !.subs[m].conds = Append(@, NewCond)])
        \/ \E n \in DOMAIN group.subs[m].conds : \E c \in Edits(group.subs[m].conds[n]) :
            onFilterGroupChange([group EXCEPT !.subs[m].conds[n] = c])

removeSubGroup ==
    \E m \in DOMAIN group.subs : onFilterGroupChange([group EXCEPT !.subs = RemoveAt(@, m)])

\* The question is asked with the tree of that moment in its callback.
handleAIFilter ==
    /\ Act("view")
    /\ question = NoQuestion
    /\ question' = group.logic
    /\ UNCHANGED <<group, sorts, arrow, box, timer, text, page, saved, active, deletingView, overtaken>>

\* The answer replaces conditions and sub-groups and brings back the logic the
\* tree had; a failed request, or a popover closed meanwhile, drops it.
ReceiveFilter ==
    /\ question # NoQuestion
    /\ question' = NoQuestion
    /\ \/ UNCHANGED <<group, page>>
       \/ \E f \in FieldSet, v \in Values :
            /\ group' = [logic |-> question, subs |-> <<>>,
                         conds |-> <<[field |-> f, op |-> Head(OpsOf[f]), value |-> v]>>]
            /\ page' = 1
    /\ UNCHANGED <<acts, sorts, arrow, box, timer, text, saved, active, deletingView, overtaken>>

clearFilters == ~isFilterGroupEmpty(group) /\ onFilterGroupChange(emptyFilterGroup)

-----------------------------------------------------------------------------
(* Sorting *)

SetSorts(s) ==
    /\ Act("view")
    /\ sorts' = s
    /\ UNCHANGED <<group, question, box, timer, text, saved, active, deletingView, overtaken>>

handleSortPanelChange(s) ==
    /\ SetSorts(s)
    /\ arrow' = IF s # <<>> THEN <<>> ELSE arrow
    /\ page' = 1

\* The first field that is not used yet.
addSort ==
    LET unused == Filter(Fields, LAMBDA f : \A s \in ToSet(sorts) : s.field # f) IN
    /\ unused # <<>>
    /\ handleSortPanelChange(Append(sorts, [field |-> Head(unused), desc |-> FALSE]))

updateSort ==
    \E n \in DOMAIN sorts :
        \/ \E f \in FieldSet : handleSortPanelChange([sorts EXCEPT ![n].field = f])
        \/ handleSortPanelChange([sorts EXCEPT ![n].desc = ~@])

removeSort == \E n \in DOMAIN sorts : handleSortPanelChange(RemoveAt(sorts, n))

\* The badge of a sort item and "clear all" of the popover leave the headers'
\* order and the page as they are.
DropSort ==
    /\ sorts # <<>>
    /\ SetSorts(<<>>) \/ \E n \in DOMAIN sorts : SetSorts(RemoveAt(sorts, n))
    /\ UNCHANGED <<arrow, page>>

\* A click on a header: ascending, descending, unsorted.
handleHeaderSortChange(next) ==
    /\ Act("view")
    /\ arrow' = next
    /\ sorts' = IF next # <<>> THEN <<>> ELSE sorts
    /\ UNCHANGED <<group, question, box, timer, text, page, saved, active, deletingView, overtaken>>

ToggleHeader ==
    \E f \in FieldSet :
        handleHeaderSortChange(
            CASE arrow = <<[field |-> f, desc |-> FALSE]>> -> <<[field |-> f, desc |-> TRUE]>>
              [] arrow = <<[field |-> f, desc |-> TRUE]>> -> <<>>
              [] OTHER -> <<[field |-> f, desc |-> FALSE]>>)

-----------------------------------------------------------------------------
(* Search, pages and resets *)

handleSearchInput ==
    \E q \in SearchTexts \cup {""} :
        /\ Act("view")
        /\ box' = q
        /\ timer' = q
        /\ overtaken' = FALSE
        /\ UNCHANGED <<group, question, sorts, arrow, text, page, saved, active, deletingView>>

\* 300 ms later.
SearchTimer ==
    /\ timer # NoTimer
    /\ text' = timer
    /\ timer' = NoTimer
    /\ page' = 1
    /\ UNCHANGED <<acts, group, question, sorts, arrow, box, saved, active, deletingView, overtaken>>

\* The cross in the box: the pending timer goes on.
clearSearch ==
    /\ Act("view")
    /\ box # ""
    /\ box' = "" /\ text' = "" /\ page' = 1
    /\ overtaken' = (timer # NoTimer)
    /\ UNCHANGED <<group, question, sorts, arrow, timer, saved, active, deletingView>>

\* The button of an empty result; the page stays.
resetFilters ==
    /\ Act("view")
    /\ text # "" \/ ~isFilterGroupEmpty(group)
    /\ text' = "" /\ box' = "" /\ group' = emptyFilterGroup
    /\ overtaken' = (timer # NoTimer)
    /\ UNCHANGED <<question, sorts, arrow, timer, page, saved, active, deletingView>>

clearAllChips ==
    /\ Act("view")
    /\ Len(flattenFilterGroup(group)) + Len(sorts) > 1
    /\ group' = emptyFilterGroup /\ sorts' = <<>> /\ page' = 1
    /\ UNCHANGED <<question, arrow, box, timer, text, saved, active, deletingView, overtaken>>

\* The pagination footer (two pages stand for many).
GoToPage ==
    /\ Act("view")
    /\ page' \in {1, 2}
    /\ UNCHANGED <<group, question, sorts, arrow, box, timer, text, saved, active, deletingView,
                   overtaken>>

-----------------------------------------------------------------------------
(* Saved views *)

SameKey(c, d) == c.field = d.field /\ c.op = d.op

\* A flat tree is saved as a map from field and operator to value: the key keeps
\* its first place and gets its last value.
FlatConfig(conds) ==
    LET firsts == Filter([n \in DOMAIN conds |-> n],
                            LAMBDA n : \A m \in 1..(n - 1) : ~SameKey(conds[m], conds[n]))
        last(n) == Max({m \in DOMAIN conds : SameKey(conds[m], conds[n])})
    IN [k \in DOMAIN firsts |-> conds[last(firsts[k])]]

SavedFilter(g) ==
    IF isFilterGroupEmpty(g) THEN emptyFilterGroup
    ELSE IF needsJsonFilter(g) THEN g
    ELSE [g EXCEPT !.conds = FlatConfig(@)]

\* With what was asked for when it was saved (observation only).
SavedView == [filter |-> SavedFilter(group), sort |-> sorts,
              seen |-> filters, seenSort |-> sortParam, flat |-> flattenFilterGroup(group)]

\* The order of the sort panel is saved, that of the headers is not.
handleSaveView(v) ==
    /\ Act("view")
    /\ ~isFilterGroupEmpty(group) \/ sorts # <<>>
    /\ v \notin DOMAIN saved
    /\ saved' = [w \in DOMAIN saved \cup {v} |-> IF w = v THEN SavedView ELSE saved[w]]
    /\ UNCHANGED <<group, question, sorts, arrow, box, timer, text, page, active, deletingView,
                   overtaken>>

\* A click on a view that is not active; the headers' order stays.
applyView(v) ==
    /\ Act("view")
    /\ v \in DOMAIN saved /\ active # v
    /\ active' = v
    /\ group' = saved[v].filter
    /\ sorts' = saved[v].sort
    /\ page' = 1
    /\ UNCHANGED <<question, arrow, box, timer, text, saved, deletingView, overtaken>>

clearView ==
    /\ active' = NoView
    /\ group' = emptyFilterGroup
    /\ sorts' = <<>>
    /\ page' = 1
    /\ UNCHANGED <<question, arrow, box, timer, text, overtaken>>

\* A click on the active view.
LeaveView == active # NoView /\ Act("view") /\ clearView /\ UNCHANGED <<saved, deletingView>>

\* The cross of the active view asks the server to delete it.
deleteSavedView ==
    /\ Act("view")
    /\ active # NoView /\ deletingView = NoView
    /\ deletingView' = active
    /\ UNCHANGED <<group, question, sorts, arrow, box, timer, text, page, saved, active, overtaken>>

\* When it is deleted the view is cleared, whichever is active by then.
ViewDeleted ==
    /\ deletingView # NoView
    /\ deletingView' = NoView
    /\ \/ /\ saved' = [v \in DOMAIN saved \ {deletingView} |-> saved[v]]
          /\ clearView
       \/ UNCHANGED <<group, question, sorts, arrow, box, timer, text, page, saved, active, overtaken>>
    /\ UNCHANGED acts

ViewNext ==
    \/ addCondition \/ updateCondition \/ removeCondFromGroup \/ toggleLogic
    \/ addSubGroup \/ toggleSubGroup \/ updateSubGroup \/ removeSubGroup
    \/ handleAIFilter \/ ReceiveFilter \/ clearFilters
    \/ addSort \/ updateSort \/ removeSort \/ DropSort \/ ToggleHeader
    \/ handleSearchInput \/ SearchTimer \/ clearSearch \/ resetFilters \/ clearAllChips \/ GoToPage
    \/ \E v \in Views : handleSaveView(v) \/ applyView(v)
    \/ LeaveView \/ deleteSavedView \/ ViewDeleted

-----------------------------------------------------------------------------
Distinct(conds) ==
    \A m, n \in DOMAIN conds : m # n => conds[m].field # conds[n].field

FilledIn(conds) == \A c \in ToSet(conds) : Sends(c)

\* The rows the server is asked for are those the tree of conditions the user
\* sees describes, through both encodings of it.  Not covered: conditions that
\* are not filled in, and two AND conditions on one field, of which the page
\* sends the last.
RequestMeansTree ==
    LET conds == flattenFilterGroup(group)
        flat == group.logic = "and" /\ group.subs = <<>> IN
    FilledIn(conds) /\ (flat => Distinct(conds)) =>
        \A r \in DataRow : Selects(filters, r) <=> buildGroupClause(r, group)

\* A question that selects other rows is asked from its first page, whichever
\* control changed it; only lifting every restriction may keep the page.
FirstPageOfNewRows ==
    [][filters' # filters /\ (~isFilterGroupEmpty(group') \/ text' # "") => page' = 1]_viewVars

\* Once the debounce timer has run the server searches for the text in the box,
\* unless the box was cleared while the timer was pending.
SearchApplied == timer = NoTimer /\ ~overtaken => text = box

\* Header and panel do not both hold an order, except after a saved view was
\* applied, which leaves the headers' order.
OneSortSource == sorts # <<>> /\ arrow # <<>> => active # NoView

\* Two requests ask for the same rows, the search apart.
SameConditions(a, b) == a.tree = b.tree /\ a.params = b.params

\* Applying a saved view asks for the rows, and the order of the sort panel, that
\* were asked for when it was saved.  Not covered: flat trees with two conditions
\* on one field, whose map of field and operator loses their order.
ViewRestored ==
    [][active' \notin {active, NoView} =>
        LET v == saved[active'] IN
        /\ Distinct(v.flat) \/ needsJsonFilter(v.filter) =>
            SameConditions(filters', v.seen)
        /\ v.sort # <<>> => sortParam' = v.seenSort]_viewVars

\* The search is applied in the end.
SearchCatchesUp == <>[](text = box \/ overtaken)
=============================================================================
