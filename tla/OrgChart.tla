------------------------------ MODULE OrgChart ------------------------------
(***************************************************************************)
(* The organization: the chart (components/admin/OrgTree.tsx,               *)
(* pages/OrgChartPage.tsx), the panels and the dialog that edit it           *)
(* (DepartmentPanel, SubsidiaryPanel, UserFormDialog of pages/UsersPage.tsx)  *)
(* and the handlers behind them (backend handler/department.go,              *)
(* subsidiary.go and auth.go).  UpdateDepartment follows the chain of parents  *)
(* with one query per department before it writes, outside a transaction.    *)
(***************************************************************************)
EXTENDS Screen

CONSTANTS
    Depts, Subs, People,
    OldDepts,    \* the departments that exist at first
    MaxPatches   \* bound on department updates under way

None == "none"

ASSUME OrgAssumption ==
    /\ MaxPatches \in Nat /\ IsFiniteSet(Depts) /\ OldDepts \subseteq Depts
    /\ {None, "not yet", "deleted"} \cap Depts = {} /\ None \notin Subs \cup People

VARIABLES
    depts,       \* auth.departments
    subs,        \* auth.subsidiaries
    people,      \* auth.users
    chart,       \* the three lists of the page, each as it was last read
    editing,     \* the department being edited in the panel
    userForm,    \* the open dialog of a user
    patches,     \* department updates the server is working on
    unchecked    \* two of them gave a parent at the same time, or a query of the
                 \* walk failed (observation only)

orgVars == <<depts, subs, people, chart, editing, userForm, patches, unchecked>>
orgTables == <<depts, subs, people>>
orgForms == <<editing, userForm>>

Department == [parent : Depts \cup {None}, sub : Subs \cup {None}]
NotYet == [parent |-> "not yet", sub |-> None]
DeletedDept == [parent |-> "deleted", sub |-> None]
Patch == [id : Depts, parent : Depts \cup {None}, sub : Subs \cup {None},
          at : Depts \cup {None}, visited : SUBSET Depts, mine : BOOLEAN]
Person == [dept : Depts \cup {None}, sub : Subs \cup {None}, active : BOOLEAN]
DeptTable == [Depts -> Department \cup {NotYet, DeletedDept}]
SubTable == [Subs -> {"active", "inactive", "deleted"}]
PersonTable == [People -> Person]
DeptForm == [id : Depts \cup {None}, parent : Depts \cup {None}, sub : Subs \cup {None}]
UserForm == [id : People \cup {None}, dept : Depts \cup {None}, sub : Subs \cup {None}]
NotEditing == [id |-> None, parent |-> None, sub |-> None]
NoUserForm == [id |-> None, dept |-> None, sub |-> None]

In(table) == {d \in Depts : table[d] \notin {NotYet, DeletedDept}}
Existing == {s \in Subs : subs[s] # "deleted"}
KeptOf(list) == {s \in Subs : list[s] # "deleted"}

OrgTypeOK ==
    /\ depts \in DeptTable /\ subs \in SubTable /\ people \in PersonTable
    /\ chart \in [depts : DeptTable, subs : SubTable, people : PersonTable]
    /\ editing \in DeptForm /\ userForm \in UserForm
    /\ patches \in Seq(Patch) /\ unchecked \in BOOLEAN

-----------------------------------------------------------------------------
(* Trees *)

\* The departments below the given ones, themselves included.
Below(table, tops) ==
    LET upTo[n \in 0..Cardinality(Depts)] ==
            IF n = 0 THEN tops
            ELSE upTo[n - 1] \cup {d \in In(table) : table[d].parent \in upTo[n - 1]}
    IN  upTo[Cardinality(Depts)]

Roots(table) == {d \in In(table) : table[d].parent \notin In(table)}
Forest(table) == Below(table, Roots(table)) = In(table)

activeSubs == {s \in Subs : chart.subs[s] = "active"}

\* The headings under which a root department stands.
HeadingsOf(r) ==
    IF chart.depts[r].sub \in activeSubs THEN {chart.depts[r].sub} ELSE {"unassigned"}

\* Where the chart shows a department, and where a user.
DeptPlaces(d) ==
    UNION {HeadingsOf(r) \X {r} : r \in {x \in Roots(chart.depts) : d \in Below(chart.depts, {x})}}
UserPlaces(p) ==
    IF chart.people[p].dept = None THEN {"unassigned"} ELSE {chart.people[p].dept} \cap In(chart.depts)

\* The panel begins at the departments without a parent.
PanelRows == Below(chart.depts, {d \in In(chart.depts) : chart.depts[d].parent = None})

-----------------------------------------------------------------------------
(* The server *)

\* A department update that gives a parent looks at that parent first.
UpdateDepartment(d, parent, sub, mine) ==
    /\ Len(patches) < MaxPatches /\ parent # d
    /\ patches' = Append(patches, [id |-> d, parent |-> parent, sub |-> sub,
                                   at |-> parent, visited |-> {d}, mine |-> mine])
    /\ unchecked' = (unchecked \/ (parent # None /\ \E n \in DOMAIN patches : patches[n].parent # None))

PatchEnds(n) == patches' = RemoveAt(patches, n)

\* One query of detectCircularDepartment.  The walk ends at a department that has
\* been visited or after too many, which refuses the update, and at one that has no
\* parent or no row, or whose query failed, which lets it pass.
TooDeep(visited) == Cardinality(visited) > 100

WalkOn(n, at) == patches' = [patches EXCEPT ![n].visited = @ \cup {patches[n].at}, ![n].at = at]

detectCircularDepartment ==
    \E n \in DOMAIN patches : LET r == patches[n] IN
        /\ r.at # None
        /\ \/ /\ r.at \in r.visited \/ TooDeep(r.visited)
              /\ PatchEnds(n) /\ UNCHANGED unchecked
           \/ /\ r.at \notin r.visited /\ ~TooDeep(r.visited)
              /\ \/ /\ WalkOn(n, IF r.at \in In(depts) THEN depts[r.at].parent ELSE None)
                    /\ UNCHANGED unchecked
                 \/ WalkOn(n, None) /\ unchecked' = TRUE
        /\ UNCHANGED <<acts, orgTables, chart, orgForms>>

\* Foreign keys refuse a parent or a subsidiary that is gone, and a department
\* that is gone is not found.  The form closes, whichever it is by now.
WriteDepartment ==
    \E n \in DOMAIN patches : LET r == patches[n] IN
        /\ r.at = None
        /\ PatchEnds(n)
        /\ IF r.id \in In(depts) /\ r.parent \in In(depts) \cup {None} /\ r.sub \in Existing \cup {None}
           THEN /\ depts' = [depts EXCEPT ![r.id] = [parent |-> r.parent, sub |-> r.sub]]
                /\ editing' = IF r.mine THEN NotEditing ELSE editing
           ELSE UNCHANGED <<depts, editing>>
        /\ UNCHANGED <<acts, subs, people, chart, userForm, unchecked>>

\* parent_id is ON DELETE SET NULL; users.department_id refuses the deletion.
DeleteDepartment(d) ==
    /\ d \in In(depts) /\ \A p \in People : people[p].dept # d
    /\ depts' = [e \in Depts |-> IF e = d THEN DeletedDept
                                 ELSE IF depts[e].parent = d THEN [depts[e] EXCEPT !.parent = None]
                                 ELSE depts[e]]

\* Neither reference to a subsidiary is released.
DeleteSubsidiary(s) ==
    /\ s \in Existing
    /\ \A d \in In(depts) : depts[d].sub # s
    /\ \A p \in People : people[p].sub # s
    /\ subs' = [subs EXCEPT ![s] = "deleted"]

CreateDepartment(parent, sub) ==
    /\ parent \in In(depts) \cup {None} /\ sub \in Existing \cup {None}
    /\ \E d \in Depts :
        /\ depts[d] = NotYet
        /\ depts' = [depts EXCEPT ![d] = [parent |-> parent, sub |-> sub]]

\* What is null in the request stays as it is.
Given(value, stored) == IF value = None THEN stored ELSE value
UpdateUser(p, dept, sub) ==
    /\ dept \in In(depts) \cup {None} /\ sub \in Existing \cup {None}
    /\ people' = [people EXCEPT ![p].dept = Given(dept, @), ![p].sub = Given(sub, @)]

-----------------------------------------------------------------------------
(* The screen *)

\* Departments in trees, all of one subsidiary or of none.
OldTables ==
    {table \in [Depts -> Department \cup {NotYet}] :
        /\ In(table) = OldDepts /\ Forest(table)
        /\ \A d \in OldDepts : table[d].parent \in OldDepts \cup {None}
        /\ Cardinality({table[d].sub : d \in OldDepts}) = 1}

OrgInit ==
    /\ depts \in OldTables
    /\ subs \in [Subs -> {"active", "inactive"}]
    /\ people \in [People -> {[dept |-> d, sub |-> depts[d].sub, active |-> TRUE] : d \in OldDepts}
                             \cup {[dept |-> None, sub |-> None, active |-> TRUE]}]
    /\ chart = [depts |-> depts, subs |-> subs, people |-> people]
    /\ editing = NotEditing /\ userForm = NoUserForm
    /\ patches = <<>> /\ unchecked = FALSE

\* A list arrives: after a mutation of this page or when it is opened again.
ReadList ==
    /\ \/ chart' = [chart EXCEPT !.depts = depts]
       \/ chart' = [chart EXCEPT !.subs = subs]
       \/ chart' = [chart EXCEPT !.people = people]
    /\ chart' # chart
    /\ UNCHANGED <<acts, orgTables, orgForms, patches, unchecked>>

OrgAct == Act("org")
ListedDepts == In(chart.depts) \cup {None}
ListedSubs == KeptOf(chart.subs) \cup {None}

handleCreateDept ==
    /\ OrgAct /\ \E parent \in ListedDepts, sub \in ListedSubs : CreateDepartment(parent, sub)
    /\ UNCHANGED <<subs, people, chart, orgForms, patches, unchecked>>

startEdit ==
    /\ OrgAct
    /\ \E d \in PanelRows : \E parent \in ListedDepts \ {d} :
          editing' = [id |-> d, parent |-> parent, sub |-> chart.depts[d].sub]
    /\ UNCHANGED <<orgTables, chart, userForm, patches, unchecked>>

\* Neither the button nor the Enter key waits for the request before.
handleUpdateDept ==
    /\ OrgAct /\ editing.id \in PanelRows
    /\ UpdateDepartment(editing.id, editing.parent, editing.sub, TRUE)
    /\ UNCHANGED <<orgTables, chart, orgForms>>

handleDeleteDept ==
    /\ OrgAct /\ \E d \in PanelRows : DeleteDepartment(d)
    /\ UNCHANGED <<subs, people, chart, orgForms, patches, unchecked>>

handleDeleteSub ==
    /\ OrgAct /\ \E s \in KeptOf(chart.subs) : DeleteSubsidiary(s)
    /\ UNCHANGED <<depts, people, chart, orgForms, patches, unchecked>>

\* A row of the users' table opens the dialog where no cell takes the click, beside
\* the cells of a long list.  Choosing a subsidiary gives up the department, and leaves those
\* of the subsidiary to choose from.
OpenUser ==
    /\ OrgAct /\ userForm = NoUserForm
    /\ \E p \in People :
          userForm' = [id |-> p, dept |-> chart.people[p].dept, sub |-> chart.people[p].sub]
    /\ UNCHANGED <<orgTables, chart, editing, patches, unchecked>>

Choosable(sub) == {d \in In(chart.depts) : sub = None \/ chart.depts[d].sub = sub}
EditUser ==
    /\ userForm # NoUserForm
    /\ \/ \E s \in ListedSubs : userForm' = [userForm EXCEPT !.sub = s, !.dept = None]
       \/ \E d \in Choosable(userForm.sub) \cup {None} : userForm' = [userForm EXCEPT !.dept = d]
    /\ UNCHANGED <<acts, orgTables, chart, editing, patches, unchecked>>

SaveUser ==
    /\ OrgAct /\ userForm # NoUserForm
    /\ UpdateUser(userForm.id, userForm.dept, userForm.sub)
    /\ userForm' = NoUserForm
    /\ UNCHANGED <<depts, subs, chart, editing, patches, unchecked>>

ToggleActive ==
    /\ OrgAct /\ userForm # NoUserForm
    /\ people' = [people EXCEPT ![userForm.id].active = ~chart.people[userForm.id].active]
    /\ userForm' = NoUserForm
    /\ UNCHANGED <<depts, subs, chart, editing, patches, unchecked>>

CloseForm ==
    /\ \/ editing # NotEditing /\ editing' = NotEditing /\ UNCHANGED userForm
       \/ userForm # NoUserForm /\ userForm' = NoUserForm /\ UNCHANGED editing
    /\ UNCHANGED <<acts, orgTables, chart, patches, unchecked>>

\* Another director works on another screen.
SomebodyPatches ==
    /\ OrgAct
    /\ \E d \in In(depts) : \E parent \in (In(depts) \cup {None}) \ {depts[d].parent} :
          UpdateDepartment(d, parent, depts[d].sub, FALSE)
    /\ UNCHANGED <<orgTables, chart, orgForms>>

OrgNext ==
    \/ ReadList \/ detectCircularDepartment \/ WriteDepartment
    \/ handleCreateDept \/ startEdit \/ handleUpdateDept \/ handleDeleteDept \/ handleDeleteSub
    \/ OpenUser \/ EditUser \/ SaveUser \/ ToggleActive \/ CloseForm \/ SomebodyPatches

-----------------------------------------------------------------------------
(* Properties *)

\* Departments are their own ancestors only if two updates that gave a parent were
\* under way together, so that both walks found the old parents and then both wrote,
\* or if a query of a walk failed: whatever else is created, deleted and updated.
CircularOnlyUnchecked == unchecked \/ Forest(depts)

\* "Circular references are prevented" (docs/FEATURE-LIST.md:37).  Violated: the walk
\* is outside the transaction of the update, and takes a failed query for its end.
NoCircularDepartments == Forest(depts)

\* When the page has read its lists, the tree it draws and the panel hold every
\* department once, the tree under one heading, and the tree every active user.
ListsAreRead == chart = [depts |-> depts, subs |-> subs, people |-> people]
ChartIsComplete ==
    ListsAreRead /\ Forest(depts) =>
        /\ \A d \in In(depts) : Cardinality(DeptPlaces(d)) = 1
        /\ PanelRows = In(depts)
        /\ \A p \in People : people[p].active => Cardinality(UserPlaces(p)) = 1
=============================================================================
