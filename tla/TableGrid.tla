------------------------------ MODULE TableGrid ------------------------------
(***************************************************************************)
(* The records table (frontend/src/components/common/DataTable.tsx) as a     *)
(* spreadsheet: columns that are hidden, pinned and dragged, the active cell *)
(* and the selected range (hooks/useGridNavigation.ts), copying             *)
(* (lib/clipboard.ts), the visibility of columns that views and the local    *)
(* storage remember (AppViewPage.tsx), and the pagination footer.            *)
(*                                                                          *)
(* Rows and columns are counted from 0, as the code does.                    *)
(***************************************************************************)
EXTENDS Screen

CONSTANTS
    Columns,   \* ids of the columns, in the order of their definition
    SkipCols,  \* action columns, skipped by the keyboard
    MaxRows,   \* bound on the rows of a page
    PageSizes, \* PAGE_SIZE_OPTIONS
    MaxTotal   \* bound on the number of records

ASSUME GridAssumption ==
    /\ Columns \in Seq(ToSet(Columns)) /\ IsInjective(Columns) /\ Columns # <<>>
    /\ SkipCols \subseteq ToSet(Columns)
    /\ MaxRows \in Nat /\ MaxTotal \in Nat \ {0}
    /\ PageSizes # {} /\ PageSizes \subseteq Nat \ {0}

VARIABLES
    rows,        \* number of rows of the page
    shown,       \* columns that are visible
    left, right, \* pinned columns
    order,       \* columnOrder: the columns that were visible at the last drag
    cell,        \* activeCell
    anchor,      \* anchorRef
    range,       \* selection
    initial,     \* initialColumnVisibility, remembered when the page was opened
    current,     \* currentVisibilityRef and its copy in the local storage
    remounted,   \* a view remounted the table (observation only)
    pageNo, limit, total

gridVars == <<rows, shown, left, right, order, cell, anchor, range,
              initial, current, remounted, pageNo, limit, total>>
columnVars == <<shown, left, right, order, initial, current, remounted>>
cellVars == <<cell, anchor, range>>
pageVars == <<pageNo, limit, total>>

ColumnSet == ToSet(Columns)
NoCell == [row |-> -1, col |-> -1]
GridCell == [row : 0..MaxRows, col : 0..Len(Columns)]
Pins == {s \in Seq(ColumnSet) : IsInjective(s)}
NoRange == [from |-> NoCell, to |-> NoCell]
At(r, c) == [row |-> r, col |-> c]

-----------------------------------------------------------------------------
(* @tanstack/react-table *)

\* getVisibleFlatColumns: the order of definition, whatever is pinned or dragged.
FlatColumns == Filter(Columns, LAMBDA c : c \in shown)

\* The cells of a row: pinned left, the rest in columnOrder, pinned right.
DisplayedColumns ==
    LET rest(seq, in) == Filter(seq, LAMBDA c : c \in in)
        free == shown \ (ToSet(left) \cup ToSet(right))
    IN rest(left, shown)
        \o rest(order, free) \o rest(Columns, free \ ToSet(order))
        \o rest(right, shown)

colCount == Len(FlatColumns)
totalPages == IF total = 0 THEN 0 ELSE ((total - 1) \div limit) + 1

GridTypeOK ==
    /\ rows \in 0..MaxRows
    /\ shown \subseteq ColumnSet /\ initial \subseteq ColumnSet /\ current \subseteq ColumnSet
    /\ {left, right, order} \subseteq Pins
    /\ range = [from |-> range.from, to |-> range.to]
    /\ {cell, anchor, range.from, range.to} \subseteq GridCell \cup {NoCell}
    /\ remounted \in BOOLEAN
    /\ pageNo \in 1..MaxTotal /\ limit \in PageSizes /\ total \in 0..MaxTotal

GridInit ==
    /\ rows = MaxRows
    /\ shown = ColumnSet /\ initial = ColumnSet /\ current = ColumnSet
    /\ left = <<>> /\ right = <<>> /\ order = <<>>
    /\ cell = NoCell /\ anchor = NoCell /\ range = NoRange
    /\ remounted = FALSE
    /\ pageNo = 1 /\ limit = Min(PageSizes) /\ total = MaxTotal

-----------------------------------------------------------------------------
(* useGridNavigation *)

Clamp(n, size) == Max({0, Min({n, size - 1})})

\* Skips action columns and stops at the edge, on such a column if it is there.
nextCol(c, dir) ==
    LET skip == {n \in 0..(colCount - 1) : FlatColumns[n + 1] \in SkipCols}
        free == {n \in 0..(colCount - 1) \ skip : IF dir = 1 THEN n > c ELSE n < c}
    IN IF free = {} THEN Clamp(IF dir = 1 THEN colCount ELSE -1, colCount)
       ELSE IF dir = 1 THEN Min(free) ELSE Max(free)

\* Mutant: the range begins at the cell the key was pressed in.
moveFromCell(r, c, extend) ==
    LET to == At(Clamp(r, rows), Clamp(c, colCount)) IN
    /\ cell' = to
    /\ IF extend THEN range' = [from |-> cell, to |-> to] /\ UNCHANGED anchor
       ELSE range' = NoRange /\ anchor' = to

moveTo(r, c, extend) ==
    LET to == At(Clamp(r, rows), Clamp(c, colCount)) IN
    /\ cell' = to
    /\ IF extend
       THEN /\ range' = [from |-> IF anchor = NoCell THEN to ELSE anchor, to |-> to]
            /\ UNCHANGED anchor
       ELSE range' = NoRange /\ anchor' = to

Move(r, c, extend) ==
    /\ Act("grid")
    /\ cell # NoCell
    /\ moveTo(r, c, extend)
    /\ UNCHANGED <<rows, columnVars, pageVars>>

\* Arrows, Home and End extend the range under Shift; Tab and Enter do not.
handleKeyDown ==
    LET r == cell.row
        c == cell.col IN
    \/ \E shift \in BOOLEAN :
        \/ \E d \in {-1, 1} : Move(r + d, c, shift) \/ Move(r, nextCol(c, d), shift)
        \/ Move(r, 0, shift) \/ Move(r, colCount - 1, shift)
    \/ \E d \in {-1, 1} : Move(r, nextCol(c, d), FALSE) \/ Move(r + d, c, FALSE)

Escape ==
    /\ Act("grid")
    /\ cell # NoCell
    /\ cell' = NoCell /\ range' = NoRange
    /\ UNCHANGED <<rows, columnVars, pageVars, anchor>>

handleCellClick ==
    /\ Act("grid")
    /\ \E r \in 0..(rows - 1), c \in 0..(colCount - 1), shift \in BOOLEAN :
        /\ cell' = At(r, c)
        /\ IF shift /\ cell # NoCell
           THEN /\ range' = [from |-> IF anchor = NoCell THEN cell ELSE anchor, to |-> At(r, c)]
                /\ UNCHANGED anchor
           ELSE range' = NoRange /\ anchor' = At(r, c)
    /\ UNCHANGED <<rows, columnVars, pageVars>>

\* Ctrl+A leaves the active cell where it is.
onSelectAll ==
    /\ Act("grid")
    /\ rows > 0 /\ colCount > 0
    /\ range' = [from |-> At(0, 0), to |-> At(rows - 1, colCount - 1)]
    /\ UNCHANGED <<rows, columnVars, pageVars, cell, anchor>>

isCellInRange(r, c, rg) ==
    /\ rg # NoRange
    /\ Min({rg.from.row, rg.to.row}) <= r /\ r <= Max({rg.from.row, rg.to.row})
    /\ Min({rg.from.col, rg.to.col}) <= c /\ c <= Max({rg.from.col, rg.to.col})

\* Ctrl+C: the range or else the active cell, cut to the rows and columns there are.
CopyRange == IF range # NoRange THEN range ELSE [from |-> cell, to |-> cell]

CopiedCells(columns) ==
    {<<rc[1], columns[rc[2] + 1]>> :
        rc \in {x \in (0..(rows - 1)) \X (0..(colCount - 1)) : isCellInRange(x[1], x[2], CopyRange)}}

extractSelectionData == CopiedCells(FlatColumns)

Highlighted == CopiedCells(DisplayedColumns)

-----------------------------------------------------------------------------
(* Columns *)

SetShown(s) ==
    /\ shown' = s /\ current' = s
    /\ remounted' = FALSE
    /\ UNCHANGED <<rows, cellVars, pageVars, left, right, order, initial>>

\* The column menu, and the header's menu, which only hides.
ToggleColumn ==
    /\ Act("grid")
    /\ \E c \in ColumnSet : SetShown(IF c \in shown THEN shown \ {c} ELSE shown \cup {c})

PinColumn ==
    /\ Act("grid")
    /\ \E c \in ColumnSet :
        LET others(seq) == Filter(seq, LAMBDA d : d # c) IN
        \/ left' = Append(others(left), c) /\ right' = others(right)
        \/ left' = others(left) /\ right' = Append(others(right), c)
        \/ left' = others(left) /\ right' = others(right)
    /\ UNCHANGED <<rows, cellVars, pageVars, shown, order, initial, current, remounted>>

\* A drag moves a column within the order of definition: an earlier drag is lost.
handleColumnDragEnd ==
    /\ Act("grid")
    /\ \E from, to \in 1..colCount :
        /\ from # to
        /\ {FlatColumns[from], FlatColumns[to]} \cap (ToSet(left) \cup ToSet(right)) = {}
        /\ order' = InsertAt(RemoveAt(FlatColumns, from), to, FlatColumns[from])
    /\ UNCHANGED <<rows, cellVars, pageVars, shown, left, right, initial, current, remounted>>

\* applyView and clearView give the table a new key: what is visible comes from
\* the view, or from what the page remembered when it was opened.
RemountTable ==
    /\ Act("grid")
    /\ shown' \in {initial} \cup (SUBSET ColumnSet \ {{}})
    /\ order' = <<>>
    /\ cell' = NoCell /\ anchor' = NoCell /\ range' = NoRange
    /\ remounted' = TRUE
    /\ UNCHANGED <<rows, pageVars, left, right, initial, current>>

-----------------------------------------------------------------------------
(* Pages and data *)

\* The effect that compares the data clears cell and range, not the anchor.
NewData ==
    /\ rows' \in 0..MaxRows
    /\ cell' = NoCell /\ range' = NoRange
    /\ UNCHANGED <<columnVars, anchor>>

\* The server answers with other rows, more or fewer of them.
Refetch ==
    /\ Act("grid")
    /\ total' \in 0..MaxTotal
    /\ NewData
    /\ UNCHANGED <<pageNo, limit>>

\* The numbers between first and last page, two on each side of the current one.
PageNumbers(p, last) ==
    {1} \cup (Max({2, p - 2})..Min({last - 1, p + 2})) \cup (IF last > 1 THEN {last} ELSE {})

TurnPage ==
    /\ Act("grid")
    /\ totalPages > 1
    /\ pageNo' \in PageNumbers(pageNo, totalPages)
            \cup (IF pageNo = 1 THEN {} ELSE {1, pageNo - 1})
            \cup (IF pageNo >= totalPages THEN {} ELSE {totalPages, pageNo + 1})
    /\ NewData
    /\ UNCHANGED <<limit, total>>

ChangeLimit ==
    /\ Act("grid")
    /\ total > 0
    /\ limit' \in PageSizes
    /\ pageNo' = 1
    /\ NewData
    /\ UNCHANGED total

GridNext ==
    \/ handleKeyDown \/ Escape \/ handleCellClick \/ onSelectAll
    \/ ToggleColumn \/ PinColumn \/ handleColumnDragEnd \/ RemountTable
    \/ Refetch \/ TurnPage \/ ChangeLimit

-----------------------------------------------------------------------------
\* What Ctrl+C copies is what the table highlights, although cells are hidden
\* under a range and rows disappear; not once columns are pinned or dragged,
\* since copying counts them in the order of their definition.
CopyMatchesHighlight ==
    cell # NoCell /\ left = <<>> /\ right = <<>> /\ order = <<>> =>
        extractSelectionData = Highlighted

\* A range runs from the cell where the selection began to the active cell, until
\* Ctrl+A takes the whole table: columns and rows that come and go meanwhile
\* never leave a range that belongs to another cell.
RangeSpansSelection ==
    cell # NoCell /\ range # NoRange =>
        range = [from |-> anchor, to |-> cell] \/ range.from = At(0, 0)

\* The columns a saved view would store are those on the screen until another
\* view remounts the table.
StoredColumnsShown == remounted \/ current = shown

\* The footer offers only pages there are, and the neighbours of the current one,
\* also when rows that disappear have left the current page behind the last.
PagesOffered ==
    totalPages > 1 =>
        LET offered == PageNumbers(pageNo, totalPages) IN
        /\ offered \subseteq 1..totalPages
        /\ pageNo <= totalPages => {pageNo - 1, pageNo + 1} \cap (1..totalPages) \subseteq offered
=============================================================================
