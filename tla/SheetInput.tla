----------------------------- MODULE SheetInput -----------------------------
(***************************************************************************)
(* The spreadsheet input of a form (components/works/SpreadsheetInput.tsx).   *)
(* Its value is a list of rows without the empty ones at the end; it shows     *)
(* at least initialRows of them, filtered and sorted, and its cells are        *)
(* addressed by their place on the screen.                                   *)
(***************************************************************************)
EXTENDS Screen, FiniteSetsExt

CONSTANTS
    SheetColumns, \* number of columns
    initialRows, MaxSheetRows,
    CellValues    \* what is typed and pasted: positive numbers, 0 is an empty cell

ASSUME SheetAssumption ==
    /\ SheetColumns \in Nat \ {0} /\ MaxSheetRows \in Nat \ {0, 1} /\ initialRows \in 0..MaxSheetRows
    /\ CellValues \subseteq Nat \ {0}

VARIABLES
    sheet,       \* value
    sort,        \* sortCol: column and order, or none
    filter,      \* filterCol and filterText, or none
    activeCell, selAnchor, selCursor,
    mergedCells, \* areas, by their place on the screen
    clipboard    \* what was copied last, and what the screen showed there

sheetVars == <<sheet, sort, filter, activeCell, selAnchor, selCursor, mergedCells, clipboard>>
sheetMarks == <<activeCell, selAnchor, selCursor>>

Cols == 1..SheetColumns
EmptyRow == [c \in Cols |-> 0]
SheetRow == [Cols -> CellValues \cup {0}]
NoSheetCell == <<0, 0>>
Cell == (1..MaxSheetRows + 1) \X Cols
NoSort == [col |-> 0, asc |-> TRUE]
NoFilter == [col |-> 0, text |-> 0]
SheetSort == [col : Cols \cup {0}, asc : BOOLEAN]
SheetFilter == [col : Cols \cup {0}, text : CellValues \cup {0}]
NoCopy == [copied |-> <<>>, shown |-> <<>>, direct |-> TRUE]

SheetTypeOK ==
    /\ sheet \in Seq(SheetRow) /\ Len(sheet) <= MaxSheetRows
    /\ sort \in SheetSort /\ filter \in SheetFilter
    /\ {activeCell, selAnchor, selCursor} \subseteq Cell \cup {NoSheetCell}
    /\ mergedCells \subseteq Cell \X Cell
    /\ DOMAIN clipboard = DOMAIN NoCopy

Trimmed(rows) ==
    LET full == {i \in DOMAIN rows : rows[i] # EmptyRow}
    IN IF full = {} THEN <<>> ELSE SubSeq(rows, 1, Max(full))

SheetInit ==
    /\ sheet \in {Trimmed(<<r, s>>) : r, s \in {x \in SheetRow : \A c \in Cols \ {1} : x[c] = 0}}
    /\ sort = NoSort /\ filter = NoFilter
    /\ activeCell = NoSheetCell /\ selAnchor = NoSheetCell /\ selCursor = NoSheetCell
    /\ mergedCells = {} /\ clipboard = NoCopy

-----------------------------------------------------------------------------
\* Filled up with empty rows.
displayRows ==
    [i \in 1..Max({Len(sheet), initialRows}) |-> IF i \in DOMAIN sheet THEN sheet[i] ELSE EmptyRow]

\* The numbers of the rows on the screen: those that match, in a stable order.
visibleRows ==
    LET matching == {i \in DOMAIN displayRows : filter.text # 0 => displayRows[i][filter.col] = filter.text}
        key(i) == IF sort.col = 0 THEN 0
                  ELSE IF sort.asc THEN displayRows[i][sort.col] ELSE -displayRows[i][sort.col]
    IN Ordered(matching, LAMBDA i, j : key(i) < key(j) \/ (key(i) = key(j) /\ i < j))

\* onChange of the form.
emitChange(rows) == sheet' = Trimmed(rows)

\* The area between two corners.
Area(a, b) ==
    [r0 |-> Min({a[1], b[1]}), r1 |-> Max({a[1], b[1]}),
     c0 |-> Min({a[2], b[2]}), c1 |-> Max({a[2], b[2]})]
selection == Area(selAnchor, selCursor)
HasSelection == selAnchor # NoSheetCell /\ selCursor # NoSheetCell
InArea(r, c, a) == r \in a.r0..a.r1 /\ c \in a.c0..a.c1

-----------------------------------------------------------------------------
(* Cells *)

\* Rows of the screen lead to rows of the value.
updateCell ==
    /\ Act("sheet")
    /\ \E r \in DOMAIN visibleRows, c \in Cols, v \in CellValues \cup {0} :
        /\ emitChange([displayRows EXCEPT ![visibleRows[r]][c] = v])
        /\ activeCell' = <<r, c>>
    /\ UNCHANGED <<sort, filter, selAnchor, selCursor, mergedCells, clipboard>>

\* The new row is empty, so emitChange takes it away again.
addRow == emitChange(Append(displayRows, EmptyRow))

AddRow ==
    /\ Act("sheet") /\ addRow
    /\ UNCHANGED <<sort, filter, mergedCells, clipboard, sheetMarks>>

handleSheetCellClick ==
    /\ Act("sheet")
    /\ \E r \in DOMAIN visibleRows, c \in Cols :
        \/ /\ activeCell' = <<r, c>> /\ selAnchor' = <<r, c>> /\ selCursor' = <<r, c>>
        \/ /\ activeCell # NoSheetCell /\ selCursor' = <<r, c>> /\ UNCHANGED <<activeCell, selAnchor>>
    /\ UNCHANGED <<sheet, sort, filter, mergedCells, clipboard>>

MoveTo(r, c) == activeCell' = <<r, c>> /\ selAnchor' = <<r, c>> /\ selCursor' = <<r, c>>

\* Tab, Enter and the arrows; past the last row Tab and Enter add one.
NextCells(r, c) ==
    LET last == Len(visibleRows) IN
    {IF c < SheetColumns THEN <<r, c + 1>> ELSE <<r + 1, 1>>, <<r + 1, c>>}
    \cup (IF c > 1 THEN {<<r, c - 1>>} ELSE IF r > 1 THEN {<<r - 1, SheetColumns>>} ELSE {})
    \cup (IF r > 1 THEN {<<r - 1, c>>} ELSE {})

handleSheetKeyDown ==
    /\ Act("sheet") /\ activeCell # NoSheetCell
    /\ \E to \in NextCells(activeCell[1], activeCell[2]) \cap Cell :
        /\ IF to[1] > Len(visibleRows) /\ to[1] > activeCell[1] THEN addRow ELSE UNCHANGED sheet
        /\ MoveTo(to[1], to[2])
    /\ UNCHANGED <<sort, filter, mergedCells, clipboard>>

DropSelection ==
    /\ Act("sheet") /\ HasSelection
    /\ selAnchor' = NoSheetCell /\ selCursor' = NoSheetCell
    /\ UNCHANGED <<sheet, sort, filter, activeCell, mergedCells, clipboard>>

\* Delete takes the places of the selection for row numbers.
DeleteSelection ==
    /\ Act("sheet") /\ HasSelection /\ activeCell # NoSheetCell
    /\ emitChange([r \in DOMAIN displayRows |-> [c \in Cols |->
            IF InArea(r, c, selection) THEN 0 ELSE displayRows[r][c]]])
    /\ UNCHANGED <<sort, filter, mergedCells, clipboard, sheetMarks>>

Direct == sort = NoSort /\ filter.text = 0

\* So does copying.
handleCopy ==
    /\ Act("sheet") /\ HasSelection
    /\ clipboard' =
        LET inside == selection IN
        [copied |-> [r \in inside.r0..inside.r1 |-> [c \in inside.c0..inside.c1 |->
             IF r \in DOMAIN displayRows THEN displayRows[r][c] ELSE 0]],
         shown |-> [r \in inside.r0..inside.r1 |-> [c \in inside.c0..inside.c1 |->
             IF r \in DOMAIN visibleRows THEN displayRows[visibleRows[r]][c] ELSE 0]],
         direct |-> Direct]
    /\ UNCHANGED <<sheet, sort, filter, mergedCells, sheetMarks>>

\* And pasting, which adds the rows it needs.
handlePaste ==
    /\ Act("sheet") /\ activeCell # NoSheetCell
    /\ \E v, w \in CellValues \cup {0} :
        LET r == activeCell[1]
            c == activeCell[2]
            rows == [i \in 1..Max({Len(displayRows), r + 1}) |->
                        IF i \in DOMAIN displayRows THEN displayRows[i] ELSE EmptyRow]
        IN /\ r + 1 <= MaxSheetRows
           /\ emitChange([rows EXCEPT ![r][c] = v, ![r + 1][c] = w])
           /\ selAnchor' = activeCell /\ selCursor' = <<r + 1, c>>
    /\ UNCHANGED <<sort, filter, activeCell, mergedCells, clipboard>>

-----------------------------------------------------------------------------
(* What is shown *)

toggleSort ==
    /\ Act("sheet")
    /\ \E c \in Cols :
        sort' = CASE sort.col # c -> [col |-> c, asc |-> TRUE]
                  [] sort.col = c /\ sort.asc -> [col |-> c, asc |-> FALSE]
                  [] OTHER -> NoSort
    /\ UNCHANGED <<sheet, filter, mergedCells, clipboard, sheetMarks>>

SetFilter ==
    /\ Act("sheet")
    /\ \/ \E c \in Cols, v \in CellValues : filter' = [col |-> c, text |-> v]
       \/ filter.text # 0 /\ filter' = NoFilter
    /\ UNCHANGED <<sheet, sort, mergedCells, clipboard, sheetMarks>>

AreaOf(m) == Area(m[1], m[2])
Overlap(a, b) == a.r0 <= b.r1 /\ b.r0 <= a.r1 /\ a.c0 <= b.c1 /\ b.c0 <= a.c1

\* Merging again takes a merge back.
handleMerge ==
    /\ Act("sheet") /\ HasSelection /\ selAnchor # selCursor
    /\ LET area == selection
           corners == <<<<area.r0, area.c0>>, <<area.r1, area.c1>>>>
           apart == {m \in mergedCells : ~Overlap(AreaOf(m), area)}
       IN mergedCells' = IF corners \in mergedCells THEN apart ELSE apart \cup {corners}
    /\ UNCHANGED <<sheet, sort, filter, clipboard, sheetMarks>>

SheetNext ==
    \/ updateCell \/ AddRow \/ handleSheetCellClick \/ handleSheetKeyDown \/ DropSelection
    \/ DeleteSelection \/ handleCopy \/ handlePaste
    \/ toggleSort \/ SetFilter \/ handleMerge

-----------------------------------------------------------------------------
\* What is copied is what the screen shows in the selection.  Not covered: while
\* the rows are sorted or filtered, other rows are copied.
CopiesWhatIsShown == clipboard.direct => clipboard.copied = clipboard.shown

\* A cell belongs to one merged area at most, in whatever order they are made.
MergesDisjoint ==
    \A m, n \in mergedCells : m # n => ~\E r \in 1..MaxSheetRows + 1, c \in Cols :
        InArea(r, c, AreaOf(m)) /\ InArea(r, c, AreaOf(n))
=============================================================================
