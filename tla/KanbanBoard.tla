---------------------------- MODULE KanbanBoard ----------------------------
(***************************************************************************)
(* The status board (components/works/views/KanbanView.tsx): cards dragged    *)
(* between columns under the moves the server allows, a highlighted card     *)
(* walked with the arrow keys, columns folded or hidden.  What the board      *)
(* shows may change under a drag: the columns are refetched.  The column of   *)
(* records without a value is left out.                                      *)
(***************************************************************************)
EXTENDS Screen, FiniteSetsExt

CONSTANTS
    BoardColumns, \* the values of the group field, in their order
    Cards         \* the cards, numbered in the order of a column

ASSUME KanbanAssumption ==
    /\ BoardColumns \in Seq(ToSet(BoardColumns)) \ {<<>>} /\ IsInjective(BoardColumns)
    /\ IsFiniteSet(Cards) /\ Cards = 1..Cardinality(Cards)

VARIABLES
    column,       \* the column of each card in the database
    columns,      \* the column each card is shown in
    allowedMoves, \* from each column to those its cards may go to; none without a process
    dragged,      \* activeEntry: the card under the pointer
    fromColumn,   \* where it was when the drag began
    focusedCol, focusedCard,
    hideEmpty, collapsedColumns,
    drop,         \* the last drop: how its column was drawn and what came of it
    enter         \* the last card opened with Enter, and how it was shown

kanbanVars == <<column, columns, allowedMoves, dragged, fromColumn, focusedCol, focusedCard,
                hideEmpty, collapsedColumns, drop, enter>>
kanbanFocus == <<focusedCol, focusedCard, hideEmpty, collapsedColumns, enter>>

ColumnValues == ToSet(BoardColumns)
NoCard == -1
NoDrop == [shown |-> "idle", sent |-> FALSE, moved |-> FALSE]
NoEnter == [opened |-> NoCard, ring |-> NoCard, hidden |-> FALSE]

Drops == [shown : {"idle", "allowed", "blocked"}, sent : BOOLEAN, moved : BOOLEAN]
Enters == [opened : Cards \cup {NoCard}, ring : Cards \cup {NoCard}, hidden : BOOLEAN]

KanbanTypeOK ==
    /\ column \in [Cards -> ColumnValues] /\ columns \in [Cards -> ColumnValues]
    /\ allowedMoves \in [ColumnValues -> SUBSET ColumnValues] \cup {<<>>}
    /\ dragged \in Cards \cup {NoCard} /\ fromColumn \in ColumnValues \cup {""}
    /\ focusedCol \in -1..Len(BoardColumns) - 1 /\ focusedCard \in -1..Cardinality(Cards)
    /\ hideEmpty \in BOOLEAN /\ collapsedColumns \subseteq ColumnValues
    /\ drop \in Drops /\ enter \in Enters

\* With a process the server lists the moves of the user's role, of every status: a
\* column nothing leaves has an empty list.
KanbanInit ==
    /\ column \in [Cards -> ColumnValues] /\ columns = column
    /\ allowedMoves \in [ColumnValues -> SUBSET ColumnValues] \cup {<<>>}
    /\ \A c \in DOMAIN allowedMoves : c \notin allowedMoves[c]
    /\ dragged = NoCard /\ fromColumn = ""
    /\ focusedCol = -1 /\ focusedCard = -1
    /\ hideEmpty = FALSE /\ collapsedColumns = {}
    /\ drop = NoDrop /\ enter = NoEnter

EntriesOf(value) == Filter([c \in Cards |-> c], LAMBDA c : columns[c] = value)

-----------------------------------------------------------------------------
(* Dragging *)

findColumnValue(card) == columns[card]

DragStart ==
    /\ Act("kanban") /\ dragged = NoCard
    /\ \E c \in Cards :
        /\ columns[c] \notin collapsedColumns
        /\ dragged' = c /\ fromColumn' = findColumnValue(c)
    /\ UNCHANGED <<column, columns, allowedMoves, drop, kanbanFocus>>

\* Without a process nothing is marked.
columnDropState(value) ==
    IF fromColumn = "" \/ allowedMoves = <<>> \/ value = fromColumn THEN "idle"
    ELSE IF value \in allowedMoves[fromColumn] THEN "allowed"
    ELSE "blocked"

\* Mutant: an empty list is taken for no restriction.
MayMoveUnlessNone(from, to) ==
    allowedMoves # <<>> => allowedMoves[from] = {} \/ to \in allowedMoves[from]

MayMove(from, to) == allowedMoves # <<>> => to \in allowedMoves[from]

\* Only cards are targets, and folded columns show none.  The columns of both cards
\* are looked up again; the server takes the move or refuses it.
Targets == {c \in Cards : columns[c] \notin collapsedColumns}
DragEnd ==
    /\ Act("kanban") /\ dragged # NoCard
    /\ \/ Targets = {} /\ UNCHANGED <<column, drop>>
       \/ \E over \in Targets :
            LET from == findColumnValue(dragged)
                value == findColumnValue(over)
                sent == from # value /\ MayMove(from, value) IN
            /\ drop' = [shown |-> columnDropState(value), sent |-> sent, moved |-> from # fromColumn]
            /\ column' \in IF sent THEN {column, [column EXCEPT ![dragged] = value]} ELSE {column}
    /\ dragged' = NoCard /\ fromColumn' = ""
    /\ UNCHANGED <<columns, allowedMoves, kanbanFocus>>

\* Escape ends the drag without handleDragEnd: the marks stay.
DragCancel ==
    /\ Act("kanban") /\ dragged # NoCard
    /\ dragged' = NoCard
    /\ UNCHANGED <<column, columns, allowedMoves, fromColumn, drop, kanbanFocus>>

-----------------------------------------------------------------------------
(* The highlighted card *)

visibleColumns ==
    IF hideEmpty THEN Filter(BoardColumns, LAMBDA v : EntriesOf(v) # <<>>) ELSE BoardColumns

\* The card at the focused place, counted among all columns.
CardAt(col, card) ==
    IF col \in 0..Len(BoardColumns) - 1 /\ card \in 0..Len(EntriesOf(BoardColumns[col + 1])) - 1
    THEN EntriesOf(BoardColumns[col + 1])[card + 1] ELSE NoCard

focusedCardId == CardAt(focusedCol, focusedCard)

\* The ring is drawn in the column with that number among the visible ones.
Ring ==
    IF focusedCol + 1 \in DOMAIN visibleColumns /\ focusedCardId # NoCard
       /\ columns[focusedCardId] = visibleColumns[focusedCol + 1]
       /\ visibleColumns[focusedCol + 1] \notin collapsedColumns
    THEN focusedCardId ELSE NoCard

handleBoardKeyDown ==
    /\ Act("kanban")
    /\ \/ focusedCol' = Min({focusedCol + 1, Len(BoardColumns) - 1}) /\ focusedCard' = 0
       \/ focusedCol' = Max({focusedCol - 1, 0}) /\ focusedCard' = 0
       \/ /\ focusedCol >= 0
          /\ focusedCard' = Min({focusedCard + 1, Len(EntriesOf(BoardColumns[focusedCol + 1])) - 1})
          /\ UNCHANGED focusedCol
       \/ focusedCard' = Max({focusedCard - 1, 0}) /\ UNCHANGED focusedCol
    /\ UNCHANGED <<column, columns, allowedMoves, dragged, fromColumn, hideEmpty, collapsedColumns,
                   drop, enter>>

Enter ==
    /\ Act("kanban") /\ focusedCardId # NoCard
    /\ enter' = [opened |-> focusedCardId, ring |-> Ring,
                 hidden |-> hideEmpty \/ columns[focusedCardId] \in collapsedColumns]
    /\ UNCHANGED <<column, columns, allowedMoves, dragged, fromColumn, focusedCol, focusedCard,
                   hideEmpty, collapsedColumns, drop>>

ToggleHideEmpty ==
    /\ Act("kanban")
    /\ \E v \in ColumnValues : EntriesOf(v) = <<>>
    /\ hideEmpty' = ~hideEmpty
    /\ UNCHANGED <<column, columns, allowedMoves, dragged, fromColumn, focusedCol, focusedCard,
                   collapsedColumns, drop, enter>>

toggleCollapse ==
    /\ Act("kanban")
    /\ \E v \in ColumnValues :
        collapsedColumns' = IF v \in collapsedColumns THEN collapsedColumns \ {v} ELSE collapsedColumns \cup {v}
    /\ UNCHANGED <<column, columns, allowedMoves, dragged, fromColumn, focusedCol, focusedCard,
                   hideEmpty, drop, enter>>

-----------------------------------------------------------------------------
SomebodyMoves ==
    /\ Act("kanban")
    /\ \E c \in Cards, v \in ColumnValues : column[c] # v /\ column' = [column EXCEPT ![c] = v]
    /\ UNCHANGED <<columns, allowedMoves, dragged, fromColumn, drop, kanbanFocus>>

\* The drag goes on over the new columns.
RefetchColumns ==
    /\ columns # column
    /\ columns' = column
    /\ UNCHANGED <<acts, column, allowedMoves, dragged, fromColumn, drop, kanbanFocus>>

KanbanNext ==
    \/ DragStart \/ DragEnd \/ DragCancel
    \/ handleBoardKeyDown \/ Enter \/ ToggleHideEmpty \/ toggleCollapse
    \/ SomebodyMoves \/ RefetchColumns

-----------------------------------------------------------------------------
\* Columns are drawn by the place the card was taken from, drops are decided by the
\* place it has by then: dropping on a card of a column drawn as allowed sends the
\* move and on one drawn as blocked does not, unless the board showed the dragged card
\* in another column by then.
DropMatchesShown ==
    ~drop.moved => /\ drop.shown = "allowed" => drop.sent
                   /\ drop.shown = "blocked" => ~drop.sent

\* Enter opens the card with the ring, although the board may have changed under
\* it.  Not covered: while empty columns are hidden, and in a folded column, Enter
\* opens a card that has no ring.
EnterOpensRing == enter.hidden \/ enter.opened = enter.ring
=============================================================================
