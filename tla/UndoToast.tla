----------------------------- MODULE UndoToast -----------------------------
(***************************************************************************)
(* Undo and redo of a card's moves on the status board                      *)
(* (frontend/src/hooks/useUndoToast.ts, pushed by handleProcessCardMove of   *)
(* AppViewPage.tsx).  A move becomes undoable when the server has accepted   *)
(* it; taking it back is another write, which races with the rest.  The board *)
(* is read again after a write: until then it shows the card where it was.    *)
(***************************************************************************)
EXTENDS Screen

CONSTANTS
    Statuses,   \* the columns of the board
    MaxRequests \* bound on the writes under way

ASSUME UndoAssumption == MaxRequests \in Nat

VARIABLES
    status,   \* the card's status in the database
    board,    \* the column that shows the card
    stack,    \* stack: moves that can be undone, each with its toast and timer
    redos,    \* redoStack
    requests, \* writes on their way to the server
    jumped    \* the history is no longer a chain of moves (observation only)

undoVars == <<status, board, stack, redos, requests, jumped>>

StatusMove == [from : Statuses, to : Statuses]
Write == [from : Statuses, to : Statuses, move : BOOLEAN]

UndoTypeOK ==
    /\ {status, board} \subseteq Statuses
    /\ stack \in Seq(StatusMove) /\ redos \in Seq(StatusMove)
    /\ requests \in Seq(Write) /\ Len(requests) <= MaxRequests
    /\ jumped \in BOOLEAN

UndoInit ==
    /\ status \in Statuses /\ board = status
    /\ stack = <<>> /\ redos = <<>> /\ requests = <<>>
    /\ jumped = FALSE

\* updateEntry.mutate: the patch it applies at once finds no list in the board's
\* answer, whose cards are under columns.
SendStatus(from, to, move) ==
    /\ Len(requests) < MaxRequests
    /\ requests' = Append(requests, [from |-> from, to |-> to, move |-> move])
    /\ UNCHANGED <<status, board>>

handleProcessCardMove ==
    /\ Act("undo")
    /\ \E to \in Statuses \ {board} : SendStatus(board, to, TRUE)
    /\ jumped' = (jumped \/ board # status \/ requests # <<>>)
    /\ UNCHANGED <<stack, redos>>

\* Mutant: a new move leaves the redo stack as it is.
pushOnly(m) == stack' = Append(stack, m) /\ UNCHANGED redos

\* push empties the redo stack.
push(m) == stack' = Append(stack, m) /\ redos' = <<>>

\* Requests may reach the server in any order.  An accepted move is pushed.
WriteLands ==
    \E n \in DOMAIN requests :
        LET w == requests[n] IN
        /\ status' = w.to
        /\ requests' = RemoveAt(requests, n)
        /\ jumped' = (jumped \/ n # 1)
        /\ IF w.move THEN push([from |-> w.from, to |-> w.to]) ELSE UNCHANGED <<stack, redos>>
        /\ UNCHANGED <<acts, board>>

\* A refused or lost write.
WriteFails ==
    \E n \in DOMAIN requests :
        /\ requests' = RemoveAt(requests, n)
        /\ jumped' = TRUE
        /\ UNCHANGED <<acts, status, board, stack, redos>>

\* onSettled and the stream of events have the board read again.
RefetchBoard ==
    /\ board # status
    /\ board' = status
    /\ UNCHANGED <<acts, status, stack, redos, requests, jumped>>

TakeBack(n) ==
    /\ stack' = RemoveAt(stack, n)
    /\ redos' = Append(redos, stack[n])
    /\ SendStatus(stack[n].to, stack[n].from, FALSE)

\* Ctrl+Z, outside of text fields.
performUndo ==
    /\ Act("undo")
    /\ stack # <<>>
    /\ TakeBack(Len(stack))
    /\ jumped' = (jumped \/ requests # <<>>)

\* The button of any toast that is still open.
ClickUndo ==
    /\ Act("undo")
    /\ \E n \in DOMAIN stack :
        /\ TakeBack(n)
        /\ jumped' = (jumped \/ n # Len(stack) \/ requests # <<>>)

\* Ctrl+Shift+Z: the move is made again and can no longer be undone.
performRedo ==
    /\ Act("undo")
    /\ redos # <<>>
    /\ redos' = Front(redos)
    /\ SendStatus(Last(redos).from, Last(redos).to, FALSE)
    /\ jumped' = (jumped \/ stack # <<>> \/ requests # <<>>)
    /\ UNCHANGED stack

\* The timer of the oldest move.
Expire ==
    /\ stack # <<>>
    /\ stack' = Tail(stack)
    /\ UNCHANGED <<acts, status, board, redos, requests, jumped>>

UndoNext ==
    \/ handleProcessCardMove \/ WriteLands \/ WriteFails \/ RefetchBoard
    \/ performUndo \/ ClickUndo \/ performRedo \/ Expire

-----------------------------------------------------------------------------
\* Ctrl+Z takes back the move that brought the card where it is, and Ctrl+Shift+Z
\* repeats the one that was taken back last: the histories are chains that end at
\* the card's status once every write has landed.  Not covered: undoing by the
\* toast of an older move, redoing with older moves in the history, undoing while
\* a write is under way, a card moved on a board that does not show its last move
\* yet, and writes that failed or overtook each other.
HistoryIsChain ==
    requests = <<>> /\ ~jumped =>
        /\ stack # <<>> => Last(stack).to = status
        /\ redos # <<>> => Last(redos).from = status
=============================================================================
