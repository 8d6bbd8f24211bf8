----------------------------- MODULE RecordScreensProofs -----------------------------
(***************************************************************************)
(* Proofs about the screens that show records: the undo history of a board,  *)
(* the form view, the record page, the cache of records and that of           *)
(* everything else.  Each screen has an inductive invariant (XInv), a lemma    *)
(* that it holds at the start (XStarts), one that the screen's steps keep it    *)
(* (XStep) and one that it implies the screen's properties (XMeans).           *)
(* BrowserProofs puts them together.                                         *)
(***************************************************************************)
EXTENDS SequenceLemmas, UndoToast, FormPager, EntryEditor, EntriesCache, QueryCache, OrgChart

-----------------------------------------------------------------------------
(* Undo: the histories are chains of moves that end where the card is *)

\* The column the card ends in once the write under way has landed.  A move is
\* pushed when it lands, until then the histories end where it starts.
EndsAt ==
    IF requests = <<>> THEN status
    ELSE IF requests[1].move THEN requests[1].from ELSE requests[1].to

UndoChain(s) == \A i \in 2..Len(s) : s[i].from = s[i - 1].to
RedoChain(s) == \A i \in 2..Len(s) : s[i].to = s[i - 1].from

\* As long as nothing broke the chain there is at most one write under way, every
\* undoable move starts where the one before it ended, every redoable move ends
\* where the one before it started, and both histories end where the card does.
ChainInv ==
    ~jumped =>
        /\ Len(requests) < 2
        /\ UndoChain(stack) /\ RedoChain(redos)
        /\ Len(stack) > 0 => stack[Len(stack)].to = EndsAt
        /\ Len(redos) > 0 => redos[Len(redos)].from = EndsAt

LEMMA SendStatusType ==
    ASSUME UndoTypeOK, NEW from \in Statuses, NEW to \in Statuses, NEW move \in BOOLEAN,
           SendStatus(from, to, move)
    PROVE  /\ status' \in Statuses /\ board' \in Statuses
           /\ requests' \in Seq(Write) /\ Len(requests') <= MaxRequests
           /\ requests = <<>> =>
                /\ Len(requests') > 0 /\ Len(requests') < 2
                /\ requests'[1] = [from |-> from, to |-> to, move |-> move]
  BY UndoAssumption DEF UndoTypeOK, SendStatus, Write

LEMMA UndoTypeStep == UndoTypeOK /\ [UndoNext]_undoVars => UndoTypeOK'
  <1> SUFFICES ASSUME UndoTypeOK, [UndoNext]_undoVars PROVE UndoTypeOK'
    OBVIOUS
  <1>1. CASE handleProcessCardMove
    <2>1. PICK to \in Statuses : SendStatus(board, to, TRUE)
      BY <1>1 DEF handleProcessCardMove
    <2> QED  BY <1>1, <2>1, SendStatusType DEF handleProcessCardMove, UndoTypeOK
  <1>2. CASE WriteLands
    <2>1. PICK n \in DOMAIN requests :
            /\ status' = requests[n].to /\ requests' = RemoveAt(requests, n)
            /\ IF requests[n].move THEN push([from |-> requests[n].from, to |-> requests[n].to])
               ELSE UNCHANGED <<stack, redos>>
      BY <1>2 DEF WriteLands
    <2>2. requests[n] \in Write
      BY DEF UndoTypeOK
    <2>3. requests' \in Seq(Write) /\ Len(requests') <= MaxRequests
      BY <2>1, RemoveAtType, UndoAssumption DEF UndoTypeOK
    <2>4. stack' \in Seq(StatusMove) /\ redos' \in Seq(StatusMove)
      <3>1. [from |-> requests[n].from, to |-> requests[n].to] \in StatusMove
        BY <2>2 DEF Write, StatusMove
      <3>2. CASE requests[n].move
        <4>1. stack' = Append(stack, [from |-> requests[n].from, to |-> requests[n].to]) /\ redos' = <<>>
          BY <2>1, <3>2 DEF push
        <4> QED  BY <3>1, <4>1, AppendType, EmptySeq DEF UndoTypeOK
      <3>3. CASE ~requests[n].move
        BY <2>1, <3>3 DEF UndoTypeOK
      <3> QED  BY <3>2, <3>3
    <2> QED  BY <1>2, <2>1, <2>2, <2>3, <2>4 DEF WriteLands, UndoTypeOK, Write
  <1>3. CASE WriteFails
    <2>1. PICK n \in DOMAIN requests : requests' = RemoveAt(requests, n)
      BY <1>3 DEF WriteFails
    <2>2. requests' \in Seq(Write) /\ Len(requests') <= MaxRequests
      BY <2>1, RemoveAtType, UndoAssumption DEF UndoTypeOK
    <2> QED  BY <1>3, <2>2 DEF WriteFails, UndoTypeOK
  <1>4. CASE RefetchBoard
    BY <1>4 DEF RefetchBoard, UndoTypeOK
  <1>5. ASSUME NEW n \in DOMAIN stack, TakeBack(n) PROVE UndoTypeOK' \/ jumped' \notin BOOLEAN
    <2>1. stack[n] \in StatusMove
      BY DEF UndoTypeOK
    <2>2. stack' \in Seq(StatusMove) /\ redos' \in Seq(StatusMove)
      BY <1>5, <2>1, RemoveAtType DEF TakeBack, UndoTypeOK
    <2> QED  BY <1>5, <2>1, <2>2, SendStatusType DEF TakeBack, UndoTypeOK, StatusMove
  <1>6. CASE performUndo
    <2>1. Len(stack) \in DOMAIN stack
      BY <1>6 DEF performUndo, UndoTypeOK
    <2> QED  BY <1>5, <1>6, <2>1 DEF performUndo, UndoTypeOK
  <1>7. CASE ClickUndo
    BY <1>5, <1>7 DEF ClickUndo, UndoTypeOK
  <1>8. CASE performRedo
    <2>1. Front(redos) \in Seq(StatusMove) /\ Last(redos) \in StatusMove
      BY <1>8, FrontType DEF performRedo, UndoTypeOK
    <2> QED  BY <1>8, <2>1, SendStatusType DEF performRedo, UndoTypeOK, StatusMove
  <1>9. CASE Expire
    BY <1>9 DEF Expire, UndoTypeOK
  <1>10. CASE UNCHANGED undoVars
    BY <1>10 DEF undoVars, UndoTypeOK
  <1> QED BY <1>1, <1>2, <1>3, <1>4, <1>6, <1>7, <1>8, <1>9, <1>10 DEF UndoNext

LEMMA ChainStep == UndoTypeOK /\ ChainInv /\ [UndoNext]_undoVars => ChainInv'
  <1> SUFFICES ASSUME UndoTypeOK, ChainInv, [UndoNext]_undoVars, ~jumped' PROVE ChainInv'
    BY DEF ChainInv
  <1>0. UndoTypeOK'
    BY UndoTypeStep
  <1>1. CASE handleProcessCardMove
    <2>1. PICK to \in Statuses : SendStatus(board, to, TRUE)
      BY <1>1 DEF handleProcessCardMove
    <2>2. ~jumped /\ board = status /\ requests = <<>>
      BY <1>1 DEF handleProcessCardMove, UndoTypeOK
    <2>3. Len(requests') > 0 /\ Len(requests') < 2 /\ requests'[1] = [from |-> board, to |-> to, move |-> TRUE]
      BY <2>1, <2>2, SendStatusType DEF UndoTypeOK
    <2>4. EndsAt' = EndsAt
      BY <2>2, <2>3 DEF EndsAt
    <2> QED  BY <1>1, <2>2, <2>3, <2>4 DEF handleProcessCardMove, ChainInv
  <1>2. CASE WriteLands
    <2>1. PICK n \in DOMAIN requests :
            /\ status' = requests[n].to /\ requests' = RemoveAt(requests, n)
            /\ jumped' = (jumped \/ n # 1)
            /\ IF requests[n].move THEN push([from |-> requests[n].from, to |-> requests[n].to])
               ELSE UNCHANGED <<stack, redos>>
      BY <1>2 DEF WriteLands
    <2>2. ~jumped /\ n = 1
      BY <2>1, Zenon
    <2>2a. Len(requests) > 0 /\ Len(requests) < 2
      BY <2>2 DEF ChainInv, UndoTypeOK
    <2>3. requests' = <<>> /\ EndsAt' = requests[1].to
      <3>1. requests' = <<>>
        BY SMTT(30), <2>1, <2>2a, RemoveAtType DEF UndoTypeOK
      <3> QED  BY <2>1, <2>2, <3>1 DEF EndsAt
    <2>4. CASE requests[1].move
      <3>1. stack' = Append(stack, [from |-> requests[1].from, to |-> requests[1].to]) /\ redos' = <<>>
        BY <2>1, <2>2, <2>4 DEF push
      <3>2. EndsAt = requests[1].from
        BY <2>2, <2>4 DEF EndsAt
      <3>3. UndoChain(stack')
        BY <2>2, <3>1, <3>2 DEF UndoChain, ChainInv, UndoTypeOK
      <3> QED  BY <2>3, <3>1, <3>3 DEF ChainInv, RedoChain, UndoTypeOK
    <2>5. CASE ~requests[1].move
      <3>1. UNCHANGED <<stack, redos>> /\ EndsAt = requests[1].to
        BY <2>1, <2>2, <2>5 DEF EndsAt
      <3> QED  BY <2>2, <2>3, <3>1 DEF ChainInv
    <2> QED  BY <2>4, <2>5
  <1>3. CASE WriteFails
    BY <1>3 DEF WriteFails
  <1>4. CASE RefetchBoard
    BY <1>4 DEF RefetchBoard, EndsAt, ChainInv
  <1>5. ASSUME stack # <<>>, TakeBack(Len(stack)), ~jumped, requests = <<>> PROVE ChainInv'
    <2>1. stack[Len(stack)] \in StatusMove /\ Len(stack) \in DOMAIN stack
      BY <1>5 DEF UndoTypeOK
    <2>2. /\ stack' = RemoveAt(stack, Len(stack)) /\ redos' = Append(redos, stack[Len(stack)])
          /\ Len(requests') > 0 /\ Len(requests') < 2
          /\ ~requests'[1].move /\ requests'[1].to = stack[Len(stack)].from
      <3>1. stack[Len(stack)].from \in Statuses /\ stack[Len(stack)].to \in Statuses
        BY <2>1 DEF StatusMove
      <3>2. SendStatus(stack[Len(stack)].to, stack[Len(stack)].from, FALSE)
        BY <1>5 DEF TakeBack
      <3>3. /\ Len(requests') > 0 /\ Len(requests') < 2
            /\ requests'[1] = [from |-> stack[Len(stack)].to, to |-> stack[Len(stack)].from, move |-> FALSE]
        BY <1>5, <3>1, <3>2, SendStatusType
      <3> QED  BY <1>5, <3>3 DEF TakeBack
    <2>3. EndsAt' = stack[Len(stack)].from /\ EndsAt = status
      BY <1>5, <2>2 DEF EndsAt
    <2>4. UndoChain(stack') /\ (Len(stack') > 0 => stack'[Len(stack')].to = stack[Len(stack)].from)
      <3>1. UndoChain(stack)
        BY <1>5 DEF ChainInv
      <3>2. Len(stack') = Len(stack) - 1 /\ \A i \in 1..Len(stack) - 1 : stack'[i] = stack[i]
        <4>1. stack \in Seq(StatusMove) /\ Len(stack) \in 1..Len(stack)
          BY <1>5 DEF UndoTypeOK
        <4>2. /\ Len(stack') = Len(stack) - 1
              /\ \A i \in 1..Len(stack) - 1 : stack'[i] = IF i < Len(stack) THEN stack[i] ELSE stack[i + 1]
          BY <2>2, <4>1, RemoveAtType
        <4> QED  BY <4>1, <4>2
      <3> QED  BY SMTT(30), <2>1, <3>1, <3>2 DEF UndoChain, UndoTypeOK
    <2>5. RedoChain(redos')
      BY <1>5, <2>1, <2>2, <2>3 DEF RedoChain, ChainInv, UndoTypeOK
    <2> QED  BY <2>2, <2>3, <2>4, <2>5 DEF ChainInv, UndoTypeOK
  <1>6. CASE performUndo
    BY <1>5, <1>6 DEF performUndo
  <1>7. CASE ClickUndo
    <2>1. PICK n \in DOMAIN stack : TakeBack(n) /\ jumped' = (jumped \/ n # Len(stack) \/ requests # <<>>)
      BY <1>7 DEF ClickUndo
    <2>2. ~jumped /\ n = Len(stack) /\ requests = <<>>
      BY <2>1, Zenon
    <2>3. stack # <<>>
      BY <2>1 DEF UndoTypeOK
    <2> QED  BY <1>5, <2>1, <2>2, <2>3
  <1>8. CASE performRedo
    <2>1. ~jumped /\ stack = <<>> /\ requests = <<>> /\ redos # <<>>
      BY <1>8 DEF performRedo, UndoTypeOK
    <2>2. /\ Len(redos') = Len(redos) - 1 /\ \A i \in 1..Len(redos) - 1 : redos'[i] = redos[i]
          /\ Last(redos) \in StatusMove /\ Last(redos) = redos[Len(redos)]
      BY <1>8, <2>1, FrontType DEF performRedo, UndoTypeOK
    <2>3. Len(requests') > 0 /\ Len(requests') < 2 /\ ~requests'[1].move /\ requests'[1].to = Last(redos).to
      <3>1. Last(redos).from \in Statuses /\ Last(redos).to \in Statuses
        BY <2>2 DEF StatusMove
      <3>2. SendStatus(Last(redos).from, Last(redos).to, FALSE)
        BY <1>8 DEF performRedo
      <3>3. /\ Len(requests') > 0 /\ Len(requests') < 2
            /\ requests'[1] = [from |-> Last(redos).from, to |-> Last(redos).to, move |-> FALSE]
        BY <2>1, <3>1, <3>2, SendStatusType
      <3> QED  BY <3>3
    <2>4. EndsAt' = redos[Len(redos)].to
      BY <2>2, <2>3 DEF EndsAt
    <2>5. RedoChain(redos') /\ (Len(redos') > 0 => redos'[Len(redos')].from = redos[Len(redos)].to)
      <3>1. RedoChain(redos)
        BY <2>1 DEF ChainInv
      <3> QED  BY <2>1, <2>2, <3>1 DEF RedoChain, UndoTypeOK
    <2> QED  BY <1>8, <2>1, <2>3, <2>4, <2>5 DEF ChainInv, UndoTypeOK, performRedo, UndoChain
  <1>9. CASE Expire
    <2>1. /\ ~jumped /\ stack # <<>> /\ stack' = Tail(stack) /\ EndsAt' = EndsAt
          /\ UNCHANGED <<redos, requests>>
      BY <1>9 DEF Expire, EndsAt
    <2> QED  BY <2>1 DEF ChainInv, UndoChain, UndoTypeOK
  <1>10. CASE UNCHANGED undoVars
    BY <1>10 DEF undoVars, EndsAt, ChainInv
  <1> QED BY <1>1, <1>2, <1>3, <1>4, <1>6, <1>7, <1>8, <1>9, <1>10 DEF UndoNext

LEMMA ChainMeans == UndoTypeOK /\ ChainInv => HistoryIsChain
  BY DEF ChainInv, HistoryIsChain, UndoTypeOK, EndsAt, Last
LEMMA ChainStarts == UndoInit => UndoTypeOK /\ ChainInv
  <1> SUFFICES ASSUME UndoInit PROVE UndoTypeOK /\ ChainInv
    OBVIOUS
  <1>1. /\ status \in Statuses /\ board \in Statuses
        /\ stack = <<>> /\ redos = <<>> /\ requests = <<>> /\ jumped = FALSE
        /\ stack \in Seq(StatusMove) /\ redos \in Seq(StatusMove) /\ requests \in Seq(Write)
    BY DEF UndoInit
  <1>2. UndoTypeOK
    <2>1. Len(<<>>) <= MaxRequests
      BY UndoAssumption
    <2> QED  BY <1>1, <2>1 DEF UndoTypeOK
  <1>3. ChainInv
    BY <1>1 DEF ChainInv, UndoChain, RedoChain
  <1> QED  BY <1>2, <1>3

-----------------------------------------------------------------------------
(* The form view: a form belongs to the record it is shown for *)

\* The form for a new record belongs to no record, and a form that edits belongs to
\* the record at the index unless the list moved.
FormsInv ==
    /\ formMode = "create" => openForm.of = NewRecord
    /\ formMode = "edit" /\ entries # <<>> => currentEntry.id = openForm.of \/ shifted

PagerInv == PagerTypeOK /\ FormsInv /\ EditsOwnRecord /\ IndexInList

LEMMA FormsType ==
    /\ Closed \in Form /\ Closed.of = NewRecord
    /\ \A e \in Entry : [of |-> e.id, text |-> e.text] \in Form
    /\ \A f \in Form, id \in RecordIds \cup {NewRecord}, v \in Nat, b \in BOOLEAN : f.text # "" =>
          [id |-> id, of |-> f.of, text |-> f.text, version |-> v, shifted |-> b] \in Submission
  <1>1. Closed \in Form /\ Closed.of = NewRecord
    BY DEF Closed, Form
  <1>2. \A e \in Entry : [of |-> e.id, text |-> e.text] \in Form
    BY DEF Entry, Form
  <1>3. ASSUME NEW f \in Form, NEW id \in RecordIds \cup {NewRecord}, NEW v \in Nat, NEW b \in BOOLEAN, f.text # ""
        PROVE  [id |-> id, of |-> f.of, text |-> f.text, version |-> v, shifted |-> b] \in Submission
    BY <1>3 DEF Form, Submission
  <1> QED  BY <1>1, <1>2, <1>3

\* Typing changes the text of a form, a write the text and the version of a record.
LEMMA TextChanges ==
    ASSUME NEW v \in RecordTexts
    PROVE  /\ \A f \in Form : [f EXCEPT !.text = v] \in Form /\ [f EXCEPT !.text = v].of = f.of
           /\ \A e \in Entry : [e EXCEPT !.text = v, !.version = @ + 1] \in Entry
  <1>1. ASSUME NEW f \in Form
        PROVE  [f EXCEPT !.text = v] \in Form /\ [f EXCEPT !.text = v].of = f.of
    BY DEF Form
  <1>2. ASSUME NEW e \in Entry
        PROVE  [e EXCEPT !.text = v, !.version = @ + 1] \in Entry
    <2>1. PICK k \in Nat : k = e.version + 1
      BY DEF Entry
    <2>2. [e EXCEPT !.text = v, !.version = k] \in Entry
      BY DEF Entry
    <2> QED  BY <2>1, <2>2
  <1> QED  BY <1>1, <1>2

LEMMA PagerStarts == PagerInit => PagerInv
  <1> SUFFICES ASSUME PagerInit PROVE PagerInv
    OBVIOUS
  <1>1. PICK s, t \in RecordTexts : storedRecords = TwoRecords(s, t)
    BY DEF PagerInit
  <1>2. storedRecords \in Seq(Entry) /\ Len(storedRecords) > 0
    <2>1. [id |-> 2, text |-> s, version |-> 1] \in Entry /\ [id |-> 1, text |-> t, version |-> 1] \in Entry
      BY PagerAssumption DEF Entry, RecordIds
    <2> QED  BY <1>1, <2>1 DEF TwoRecords
  <1>3. writes = <<>> /\ writes \in Seq(Submission)
    BY DEF PagerInit
  <1>4. PagerTypeOK
    <2>1. 2 \in 0..MaxId
      BY PagerAssumption
    <2> QED  BY <1>2, <1>3, <2>1, FormsType DEF PagerInit, PagerTypeOK
  <1>5. FormsInv
    BY DEF PagerInit, FormsInv
  <1> QED  BY <1>2, <1>3, <1>4, <1>5 DEF PagerInit, PagerInv, EditsOwnRecord, IndexInList

LEMMA PagerStep == PagerInv /\ [PagerNext]_pagerVars => PagerInv'
  <1> SUFFICES ASSUME PagerInv, [PagerNext]_pagerVars PROVE PagerInv'
    OBVIOUS
  <1>0. /\ storedRecords \in Seq(Entry) /\ entries \in Seq(Entry) /\ writes \in Seq(Submission)
        /\ openForm \in Form /\ formMode \in {"view", "edit", "create"} /\ shifted \in BOOLEAN
        /\ lastId \in 0..MaxId /\ MaxId \in Nat /\ currentIndex \in Nat
    BY PagerAssumption DEF PagerInv, PagerTypeOK
  <1>E. entries # <<>> => currentEntry \in Entry
    <2>1. entries # <<>> => currentIndex + 1 \in 1..Len(entries)
      BY <1>0 DEF PagerInv, IndexInList
    <2> QED  BY <1>0, <2>1 DEF currentEntry
  \* A step of the form leaves the list and what was sent alone.
  <1>F. ASSUME UNCHANGED <<storedRecords, entries, currentIndex, writes, lastId>>,
               openForm' \in Form, formMode' \in {"view", "edit", "create"}, shifted' \in BOOLEAN, FormsInv'
        PROVE  PagerInv'
    BY <1>F DEF PagerInv, PagerTypeOK, EditsOwnRecord, IndexInList
  \* A step of the server leaves the page alone.
  <1>S. ASSUME storedRecords' \in Seq(Entry), lastId' \in 0..MaxId,
               UNCHANGED <<entries, currentIndex, formMode, openForm, shifted>>,
               writes' \in Seq(Submission), EditsOwnRecord'
        PROVE  PagerInv'
    BY <1>S DEF PagerInv, PagerTypeOK, FormsInv, IndexInList, currentEntry
  <1>P. ASSUME NEW typed \in RecordTexts, Prepend(typed)
        PROVE  storedRecords' \in Seq(Entry) /\ lastId' \in 0..MaxId
    <2>1. lastId' \in 0..MaxId /\ lastId + 1 \in RecordIds
      BY <1>0, <1>P DEF Prepend, RecordIds
    <2>2. <<[id |-> lastId + 1, text |-> typed, version |-> 1]>> \in Seq(Entry)
      BY <2>1 DEF Entry
    <2> QED  BY <1>0, <1>P, <2>1, <2>2, ConcatProperties DEF Prepend
  <1>1. CASE TurnRecord
    <2>1. currentIndex' \in Nat /\ currentIndex' < Len(entries) /\ formMode = "view"
          /\ UNCHANGED <<storedRecords, entries, formMode, openForm, writes, lastId, shifted>>
      BY <1>0, <1>1 DEF TurnRecord, Neighbours
    <2> QED  BY <2>1 DEF PagerInv, PagerTypeOK, FormsInv, EditsOwnRecord, IndexInList
  <1>2. CASE handleCreate
    BY <1>2, <1>F, FormsType DEF handleCreate, FormsInv
  <1>3. CASE StartEdit
    BY <1>3, <1>E, <1>F, FormsType DEF StartEdit, FormsInv, currentEntry
  <1>4. CASE TypeText
    <2>1. openForm' \in Form /\ openForm'.of = openForm.of
      BY <1>0, <1>4, TextChanges DEF TypeText
    <2> QED  BY <1>0, <1>4, <1>F, <2>1 DEF TypeText, FormsInv, currentEntry, PagerInv
  <1>5. CASE Cancel
    BY <1>0, <1>5, <1>F, FormsType DEF Cancel, FormsInv
  <1>6. CASE handleFormSubmit
    <2> DEFINE written(id, version) == [id |-> id, of |-> openForm.of, text |-> openForm.text,
                                     version |-> version, shifted |-> shifted]
    <2>1. PICK w \in Submission : writes' = Append(writes, w) /\ (w.id = w.of \/ w.shifted)
      <3>1. \A id \in RecordIds \cup {NewRecord}, v \in Nat : written(id, v) \in Submission
        BY <1>0, <1>6, FormsType DEF handleFormSubmit
      <3>2. CASE formMode = "create"
        <4>1. written(NewRecord, 0) \in Submission /\ openForm.of = NewRecord
          BY <3>1, <3>2 DEF PagerInv, FormsInv
        <4> QED  BY <1>6, <3>2, <4>1 DEF handleFormSubmit, handleFormViewSubmit
      <3>3. CASE formMode # "create"
        <4>1. formMode = "edit" /\ entries # <<>>
          BY <1>6, <3>3 DEF handleFormSubmit, FormOpen
        <4>2. currentEntry.id \in RecordIds /\ currentEntry.version \in Nat
          BY <1>E, <4>1 DEF Entry
        <4>3. written(currentEntry.id, currentEntry.version) \in Submission
          BY <3>1, <4>2
        <4>4. currentEntry.id = openForm.of \/ shifted
          BY <4>1 DEF PagerInv, FormsInv
        <4> QED  BY <1>6, <3>3, <4>3, <4>4 DEF handleFormSubmit, handleFormViewSubmit
      <3> QED  BY <3>2, <3>3
    <2>2. writes' \in Seq(Submission) /\ EditsOwnRecord'
      <3>1. /\ writes' \in Seq(Submission) /\ Len(writes') = Len(writes) + 1
            /\ \A i \in 1..Len(writes) + 1 : writes'[i] = IF i <= Len(writes) THEN writes[i] ELSE w
        BY <1>0, <2>1, AppendType
      <3> QED  BY <1>0, <2>1, <3>1 DEF PagerInv, EditsOwnRecord
    <2>3. /\ UNCHANGED <<storedRecords, entries, currentIndex, lastId, shifted>>
          /\ formMode' = "view" /\ openForm' \in Form
      BY <1>6, FormsType DEF handleFormSubmit
    <2> QED  BY <2>2, <2>3 DEF PagerInv, PagerTypeOK, FormsInv, IndexInList
  <1>7. CASE WriteAnswered
    <2> DEFINE updated(w) == [m \in DOMAIN storedRecords |->
                    IF storedRecords[m].id = w.id /\ storedRecords[m].version = w.version
                    THEN [storedRecords[m] EXCEPT !.text = w.text, !.version = @ + 1] ELSE storedRecords[m]]
    <2>1. PICK n \in DOMAIN writes :
            /\ writes' = RemoveAt(writes, n)
            /\ \/ Prepend(writes[n].text)
               \/ storedRecords' = updated(writes[n]) /\ UNCHANGED lastId
               \/ UNCHANGED <<storedRecords, lastId>>
      BY <1>7 DEF WriteAnswered
    <2>2. writes[n] \in Submission /\ n \in 1..Len(writes)
      BY <1>0
    <2>3. writes' \in Seq(Submission) /\ EditsOwnRecord'
      <3>1. /\ writes' \in Seq(Submission) /\ Len(writes') = Len(writes) - 1
            /\ \A i \in 1..Len(writes) - 1 : writes'[i] = IF i < n THEN writes[i] ELSE writes[i + 1]
        BY <1>0, <2>1, <2>2, RemoveAtType
      <3>2. ASSUME NEW i \in DOMAIN writes' PROVE \E k \in DOMAIN writes : writes'[i] = writes[k]
        <4>1. i \in 1..Len(writes) - 1 /\ n \in 1..Len(writes) /\ i \in DOMAIN writes /\ i + 1 \in DOMAIN writes
          BY <1>0, <2>2, <3>1
        <4> QED  BY <3>1, <4>1
      <3> QED  BY <3>1, <3>2 DEF PagerInv, EditsOwnRecord
    <2>T. writes[n].text \in RecordTexts
      BY <2>2 DEF Submission
    <2>4. storedRecords' \in Seq(Entry) /\ lastId' \in 0..MaxId
      <3>1. CASE Prepend(writes[n].text)
        BY <1>P, <2>T, <3>1
      <3>2. CASE storedRecords' = updated(writes[n]) /\ UNCHANGED lastId
        <4>1. ASSUME NEW m \in DOMAIN storedRecords PROVE storedRecords'[m] \in Entry
          <5>1. storedRecords[m] \in Entry
            BY <1>0
          <5>2. [storedRecords[m] EXCEPT !.text = writes[n].text, !.version = @ + 1] \in Entry
            BY <2>T, <5>1, TextChanges
          <5> QED  BY <3>2, <5>1, <5>2
        <4> HIDE DEF updated
        <4>2. DOMAIN storedRecords = 1..Len(storedRecords) /\ Len(storedRecords) \in Nat
          BY <1>0
        <4>3. storedRecords' = [m \in 1..Len(storedRecords) |-> storedRecords'[m]]
          BY <3>2, <4>2 DEF updated
        <4>4. storedRecords' \in Seq(Entry)
          BY <4>1, <4>2, <4>3, IsASeq
        <4> QED  BY <1>0, <3>2, <4>4
      <3> QED  BY <1>0, <2>1, <3>1, <3>2
    <2> QED  BY <1>7, <1>S, <2>3, <2>4 DEF WriteAnswered
  <1>8. CASE SomebodyWrites
    <2>1. storedRecords' \in Seq(Entry) /\ lastId' \in 0..MaxId
      <3>1. CASE \E v \in RecordTexts : Prepend(v)
        BY <1>P, <3>1
      <3>2. ASSUME NEW n \in DOMAIN storedRecords, storedRecords' = RemoveAt(storedRecords, n), UNCHANGED lastId
            PROVE  storedRecords' \in Seq(Entry) /\ lastId' \in 0..MaxId
        <4>1. n \in 1..Len(storedRecords)
          BY <1>0
        <4> QED  BY <1>0, <3>2, <4>1, RemoveAtType
      <3>3. ASSUME NEW n \in DOMAIN storedRecords, NEW v \in RecordTexts, UNCHANGED lastId,
                   storedRecords' = [storedRecords EXCEPT ![n].text = v, ![n].version = @ + 1]
            PROVE  storedRecords' \in Seq(Entry) /\ lastId' \in 0..MaxId
        <4>1. n \in 1..Len(storedRecords) /\ storedRecords[n] \in Entry
          BY <1>0
        <4> DEFINE rewritten == [storedRecords[n] EXCEPT !.text = v, !.version = @ + 1]
        <4>2. storedRecords' = [storedRecords EXCEPT ![n] = rewritten]
          BY <1>0, <3>3
        <4>3. rewritten \in Entry
          BY <4>1, TextChanges
        <4> HIDE DEF rewritten
        <4>4. storedRecords' \in Seq(Entry)
          BY <1>0, <4>1, <4>2, <4>3, ExceptSeq
        <4> QED  BY <1>0, <3>3, <4>4
      <3> QED  BY <1>8, <3>1, <3>2, <3>3 DEF SomebodyWrites
    <2>2. EditsOwnRecord' /\ writes' = writes
      BY <1>8 DEF SomebodyWrites, PagerInv, EditsOwnRecord
    <2> QED  BY <1>8, <1>S, <1>0, <2>1, <2>2 DEF SomebodyWrites
  <1>9. CASE RefetchEntries
    <2>1. entries' = storedRecords /\ entries' # entries /\ UNCHANGED <<storedRecords, formMode, writes, lastId>>
      BY <1>9 DEF RefetchEntries, ShowEntries
    <2>2. currentIndex' \in Nat /\ IndexInList'
      <3>1. currentIndex' = IF storedRecords # <<>> /\ currentIndex >= Len(storedRecords)
                            THEN Len(storedRecords) - 1 ELSE currentIndex
        BY <1>9 DEF RefetchEntries, ShowEntries
      <3>2. Len(storedRecords) \in Nat /\ (storedRecords # <<>> => Len(storedRecords) > 0)
        BY <1>0
      <3> QED  BY <1>0, <2>1, <3>1, <3>2 DEF IndexInList
    <2>3. openForm' \in Form
      <3>1. CASE formMode = "edit" /\ entries = <<>>
        <4>1. openForm' = [of |-> storedRecords[1].id, text |-> storedRecords[1].text]
          BY <1>9, <3>1 DEF RefetchEntries
        <4>2. storedRecords # <<>>
          BY <2>1, <3>1
        <4>3. storedRecords[1] \in Entry
          BY <1>0, <4>2
        <4> QED  BY <4>1, <4>3, FormsType
      <3>2. CASE ~(formMode = "edit" /\ entries = <<>>)
        BY <1>0, <1>9, <3>2, FormsType DEF RefetchEntries
      <3> QED  BY <3>1, <3>2
    <2>4. shifted' = (formMode = "edit" /\ storedRecords # <<>> /\ openForm'.of # storedRecords[currentIndex' + 1].id)
      BY <1>9 DEF RefetchEntries
    <2>5. formMode = "create" => openForm' = openForm
      BY <1>9 DEF RefetchEntries
    <2>6. formMode = "edit" /\ storedRecords # <<>> =>
            storedRecords[currentIndex' + 1].id = openForm'.of \/ shifted'
      BY <2>4, Zenon
    <2>7. FormsInv'
      BY <2>1, <2>5, <2>6 DEF FormsInv, currentEntry, PagerInv
    <2>8. shifted' \in BOOLEAN
      BY <2>4, Zenon
    <2> QED  BY <1>0, <2>1, <2>2, <2>3, <2>7, <2>8 DEF PagerInv, PagerTypeOK, EditsOwnRecord
  <1>10. CASE UNCHANGED pagerVars
    BY <1>10 DEF pagerVars, PagerInv, PagerTypeOK, FormsInv, EditsOwnRecord, IndexInList, currentEntry
  <1> QED  BY <1>1, <1>2, <1>3, <1>4, <1>5, <1>6, <1>7, <1>8, <1>9, <1>10 DEF PagerNext

-----------------------------------------------------------------------------
(* The record page: one record is made, and the errors shown are those of the form *)

Creates == {r \in FormRequest : r.create}

\* A request under way that makes a record and keeps the button disabled.
Creating == \E n \in DOMAIN calls : calls[n].latest /\ calls[n].create

\* Requests that make records are counted before they are answered: a page that shows
\* its form and waits for none of them has not sent its first one yet, and a page that
\* shows a record has none.
CreateInv ==
    /\ created + Count(calls, Creates) <= 1 + again
    /\ ~leftPage /\ ~Creating => created + Count(calls, Creates) <= again
    /\ ~isNew => created = 0 /\ Count(calls, Creates) = 0 /\ ~toastRetry.create

\* The form of a record has its status, and only a new one is filled in by a guess.
FormInv ==
    /\ ErrorsAreReal
    /\ ~isNew => data[StatusInput] # "" /\ ~prefilling

EditorInv == EditorTypeOK /\ CreateInv /\ FormInv

\* A record with another value in one input.
Put(r, f, v) == [r EXCEPT ![f] = v]

LEMMA RecordChanges ==
    /\ \A r \in Record, f \in Inputs : r[f] \in ValuesOf[f] \cup {""}
    /\ \A r \in Record, f \in Inputs : \A v \in ValuesOf[f] \cup {""} :
          /\ Put(r, f, v) \in Record
          /\ Put(r, f, v)[f] = v
          /\ \A g \in Inputs \ {f} : Put(r, f, v)[g] = r[g]
    /\ Blank \in Record /\ \A f \in Inputs : Blank[f] = ""
  <1>1. ASSUME NEW r \in Record, NEW f \in Inputs, NEW v \in ValuesOf[f] \cup {""}
        PROVE  /\ Put(r, f, v) \in Record
               /\ Put(r, f, v)[f] = v
               /\ \A g \in Inputs \ {f} : Put(r, f, v)[g] = r[g]
    <2>1. r \in [Inputs -> (UNION {ValuesOf[g] : g \in Inputs}) \cup {""}]
          /\ \A g \in Inputs : r[g] \in ValuesOf[g] \cup {""}
      BY DEF Record
    <2>2. v \in (UNION {ValuesOf[g] : g \in Inputs}) \cup {""}
      OBVIOUS
    <2> QED  BY <2>1, <2>2 DEF Record, Put
  <1>2. Blank \in Record /\ \A f \in Inputs : Blank[f] = ""
    BY DEF Blank, Record
  <1>3. \A r \in Record, f \in Inputs : r[f] \in ValuesOf[f] \cup {""}
    BY DEF Record
  <1> QED  BY <1>1, <1>2, <1>3

LEMMA RequestType ==
    /\ NoRetry \in FormRequest /\ ~NoRetry.create
    /\ \A r \in FormRequest :
          /\ [r EXCEPT !.fresh = FALSE] \in FormRequest
          /\ [r EXCEPT !.fresh = FALSE].create = r.create
          /\ [r EXCEPT !.fresh = FALSE].latest = r.latest
          /\ [r EXCEPT !.latest = FALSE] \in FormRequest
          /\ [r EXCEPT !.latest = FALSE].create = r.create
          /\ ~[r EXCEPT !.latest = FALSE].latest
          /\ r.data \in Record /\ r.create \in BOOLEAN /\ r.latest \in BOOLEAN
    /\ \A d \in Record, s \in SUBSET Relations, b \in BOOLEAN, c \in BOOLEAN :
          [create |-> c, data |-> d, raw |-> s, fresh |-> b, latest |-> TRUE] \in FormRequest
  <1>1. NoRetry \in FormRequest /\ ~NoRetry.create
    BY RecordChanges DEF NoRetry, FormRequest
  <1>2. ASSUME NEW r \in FormRequest
        PROVE  /\ [r EXCEPT !.fresh = FALSE] \in FormRequest
               /\ [r EXCEPT !.fresh = FALSE].create = r.create
               /\ [r EXCEPT !.fresh = FALSE].latest = r.latest
               /\ [r EXCEPT !.latest = FALSE] \in FormRequest
               /\ [r EXCEPT !.latest = FALSE].create = r.create
               /\ ~[r EXCEPT !.latest = FALSE].latest
               /\ r.data \in Record /\ r.create \in BOOLEAN /\ r.latest \in BOOLEAN
    BY DEF FormRequest
  <1>3. \A d \in Record, s \in SUBSET Relations, b \in BOOLEAN, c \in BOOLEAN :
          [create |-> c, data |-> d, raw |-> s, fresh |-> b, latest |-> TRUE] \in FormRequest
    BY DEF FormRequest
  <1> QED  BY <1>1, <1>2, <1>3

\* What a change of each request leaves alone keeps the number of those that create.
LEMMA SameCreates ==
    ASSUME NEW s \in Seq(FormRequest), NEW t \in Seq(FormRequest), Len(s) = Len(t),
           \A n \in 1..Len(s) : t[n].create = s[n].create
    PROVE  Count(t, Creates) = Count(s, Creates)
  <1>1. DOMAIN s = 1..Len(s) /\ DOMAIN t = 1..Len(s)
    BY LenProperties
  <1>2. \A n \in 1..Len(s) : s[n] \in FormRequest /\ t[n] \in FormRequest
    BY ElementOfSeq
  <1>3. {n \in DOMAIN t : t[n] \in Creates} = {n \in DOMAIN s : s[n] \in Creates}
    BY <1>1, <1>2 DEF Creates
  <1> QED  BY <1>3 DEF Count

LEMMA StaleType ==
    ASSUME NEW s \in Seq(FormRequest)
    PROVE  /\ Stale(s) \in Seq(FormRequest) /\ Len(Stale(s)) = Len(s)
           /\ Count(Stale(s), Creates) = Count(s, Creates)
           /\ \A n \in 1..Len(s) : /\ Stale(s)[n].create = s[n].create
                                   /\ Stale(s)[n].latest = s[n].latest
  <1>1. DOMAIN s = 1..Len(s) /\ Len(s) \in Nat /\ \A n \in 1..Len(s) : s[n] \in FormRequest
    BY LenProperties, ElementOfSeq
  <1>2. ASSUME NEW n \in 1..Len(s)
        PROVE  /\ Stale(s)[n] \in FormRequest /\ Stale(s)[n].create = s[n].create
               /\ Stale(s)[n].latest = s[n].latest
    BY <1>1, RequestType DEF Stale
  <1>3. Stale(s) = [n \in 1..Len(s) |-> Stale(s)[n]]
    BY <1>1 DEF Stale
  <1>4. Stale(s) \in Seq(FormRequest) /\ Len(Stale(s)) = Len(s)
    <2>1. [n \in 1..Len(s) |-> Stale(s)[n]] \in Seq(FormRequest)
      BY <1>1, <1>2, IsASeq
    <2>2. DOMAIN Stale(s) = 1..Len(s)
      BY <1>1 DEF Stale
    <2>3. Len(Stale(s)) \in Nat /\ DOMAIN Stale(s) = 1..Len(Stale(s))
      BY <1>3, <2>1, LenProperties
    <2> QED  BY <1>1, <1>3, <2>1, <2>2, <2>3
  <1>5. Count(Stale(s), Creates) = Count(s, Creates)
    BY <1>2, <1>4, SameCreates
  <1> QED  BY <1>2, <1>4, <1>5

\* Sending a request: it is the latest one, and counts if it creates.
LEMMA MutateType ==
    ASSUME calls \in Seq(FormRequest), NEW r, mutate(r),
           r.create \in BOOLEAN, r.data \in Record, r.raw \in SUBSET Relations, r.fresh \in BOOLEAN
    PROVE  /\ calls' \in Seq(FormRequest)
           /\ Count(calls', Creates) = Count(calls, Creates) + (IF r.create THEN 1 ELSE 0)
           /\ Creating' <=> r.create
  <1> DEFINE e == [create |-> r.create, data |-> r.data, raw |-> r.raw, fresh |-> r.fresh, latest |-> TRUE]
             old == [n \in DOMAIN calls |-> [calls[n] EXCEPT !.latest = FALSE]]
  <1>0. DOMAIN calls = 1..Len(calls) /\ Len(calls) \in Nat /\ \A n \in 1..Len(calls) : calls[n] \in FormRequest
    BY LenProperties, ElementOfSeq
  <1>1. e \in FormRequest
    BY RequestType
  <1>2. e.create = r.create /\ e.latest /\ (e \in Creates <=> r.create)
    BY <1>1 DEF Creates
  <1>3. ASSUME NEW n \in 1..Len(calls)
        PROVE  old[n] \in FormRequest /\ old[n].create = calls[n].create /\ ~old[n].latest
    BY <1>0, RequestType
  <1>4. calls' = Append(old, e)
    BY DEF mutate
  <1>5. old = [n \in 1..Len(calls) |-> old[n]] /\ DOMAIN old = 1..Len(calls)
    BY <1>0
  <1> HIDE DEF e, old
  <1>6. old \in Seq(FormRequest) /\ Len(old) = Len(calls)
    <2>1. [n \in 1..Len(calls) |-> old[n]] \in Seq(FormRequest)
      BY <1>0, <1>3, IsASeq
    <2>2. Len(old) \in Nat /\ DOMAIN old = 1..Len(old)
      BY <1>5, <2>1, LenProperties
    <2> QED  BY <1>0, <1>5, <2>1, <2>2
  <1>7. Count(old, Creates) = Count(calls, Creates)
    BY <1>3, <1>6, SameCreates
  <1>8. calls' \in Seq(FormRequest) /\ Len(calls') = Len(calls) + 1
        /\ \A n \in 1..Len(calls) + 1 : calls'[n] = IF n <= Len(calls) THEN old[n] ELSE e
    BY <1>1, <1>4, <1>6, AppendType
  <1>9. Count(calls', Creates) = Count(calls, Creates) + (IF r.create THEN 1 ELSE 0)
    BY <1>1, <1>2, <1>4, <1>6, <1>7, CountAppend
  <1>10. DOMAIN calls' = 1..Len(calls) + 1 /\ Len(calls) + 1 \in 1..Len(calls) + 1
         /\ calls'[Len(calls) + 1] = e
    BY <1>0, <1>8, LenProperties
  <1>11. Creating' <=> r.create
    <2>1. Creating' <=> \E n \in DOMAIN calls' : calls'[n].latest /\ calls'[n].create
      BY DEF Creating
    <2>2. r.create => Creating'
      BY <1>2, <1>10, <2>1
    <2>3. ASSUME NEW n \in 1..Len(calls) + 1, calls'[n].latest, calls'[n].create PROVE r.create
      BY <1>0, <1>2, <1>3, <1>8, <2>3
    <2> QED  BY <1>10, <2>1, <2>2, <2>3
  <1> QED  BY <1>8, <1>9, <1>11

\* Answering one: what was not the latest one does not become it.
LEMMA RemoveCall ==
    ASSUME calls \in Seq(FormRequest), NEW n \in DOMAIN calls
    PROVE  /\ calls[n] \in FormRequest
           /\ RemoveAt(calls, n) \in Seq(FormRequest)
           /\ Count(RemoveAt(calls, n), Creates) \in Nat /\ Count(calls, Creates) \in Nat
           /\ Count(calls, Creates) = Count(RemoveAt(calls, n), Creates)
                                       + (IF calls[n].create THEN 1 ELSE 0)
           /\ \A t \in Seq(FormRequest) :
                 Len(t) = Len(RemoveAt(calls, n))
                 /\ (\A k \in 1..Len(t) : t[k].create = RemoveAt(calls, n)[k].create
                                          /\ t[k].latest = RemoveAt(calls, n)[k].latest)
                 => (Creating => calls[n].create \/ \E k \in DOMAIN t : t[k].latest /\ t[k].create)
  <1>0. DOMAIN calls = 1..Len(calls) /\ Len(calls) \in Nat /\ \A k \in 1..Len(calls) : calls[k] \in FormRequest
    BY LenProperties, ElementOfSeq
  <1>1. n \in 1..Len(calls) /\ calls[n] \in FormRequest /\ (calls[n] \in Creates <=> calls[n].create)
    BY <1>0 DEF Creates
  <1> DEFINE rest == RemoveAt(calls, n)
  <1>2. rest \in Seq(FormRequest) /\ Len(rest) = Len(calls) - 1
        /\ \A i \in 1..Len(calls) - 1 : rest[i] = IF i < n THEN calls[i] ELSE calls[i + 1]
    BY <1>1, RemoveAtType
  <1>3. Count(calls, Creates) = Count(rest, Creates) + (IF calls[n].create THEN 1 ELSE 0)
    BY <1>1, CountRemoveAt
  <1>4. Count(rest, Creates) \in Nat /\ Count(calls, Creates) \in Nat
    BY <1>2, CountType
  <1> HIDE DEF rest
  <1>5. ASSUME NEW t \in Seq(FormRequest), Len(t) = Len(rest), Creating, ~calls[n].create,
               \A k \in 1..Len(t) : t[k].create = rest[k].create /\ t[k].latest = rest[k].latest
        PROVE  \E k \in DOMAIN t : t[k].latest /\ t[k].create
    <2>1. PICK k \in 1..Len(calls) : calls[k].latest /\ calls[k].create
      BY <1>0, <1>5 DEF Creating
    <2>2. DOMAIN t = 1..Len(calls) - 1
      BY <1>2, <1>5, LenProperties
    <2>3. k # n /\ k \in Int /\ n \in Int
      BY <1>0, <1>1, <1>5, <2>1
    <2>4. CASE k < n
      <3>1. k \in 1..Len(calls) - 1 /\ rest[k] = calls[k]
        BY SMTT(30), <1>0, <1>1, <1>2, <2>4
      <3> QED  BY <1>2, <1>5, <2>1, <2>2, <3>1
    <2>5. CASE k > n
      <3>1. k - 1 \in 1..Len(calls) - 1 /\ rest[k - 1] = calls[k]
        BY <1>0, <1>1, <1>2, <2>5
      <3> QED  BY <1>2, <1>5, <2>1, <2>2, <3>1
    <2> QED  BY <2>3, <2>4, <2>5
  <1> QED  BY <1>1, <1>2, <1>3, <1>4, <1>5 DEF rest

\* Setting a value does not make a marked input right, unless it is the file's.
LEMMA SetValueKeeps ==
    ASSUME EditorInv, NEW f \in Inputs, NEW v \in ValuesOf[f] \cup {""}, NEW sawError, setValue(f, v, sawError),
           f \in errors' => f = FileInput,
           f = StatusInput => v # ""
    PROVE  /\ data' \in Record /\ raw' \subseteq Relations /\ errors' \subseteq Inputs
           /\ ErrorsAreReal'
           /\ ~isNew => data'[StatusInput] # ""
  <1>0. data \in Record /\ errors \subseteq Inputs /\ raw \subseteq Relations /\ StatusInput \in Inputs
    BY EditorAssumption DEF EditorInv, EditorTypeOK
  <1>1. data' = Put(data, f, v) /\ raw' = raw \ {f} /\ errors' \subseteq errors
    BY DEF setValue, Put
  <1>2. data' \in Record /\ data'[f] = v /\ \A g \in Inputs \ {f} : data'[g] = data[g]
    <2>1. /\ Put(data, f, v) \in Record /\ Put(data, f, v)[f] = v
          /\ \A g \in Inputs \ {f} : Put(data, f, v)[g] = data[g]
      BY ZenonT(40), <1>0, RecordChanges
    <2> QED  BY <1>1, <2>1
  <1>3. ErrorsAreReal'
    <2> SUFFICES ASSUME NEW g \in errors', g # FileInput
                 PROVE  (g \in Required /\ data'[g] = "") \/ (g \in Numbers /\ data'[g] \in OutOfRange)
      BY DEF ErrorsAreReal, Empty
    <2>1. g # f /\ g \in errors /\ g \in Inputs
      BY <1>0, <1>1
    <2> QED  BY <1>2, <2>1 DEF EditorInv, FormInv, ErrorsAreReal, Empty
  <1>4. ~isNew => data'[StatusInput] # ""
    BY <1>0, <1>2 DEF EditorInv, FormInv
  <1> QED  BY <1>0, <1>1, <1>2, <1>3, <1>4

LEMMA EditorStarts == EditorInit => EditorInv
  <1> SUFFICES ASSUME EditorInit PROVE EditorInv
    OBVIOUS
  <1>1. row \in Record /\ row[StatusInput] # "" /\ Blank \in Record
    BY RecordChanges DEF EditorInit, Filled
  <1>2. data \in Record /\ (~isNew => data[StatusInput] # "")
    BY <1>1 DEF EditorInit
  <1>3. calls = <<>> /\ calls \in Seq(FormRequest) /\ toastRetry \in FormRequest /\ ~toastRetry.create
    BY RequestType DEF EditorInit
  <1>4. Count(calls, Creates) = 0
    <2>1. {n \in DOMAIN calls : calls[n] \in Creates} = {}
      BY <1>3
    <2> QED  BY <2>1, FS_EmptySet DEF Count
  <1>5. entry \in [values : Record, fresh : BOOLEAN, moved : BOOLEAN]
    BY <1>1 DEF EditorInit
  <1>6. 0 \in 0..MaxOthers /\ 0 \in 0..MaxLost
    <2>1. MaxOthers \in Nat /\ MaxLost \in Nat
      BY EditorAssumption, Zenon
    <2> QED  BY <2>1
  <1>7. EditorTypeOK
    BY <1>1, <1>2, <1>3, <1>5, <1>6 DEF EditorInit, EditorTypeOK, Expanded, NoUpload
  <1>8. CreateInv
    BY <1>3, <1>4 DEF EditorInit, CreateInv
  <1>9. FormInv
    BY <1>2 DEF EditorInit, FormInv, ErrorsAreReal
  <1> QED  BY <1>7, <1>8, <1>9 DEF EditorInv

LEMMA EditorStep == EditorInv /\ (EditorNext \/ UNCHANGED editVars) => EditorInv'
  <1> SUFFICES ASSUME EditorInv, EditorNext \/ UNCHANGED editVars PROVE EditorInv'
    OBVIOUS
  <1> DEFINE C == Count(calls, Creates)
             Counted == created' + C' <= 1 + again'
             Waiting == ~leftPage' /\ ~Creating' => created' + C' <= again'
             AfterOpening == ~isNew' => created' = 0 /\ C' = 0 /\ ~toastRetry'.create
  <1>0. /\ isNew \in BOOLEAN /\ computed \in BOOLEAN /\ stamped \in BOOLEAN /\ prefilling \in BOOLEAN
        /\ leftPage \in BOOLEAN /\ row \in Record /\ data \in Record /\ initialData \in Record
        /\ entry \in [values : Record, fresh : BOOLEAN, moved : BOOLEAN]
        /\ raw \subseteq Relations /\ errors \subseteq Inputs
        /\ upload \in {NoUpload, "saw error", "saw none"}
        /\ calls \in Seq(FormRequest) /\ toastRetry \in FormRequest
        /\ created \in Nat /\ again \in Nat /\ others \in 0..MaxOthers /\ lost \in 0..MaxLost
    BY DEF EditorInv, EditorTypeOK
  <1>T. entry \in [values : Record, fresh : BOOLEAN, moved : BOOLEAN] /\ row \in Record
    BY <1>0
  <1>U. [entry EXCEPT !.fresh = FALSE] \in [values : Record, fresh : BOOLEAN, moved : BOOLEAN]
    BY <1>T
  <1>W. \A r \in Record : [values |-> r, fresh |-> TRUE, moved |-> TRUE]
                            \in [values : Record, fresh : BOOLEAN, moved : BOOLEAN]
    OBVIOUS
  <1>N. /\ created \in Nat /\ again \in Nat /\ isNew \in BOOLEAN /\ leftPage \in BOOLEAN
        /\ MaxOthers \in Nat /\ MaxLost \in Nat /\ others \in 0..MaxOthers /\ lost \in 0..MaxLost
    <2>1. MaxOthers \in Nat /\ MaxLost \in Nat
      BY EditorAssumption, Zenon
    <2> QED  BY <1>0, <2>1
  <1>C. /\ C \in Nat /\ created + C <= 1 + again
        /\ (~leftPage /\ ~Creating => created + C <= again)
        /\ (~isNew => created = 0 /\ C = 0 /\ ~toastRetry.create)
    BY <1>0, CountType DEF EditorInv, CreateInv
  <1>F. ErrorsAreReal /\ (~isNew => data[StatusInput] # "" /\ ~prefilling)
    BY DEF EditorInv, FormInv
  <1>A. /\ StatusInput \in Inputs /\ FileInput \in Inputs /\ StatusInput \notin Relations
        /\ StatusInput \notin Numbers /\ StatusInput \notin TypedInputs
        /\ TypedInputs \subseteq Inputs /\ Relations \subseteq Inputs /\ Required \subseteq Inputs
        /\ \A f \in Inputs : "" \notin ValuesOf[f]
    BY EditorAssumption DEF TypedInputs
  \* The calls and their count stay.
  <1>S. ASSUME UNCHANGED callVars, leftPage' = leftPage \/ leftPage', isNew' = isNew \/ isNew'
        PROVE  CreateInv'
    <2>1. calls' = calls /\ toastRetry' = toastRetry /\ created' = created /\ again' = again
      BY <1>S DEF callVars
    <2>2. Creating' = Creating
      BY <2>1 DEF Creating
    <2> QED  BY <1>C, <1>S, <2>1, <2>2 DEF CreateInv
  \* Only the form's values change.
  <1>V. ASSUME UNCHANGED <<isNew, row, entry, initialData, stamped, prefilling, leftPage, callVars, outsideVars>>,
               upload' \in {NoUpload, "saw error", "saw none"},
               data' \in Record, raw' \subseteq Relations, errors' \subseteq Inputs, ErrorsAreReal',
               ~isNew => data'[StatusInput] # ""
        PROVE  EditorInv'
    <2>1. CreateInv'
      BY <1>S, <1>V
    <2>2. EditorTypeOK'
      BY <1>0, <1>V DEF EditorTypeOK, callVars, outsideVars
    <2>3. FormInv'
      BY <1>F, <1>V DEF FormInv
    <2> QED  BY <2>1, <2>2, <2>3 DEF EditorInv
  <1>1. CASE Edit
    <2>0. PICK f \in TypedInputs : \E v \in ValuesOf[f] \cup {""} : setValue(f, v, f \in errors)
      BY <1>1 DEF Edit
    <2>1. PICK v \in ValuesOf[f] \cup {""} : setValue(f, v, f \in errors)
      BY <2>0
    <2>2. f \notin errors' /\ f # StatusInput /\ f \in Inputs
      BY <2>1, <1>A DEF setValue
    <2> QED  BY <1>0, <1>1, <1>V, <2>1, <2>2, SetValueKeeps DEF Edit
  <1>2. CASE PickRecord
    <2>0. PICK f \in Relations : \E v \in ValuesOf[f] \cup {""} : setValue(f, v, f \in errors)
      BY <1>2 DEF PickRecord
    <2>1. PICK v \in ValuesOf[f] \cup {""} : setValue(f, v, f \in errors)
      BY <2>0
    <2>2. f \notin errors' /\ f # StatusInput /\ f \in Inputs
      BY <2>1, <1>A DEF setValue
    <2> QED  BY <1>0, <1>2, <1>V, <2>1, <2>2, SetValueKeeps DEF PickRecord
  <1>3. CASE TakeTransition
    <2>1. PICK t \in Transitions : setValue(StatusInput, t[2], FALSE)
      BY <1>3 DEF TakeTransition
    <2>2. t[2] \in ValuesOf[StatusInput] /\ t[2] # ""
      BY EditorAssumption, <1>A
    <2>3. StatusInput \notin errors' \/ StatusInput = FileInput
      <3>1. errors' = errors /\ ~isNew
        BY <1>3, <2>1 DEF TakeTransition, setValue
      <3> QED  BY <1>A, <1>F, <3>1 DEF ErrorsAreReal, Empty
    <2> QED  BY <1>0, <1>3, <1>V, <1>A, <2>1, <2>2, <2>3, SetValueKeeps DEF TakeTransition
  <1>4. CASE handleBlur
    <2>1. PICK f \in TypedInputs :
            errors' = IF (f \in Required /\ Empty(f)) \/ (f \in Numbers /\ data[f] \in OutOfRange)
                      THEN errors \cup {f} ELSE errors
      BY <1>4 DEF handleBlur
    <2>2. data' = data /\ raw' = raw /\ upload' = upload
      BY <1>4 DEF handleBlur
    <2>3. errors' \subseteq Inputs /\ ErrorsAreReal'
      BY <1>0, <1>A, <1>F, <2>1, <2>2 DEF ErrorsAreReal, Empty
    <2> QED  BY <1>0, <1>4, <1>F, <1>V, <2>2, <2>3 DEF handleBlur
  <1>5. CASE handleFile
    <2>1. ErrorsAreReal'
      BY <1>5, <1>F DEF handleFile, ErrorsAreReal, Empty
    <2> QED  BY <1>0, <1>5, <1>F, <1>V, <2>1 DEF handleFile
  <1>6. CASE FinishUpload
    <2>1. CASE \E v \in ValuesOf[FileInput] : setValue(FileInput, v, upload = "saw error")
      <3>1. PICK v \in ValuesOf[FileInput] : setValue(FileInput, v, upload = "saw error")
        BY <2>1
      <3>2. FileInput = StatusInput => v # ""
        BY <1>A
      <3> QED  BY <1>0, <1>6, <1>V, <1>A, <3>1, <3>2, SetValueKeeps DEF FinishUpload
    <2>2. CASE UNCHANGED <<data, raw, errors>>
      <3>1. ErrorsAreReal'
        BY <2>2, <1>F DEF ErrorsAreReal, Empty
      <3> QED  BY <1>0, <1>6, <1>F, <1>V, <2>2, <3>1 DEF FinishUpload
    <2> QED  BY <1>6, <2>1, <2>2 DEF FinishUpload
  \* A request of the form.
  <1>R. ASSUME SendForm, UNCHANGED <<isNew, data, created, again, toastRetry>>
        PROVE  /\ calls' \in Seq(FormRequest) /\ stamped' \in BOOLEAN
               /\ C' = C + (IF isNew THEN 1 ELSE 0)
               /\ Creating' <=> isNew
    <2> DEFINE r == [create |-> isNew, data |-> data, raw |-> raw, fresh |-> entry.fresh]
    <2>1. mutate(r) /\ stamped' = (~isNew /\ entry.moved)
      BY <1>R DEF SendForm
    <2>2. r.create = isNew /\ r.data = data /\ r.raw = raw /\ r.fresh = entry.fresh
          /\ entry.fresh \in BOOLEAN /\ entry.moved \in BOOLEAN
      BY <1>0
    <2>3. stamped' \in BOOLEAN
      BY <2>1, Zenon
    <2> HIDE DEF r
    <2> QED  BY <1>0, <2>1, <2>2, <2>3, MutateType
  <1>7. CASE handleSubmit
    <2>1. UNCHANGED <<isNew, row, entry, data, raw, initialData, upload, toastRetry, prefilling,
                      leftPage, created, again, outsideVars>>
      BY <1>7 DEF handleSubmit
    <2>2. errors' \subseteq Inputs /\ ErrorsAreReal'
      <3>1. CASE \E f \in Required : Empty(f)
        <4>1. errors' = {f \in Required : Empty(f)}
          BY <1>7, <3>1 DEF handleSubmit
        <4> QED  BY <1>A, <2>1, <4>1 DEF ErrorsAreReal, Empty
      <3>2. CASE ~\E f \in Required : Empty(f)
        <4>1. errors' = errors
          BY <1>7, <3>2 DEF handleSubmit
        <4> QED  BY <1>0, <1>F, <2>1, <4>1 DEF ErrorsAreReal, Empty
      <3> QED  BY <3>1, <3>2
    <2>3. CASE UNCHANGED <<calls, stamped>>
      <3>1. CreateInv'
        BY <1>S, <2>1, <2>3 DEF callVars
      <3>2. EditorTypeOK'
        BY <1>0, <2>1, <2>2, <2>3 DEF EditorTypeOK, outsideVars
      <3> QED  BY <1>F, <2>1, <2>2, <3>1, <3>2 DEF EditorInv, FormInv
    <2>4. CASE SendForm
      <3>1. /\ calls' \in Seq(FormRequest) /\ stamped' \in BOOLEAN
            /\ C' = C + (IF isNew THEN 1 ELSE 0)
            /\ Creating' <=> isNew
        BY <1>R, <2>1, <2>4
      <3>2. ~leftPage /\ ~Creating
        BY <1>7 DEF handleSubmit, submitting, Creating
      <3>3. Counted /\ Waiting /\ AfterOpening
        <4> HIDE DEF C
        <4> QED  BY <1>N, <1>C, <2>1, <3>1, <3>2
      <3>4. EditorTypeOK'
        BY <1>0, <2>1, <2>2, <3>1 DEF EditorTypeOK, outsideVars
      <3> QED  BY <1>F, <2>1, <2>2, <3>3, <3>4 DEF EditorInv, FormInv, CreateInv
    <2> QED  BY <1>7, <2>3, <2>4 DEF handleSubmit
  <1>8. CASE Autosave
    <2>1. UNCHANGED <<isNew, row, entry, data, raw, initialData, errors, upload, toastRetry, prefilling,
                      leftPage, created, again, outsideVars>> /\ ~isNew /\ SendForm
      BY <1>8 DEF Autosave
    <2>2. /\ calls' \in Seq(FormRequest) /\ stamped' \in BOOLEAN
          /\ C' = C + (IF isNew THEN 1 ELSE 0)
      BY <1>R, <2>1
    <2>3. Counted /\ Waiting /\ AfterOpening
      <3> HIDE DEF C
      <3> QED  BY <1>N, <1>C, <2>1, <2>2
    <2>4. EditorTypeOK'
      BY <1>0, <2>1, <2>2 DEF EditorTypeOK, outsideVars
    <2>5. ErrorsAreReal'
      BY <1>F, <2>1 DEF ErrorsAreReal, Empty
    <2> QED  BY <1>F, <2>1, <2>3, <2>4, <2>5 DEF EditorInv, FormInv, CreateInv
  \* The end of a request.
  <1>E. ASSUME NEW n \in DOMAIN calls, NEW r, r = calls[n],
               calls' = RemoveAt(calls, n) \/ calls' = Stale(RemoveAt(calls, n))
        PROVE  /\ calls' \in Seq(FormRequest) /\ r \in FormRequest /\ C' \in Nat
               /\ (r.create => C' + 1 <= C) /\ (~r.create => C' = C)
               /\ Creating => r.create \/ Creating'
    <2> DEFINE t == RemoveAt(calls, n)
    <2>1. /\ t \in Seq(FormRequest) /\ r \in FormRequest /\ Count(t, Creates) \in Nat
          /\ C = Count(t, Creates) + (IF r.create THEN 1 ELSE 0)
      BY <1>0, <1>E, RemoveCall
    <2>2. /\ calls' \in Seq(FormRequest) /\ Len(calls') = Len(t) /\ C' = Count(t, Creates)
          /\ \A k \in 1..Len(calls') : calls'[k].create = t[k].create /\ calls'[k].latest = t[k].latest
      <3> HIDE DEF t
      <3>1. /\ Stale(t) \in Seq(FormRequest) /\ Len(Stale(t)) = Len(t)
            /\ Count(Stale(t), Creates) = Count(t, Creates)
            /\ \A k \in 1..Len(t) : Stale(t)[k].create = t[k].create /\ Stale(t)[k].latest = t[k].latest
        BY <2>1, StaleType
      <3>2. calls' = t \/ calls' = Stale(t)
        BY <1>E DEF t
      <3> QED  BY <2>1, <3>1, <3>2
    <2>3. Creating => r.create \/ Creating'
      BY <1>0, <1>E, <2>2, RemoveCall DEF Creating
    <2>4. (r.create => C' + 1 <= C) /\ (~r.create => C' = C)
      <3> HIDE DEF t
      <3>1. CASE r.create
        BY <2>1, <2>2, <3>1
      <3>2. CASE ~r.create
        <4>1. C = Count(t, Creates) + 0
          BY <2>1, <3>2
        <4> HIDE DEF C
        <4> QED  BY <2>1, <2>2, <3>2, <4>1
      <3> QED  BY <3>1, <3>2
    <2> QED  BY <2>1, <2>2, <2>3, <2>4
  <1>9. CASE Accepted
    <2>1. PICK n \in DOMAIN calls :
            LET r == calls[n] IN
            /\ Accepts(r)
            /\ IF r.create
               THEN /\ created' = created + 1 /\ leftPage' = TRUE
                    /\ calls' = RemoveAt(calls, n)
                    /\ UNCHANGED <<row, entry, toastRetry>>
               ELSE /\ row' = r.data
                    /\ entry' = [values |-> row', fresh |-> TRUE, moved |-> TRUE]
                    /\ calls' = Stale(RemoveAt(calls, n))
                    /\ toastRetry' = [toastRetry EXCEPT !.fresh = FALSE]
                    /\ UNCHANGED <<created, leftPage>>
      BY <1>9 DEF Accepted
    <2> DEFINE r == calls[n]
    <2>2. UNCHANGED <<isNew, data, raw, initialData, stamped, errors, upload, prefilling, again, outsideVars>>
      BY <1>9 DEF Accepted
    <2>3. /\ calls' \in Seq(FormRequest) /\ r \in FormRequest /\ C' \in Nat
          /\ (r.create => C' + 1 <= C) /\ (~r.create => C' = C)
          /\ Creating => r.create \/ Creating'
      BY <1>E, <2>1
    <2>4. /\ row' \in Record /\ toastRetry' \in FormRequest /\ toastRetry'.create = toastRetry.create
          /\ created' \in Nat /\ leftPage' \in BOOLEAN
      <3>1. CASE r.create
        <4>1. created' = created + 1 /\ leftPage' = TRUE /\ row' = row /\ toastRetry' = toastRetry
          BY <2>1, <3>1
        <4>2. toastRetry \in FormRequest
          BY <1>0
        <4> HIDE DEF r
        <4> QED  BY <1>T, <1>N, <4>1, <4>2
      <3>2. CASE ~r.create
        <4>1. /\ row' = r.data /\ toastRetry' = [toastRetry EXCEPT !.fresh = FALSE]
              /\ UNCHANGED <<created, leftPage>> /\ r.data \in Record
          BY <2>1, <2>3, <3>2, RequestType
        <4>2. [toastRetry EXCEPT !.fresh = FALSE] \in FormRequest
              /\ [toastRetry EXCEPT !.fresh = FALSE].create = toastRetry.create
          BY <1>0, RequestType
        <4> HIDE DEF r
        <4> QED  BY <1>N, <4>1, <4>2
      <3> QED  BY <3>1, <3>2
    <2>8. entry' \in [values : Record, fresh : BOOLEAN, moved : BOOLEAN]
      <3>1. entry' = entry \/ entry' = [values |-> row', fresh |-> TRUE, moved |-> TRUE]
        BY <2>1
      <3> QED  BY <1>T, <1>W, <2>4, <3>1, Zenon
    <2>5. Counted /\ Waiting /\ AfterOpening
      <3> HIDE DEF C
      <3>1. CASE r.create
        BY <1>N, <1>C, <2>1, <2>2, <2>3, <2>4, <3>1
      <3>2. CASE ~r.create
        BY <1>N, <1>C, <2>1, <2>2, <2>3, <2>4, <3>2
      <3> QED  BY <3>1, <3>2
    <2>6. EditorTypeOK'
      BY <1>0, <2>2, <2>3, <2>4, <2>8 DEF EditorTypeOK, outsideVars
    <2>7. ErrorsAreReal'
      BY <1>F, <2>2 DEF ErrorsAreReal, Empty
    <2> QED  BY <1>F, <2>2, <2>5, <2>6, <2>7 DEF EditorInv, FormInv, CreateInv
  <1>10. CASE Refused
    <2>1. PICK n \in DOMAIN calls :
            LET r == calls[n] IN
            /\ calls' = RemoveAt(calls, n)
            /\ IF Valid(r) /\ Permitted(r)
               THEN entry' = [values |-> row, fresh |-> TRUE, moved |-> TRUE] /\ UNCHANGED toastRetry
               ELSE toastRetry' = r /\ UNCHANGED entry
      BY <1>10 DEF Refused
    <2> DEFINE r == calls[n]
    <2>2. UNCHANGED <<isNew, row, data, raw, initialData, stamped, errors, upload, prefilling, leftPage,
                      created, again, outsideVars>>
      BY <1>10 DEF Refused
    <2>3. /\ calls' \in Seq(FormRequest) /\ r \in FormRequest /\ C' \in Nat
          /\ (r.create => C' + 1 <= C) /\ (~r.create => C' = C)
          /\ Creating => r.create \/ Creating'
      BY <1>E, <2>1
    <2>4. toastRetry' = toastRetry \/ toastRetry' = r
      BY <2>1
    <2>7. toastRetry' \in FormRequest /\ toastRetry \in FormRequest
      BY <1>0, <2>3, <2>4
    <2>8. entry' \in [values : Record, fresh : BOOLEAN, moved : BOOLEAN]
      <3>1. entry' = entry \/ entry' = [values |-> row, fresh |-> TRUE, moved |-> TRUE]
        BY <2>1
      <3> QED  BY <1>T, <1>W, <3>1, Zenon
    <2>5. Counted /\ Waiting /\ AfterOpening
      <3> HIDE DEF C
      <3>1. r.create \in BOOLEAN
        BY <2>3, RequestType
      <3>2. toastRetry'.create = toastRetry.create \/ toastRetry'.create = r.create
        BY <2>4
      <3>3. CASE r.create
        BY <1>N, <1>C, <2>2, <2>3, <3>1, <3>3
      <3>4. CASE ~r.create
        BY <1>N, <1>C, <2>2, <2>3, <3>2, <3>4
      <3> QED  BY <3>3, <3>4
    <2>6. EditorTypeOK'
      BY <1>0, <2>2, <2>3, <2>7, <2>8 DEF EditorTypeOK, outsideVars
    <2>9. ErrorsAreReal'
      BY <1>F, <2>2 DEF ErrorsAreReal, Empty
    <2> QED  BY <1>F, <2>2, <2>5, <2>6, <2>9 DEF EditorInv, FormInv, CreateInv
  <1>11. CASE CallLost
    <2>1. PICK n \in DOMAIN calls :
            LET r == calls[n] IN
            \/ /\ calls' = RemoveAt(calls, n)
               /\ toastRetry' = r
               /\ UNCHANGED <<row, entry, created>>
            \/ /\ Accepts(r) /\ r.create
               /\ calls' = RemoveAt(calls, n)
               /\ toastRetry' = r /\ created' = created + 1
               /\ UNCHANGED <<row, entry>>
            \/ /\ Accepts(r) /\ ~r.create
               /\ calls' = Stale(RemoveAt(calls, n))
               /\ row' = r.data /\ entry' = [entry EXCEPT !.fresh = FALSE]
               /\ toastRetry' = [r EXCEPT !.fresh = FALSE]
               /\ UNCHANGED created
      BY <1>11 DEF CallLost
    <2> DEFINE r == calls[n]
    <2>2. /\ UNCHANGED <<isNew, computed, data, raw, initialData, stamped, errors, upload, prefilling, leftPage, others>>
          /\ again' = again + 1 /\ lost' = lost + 1 /\ lost < MaxLost
      BY <1>11 DEF CallLost
    <2>3. /\ calls' \in Seq(FormRequest) /\ r \in FormRequest /\ C' \in Nat
          /\ (r.create => C' + 1 <= C) /\ (~r.create => C' = C)
      <3>1. calls' = RemoveAt(calls, n) \/ calls' = Stale(RemoveAt(calls, n))
        BY <2>1
      <3> QED  BY <1>E, <3>1
    <2>R. /\ r.data \in Record /\ r.create \in BOOLEAN
          /\ [r EXCEPT !.fresh = FALSE] \in FormRequest /\ [r EXCEPT !.fresh = FALSE].create = r.create
      BY <2>3, RequestType
    <2>4. /\ toastRetry' \in FormRequest /\ toastRetry'.create = r.create
          /\ created' = created \/ (created' = created + 1 /\ r.create)
      <3>1. toastRetry' = r \/ toastRetry' = [r EXCEPT !.fresh = FALSE]
        BY <2>1
      <3>2. created' = created \/ (created' = created + 1 /\ r.create)
        BY <2>1, Zenon
      <3> QED  BY <2>3, <2>R, <3>1, <3>2
    <2>9. row' \in Record
      BY <1>0, <2>1, <2>R
    <2>10. entry' \in [values : Record, fresh : BOOLEAN, moved : BOOLEAN]
      <3>1. entry' = entry \/ entry' = [entry EXCEPT !.fresh = FALSE]
        BY <2>1
      <3> QED  BY <1>0, <3>1
    <2>5. Counted /\ Waiting /\ AfterOpening
      <3> HIDE DEF C, r
      <3>1. Counted
        BY SMTT(30), <1>N, <1>C, <2>2, <2>3, <2>R, <2>4
      <3>2. Waiting
        BY SMTT(30), <1>N, <1>C, <2>2, <2>3, <2>R, <2>4
      <3>3. AfterOpening
        BY <1>N, <1>C, <2>2, <2>3, <2>R, <2>4
      <3> QED  BY <3>1, <3>2, <3>3
    <2>6. lost' \in 0..MaxLost /\ again' \in Nat /\ created' \in Nat
      BY <1>N, <2>2, <2>4
    <2>7. EditorTypeOK'
      BY <1>0, <2>2, <2>3, <2>4, <2>6, <2>9, <2>10 DEF EditorTypeOK
    <2>8. ErrorsAreReal'
      BY <1>F, <2>2 DEF ErrorsAreReal, Empty
    <2> QED  BY <1>F, <2>2, <2>5, <2>7, <2>8 DEF EditorInv, FormInv, CreateInv
  <1>12. CASE retryToast
    <2>1. /\ mutate(toastRetry) /\ toastRetry' = NoRetry /\ again' = again + 1
          /\ UNCHANGED <<isNew, row, entry, data, raw, initialData, stamped, errors, upload, prefilling,
                   leftPage, created, outsideVars>>
      BY <1>12 DEF retryToast
    <2>2. /\ toastRetry.create \in BOOLEAN /\ toastRetry.data \in Record
          /\ toastRetry.raw \in SUBSET Relations /\ toastRetry.fresh \in BOOLEAN
      BY <1>0 DEF FormRequest
    <2>3. /\ calls' \in Seq(FormRequest)
          /\ C' = C + (IF toastRetry.create THEN 1 ELSE 0)
          /\ Creating' <=> toastRetry.create
      BY <1>0, <2>1, <2>2, MutateType
    <2>4. toastRetry' \in FormRequest /\ ~toastRetry'.create
      BY <2>1, RequestType
    <2>5. Counted /\ Waiting /\ AfterOpening
      <3> HIDE DEF C
      <3> QED  BY <1>N, <1>C, <2>1, <2>2, <2>3, <2>4
    <2>N. again' \in Nat
      BY <1>N, <2>1
    <2>6. EditorTypeOK'
      BY <1>0, <2>1, <2>3, <2>4, <2>N DEF EditorTypeOK, outsideVars
    <2>7. ErrorsAreReal'
      BY <1>F, <2>1 DEF ErrorsAreReal, Empty
    <2> QED  BY <1>F, <2>1, <2>5, <2>6, <2>7 DEF EditorInv, FormInv, CreateInv
  <1>13. CASE OtherUser
    <2>1. PICK f \in Inputs : \E v \in ValuesOf[f] : row' = Put(row, f, v)
      BY <1>13 DEF OtherUser, Put
    <2>2. row' \in Record
      <3>1. PICK v \in ValuesOf[f] : row' = Put(row, f, v)
        BY <2>1
      <3> QED  BY <1>0, <3>1, RecordChanges
    <2>3. /\ others < MaxOthers /\ others' = others + 1 /\ entry' = [entry EXCEPT !.fresh = FALSE]
          /\ calls' = Stale(calls) /\ toastRetry' = [toastRetry EXCEPT !.fresh = FALSE]
          /\ UNCHANGED <<isNew, computed, data, raw, initialData, stamped, errors, upload,
                   prefilling, leftPage, created, again, lost>>
      BY <1>13 DEF OtherUser
    <2>4. /\ calls' \in Seq(FormRequest) /\ C' = C /\ toastRetry' \in FormRequest
          /\ toastRetry'.create = toastRetry.create
      BY <1>0, <2>3, StaleType, RequestType
    <2>5. Creating => Creating'
      <3>1. DOMAIN calls = 1..Len(calls) /\ DOMAIN calls' = 1..Len(calls)
            /\ \A k \in 1..Len(calls) : calls'[k].create = calls[k].create /\ calls'[k].latest = calls[k].latest
        BY <1>0, <2>3, StaleType, LenProperties
      <3> QED  BY <3>1 DEF Creating
    <2>6. Counted /\ Waiting /\ AfterOpening
      <3> HIDE DEF C
      <3> QED  BY <1>N, <1>C, <2>3, <2>4, <2>5
    <2>7. others' \in 0..MaxOthers /\ entry' \in [values : Record, fresh : BOOLEAN, moved : BOOLEAN]
      <3>1. others' \in 0..MaxOthers
        BY <1>N, <2>3
      <3>2. entry' \in [values : Record, fresh : BOOLEAN, moved : BOOLEAN]
        BY <1>0, <2>3
      <3> QED  BY <3>1, <3>2
    <2>8. EditorTypeOK'
      BY <1>0, <2>2, <2>3, <2>4, <2>7 DEF EditorTypeOK
    <2>9. ErrorsAreReal'
      BY <1>F, <2>3 DEF ErrorsAreReal, Empty
    <2> QED  BY <1>F, <2>3, <2>6, <2>8, <2>9 DEF EditorInv, FormInv, CreateInv
  <1>14. CASE RefetchEntry
    <2>1. CreateInv'
      BY <1>S, <1>14 DEF RefetchEntry
    <2>2. EditorTypeOK'
      BY <1>0, <1>14 DEF RefetchEntry, EditorTypeOK, callVars, outsideVars
    <2>3. ErrorsAreReal'
      BY <1>F, <1>14 DEF RefetchEntry, ErrorsAreReal, Empty
    <2> QED  BY <1>F, <1>14, <2>1, <2>2, <2>3 DEF RefetchEntry, EditorInv, FormInv
  <1>15. CASE handleAIPrefill
    <2>1. CreateInv'
      BY <1>S, <1>15 DEF handleAIPrefill
    <2>2. EditorTypeOK'
      BY <1>0, <1>15 DEF handleAIPrefill, EditorTypeOK, callVars, outsideVars
    <2>3. ErrorsAreReal'
      BY <1>F, <1>15 DEF handleAIPrefill, ErrorsAreReal, Empty
    <2> QED  BY <1>F, <1>15, <2>1, <2>2, <2>3 DEF handleAIPrefill, EditorInv, FormInv
  \* A new form has no errors.
  <1>M. ASSUME NEW values \in Record, MountedWith(values)
        PROVE  /\ data' \in Record /\ initialData' \in Record /\ raw' \subseteq Relations /\ stamped' \in BOOLEAN
               /\ errors' \subseteq Inputs /\ upload' = NoUpload /\ ErrorsAreReal'
    BY <1>M DEF MountedWith, Expanded, ErrorsAreReal
  <1>16. CASE AnswerPrefill
    <2>1. prefilling /\ prefilling' = FALSE /\ UNCHANGED <<isNew, row, entry, leftPage, callVars, outsideVars>>
      BY <1>16 DEF AnswerPrefill
    <2>2. CreateInv'
      BY <1>S, <2>1
    <2>3. isNew' = isNew /\ isNew
      BY <1>F, <2>1
    <2>4. /\ data' \in Record /\ initialData' \in Record /\ raw' \subseteq Relations /\ stamped' \in BOOLEAN
          /\ errors' \subseteq Inputs /\ upload' \in {NoUpload, "saw error", "saw none"} /\ ErrorsAreReal'
      <3>1. CASE UNCHANGED <<data, raw, initialData, stamped, errors, upload>>
        BY <1>0, <1>F, <3>1 DEF ErrorsAreReal, Empty
      <3>2. ASSUME NEW f \in TypedInputs, NEW v \in ValuesOf[f], MountedWith([Blank EXCEPT ![f] = v])
            PROVE  /\ data' \in Record /\ initialData' \in Record /\ raw' \subseteq Relations /\ stamped' \in BOOLEAN
                   /\ errors' \subseteq Inputs /\ upload' = NoUpload /\ ErrorsAreReal'
        <4>1. [Blank EXCEPT ![f] = v] = Put(Blank, f, v)
          BY DEF Put
        <4>2. Put(Blank, f, v) \in Record
          BY <1>A, RecordChanges
        <4> QED  BY <1>M, <3>2, <4>1, <4>2
      <3> QED  BY <1>16, <3>1, <3>2 DEF AnswerPrefill
    <2>5. EditorTypeOK'
      BY <1>0, <2>1, <2>4 DEF EditorTypeOK, callVars, outsideVars
    <2> QED  BY <2>2, <2>3, <2>4, <2>5 DEF EditorInv, FormInv
  <1>17. CASE handleDuplicate
    <2>1. isNew' = TRUE /\ MountedWith(entry.values)
          /\ UNCHANGED <<row, entry, prefilling, leftPage, callVars, outsideVars>>
      BY <1>17 DEF handleDuplicate
    <2>2. CreateInv'
      BY <1>S, <2>1
    <2>3. entry.values \in Record
      BY <1>0
    <2>4. EditorTypeOK'
      BY <1>0, <1>M, <2>1, <2>3 DEF EditorTypeOK, callVars, outsideVars
    <2> QED  BY <1>M, <2>1, <2>2, <2>3, <2>4 DEF EditorInv, FormInv
  <1>18. CASE goBack
    <2>1. CreateInv'
      BY <1>S, <1>18 DEF goBack
    <2>2. EditorTypeOK'
      BY <1>0, <1>18 DEF goBack, EditorTypeOK, callVars, outsideVars
    <2>3. ErrorsAreReal'
      BY <1>F, <1>18 DEF goBack, ErrorsAreReal, Empty
    <2> QED  BY <1>F, <1>18, <2>1, <2>2, <2>3 DEF goBack, EditorInv, FormInv
  <1>19. CASE UNCHANGED editVars
    <2>1. CreateInv'
      BY <1>S, <1>19 DEF editVars, callVars
    <2>2. EditorTypeOK'
      BY <1>0, <1>19 DEF editVars, EditorTypeOK
    <2>3. ErrorsAreReal'
      BY <1>F, <1>19 DEF editVars, ErrorsAreReal, Empty
    <2> QED  BY <1>F, <1>19, <2>1, <2>2, <2>3 DEF editVars, EditorInv, FormInv
  <1> QED  BY <1>1, <1>2, <1>3, <1>4, <1>5, <1>6, <1>7, <1>8, <1>9, <1>10, <1>11, <1>12, <1>13, <1>14,
              <1>15, <1>16, <1>17, <1>18, <1>19 DEF EditorNext

LEMMA EditorMeans == EditorInv => CreatedOnce /\ ErrorsAreReal
  <1> SUFFICES ASSUME EditorInv  PROVE  CreatedOnce /\ ErrorsAreReal
    OBVIOUS
  <1>1. ErrorsAreReal
    BY DEF EditorInv, FormInv
  <1>2. created \in Nat /\ again \in Nat /\ calls \in Seq(FormRequest)
    BY DEF EditorInv, EditorTypeOK
  <1>3. Count(calls, Creates) \in Nat
    BY <1>2, CountType
  <1>4. CreatedOnce
    BY <1>2, <1>3 DEF EditorInv, CreateInv, CreatedOnce
  <1> QED  BY <1>1, <1>4

-----------------------------------------------------------------------------
(* The cache of records *)

\* Who patched rows of some data.
Ghosts(d) == d.temps \cup UNION {d.rows[i].by : i \in DOMAIN d.rows}

\* Something on its way will invalidate every query.
Dirty == Pending # {} \/ \E n \in DOMAIN events : events[n] = "other"

\* What the cache holds of a query, and what comes for it, is what the server would
\* answer now, unless the query is marked or will be.
UpToDate(k) ==
    /\ cache[k] = Answer(k) \/ cache[k] = NoData \/ k \in stale \/ Dirty
    /\ fetch[k].st = "answered" => fetch[k].data = Answer(k) \/ fetch[k].late \/ Dirty

\* What the screen needs it has asked for.
ScreenAsks == mounted \in stale \/ cache[mounted] = NoData => InFlight(mounted) \/ Dirty

FreshInv == ~excused => (\A k \in Keys : UpToDate(k)) /\ ScreenAsks

\* Patches of settled calls are left in marked queries only, and no answer has any.
GhostInv ==
    \A k \in Keys : /\ \A c \in Ghosts(cache[k]) : c \in Pending \/ k \in stale
                    /\ fetch[k].st = "answered" => Ghosts(fetch[k].data) = {}

SnapInv == \A c \in Pending : call[c].snap \in [Keys -> Data]

CacheInv == CacheTypeOK /\ SnapInv /\ GhostInv /\ FreshInv

LEMMA CacheConstants ==
    /\ Detail \in Keys /\ Opened \in Ids /\ Lists \subseteq Keys /\ Boards \subseteq Keys
    /\ Absent \in RowVersion /\ MaxVer \in Nat /\ MaxMoves \in Nat /\ MaxFaults \in Nat
  <1>1. Absent \in RowVersion
    BY CacheAssumption DEF RowVersion, Absent
  <1> QED  BY <1>1, CacheAssumption DEF Keys

LEMMA NoDataType == NoData \in Data /\ Ghosts(NoData) = {} /\ DOMAIN NoData.rows = {}
  <1>1. NoData.rows = <<>> /\ NoData.temps = {}
    BY DEF NoData
  <1>2. DOMAIN NoData.rows = {}
    BY <1>1
  <1>3. Ghosts(NoData) = {}
    BY <1>1, <1>2 DEF Ghosts
  <1> QED  BY <1>2, <1>3 DEF Data

LEMMA FetchType == Idle \in Fetch /\ Sent \in Fetch /\ Idle.st = "none" /\ Sent.st = "sent"
  BY NoDataType DEF Idle, Sent, Fetch

LEMMA AnswerType ==
    ASSUME server \in [Ids -> Deleted..MaxVer], NEW k
    PROVE  Answer(k) \in Data /\ Ghosts(Answer(k)) = {} /\ Answer(k) # NoData
  <1> DEFINE rowAt(i) == [ver |-> IF Held(k, i) /\ server[i] >= 0 THEN server[i] ELSE Absent, by |-> {}]
  <1>1. \A i \in Ids : rowAt(i) \in Row /\ rowAt(i).by = {}
    <2>1. ASSUME NEW i \in Ids PROVE (IF Held(k, i) /\ server[i] >= 0 THEN server[i] ELSE Absent) \in RowVersion
      BY CacheAssumption DEF RowVersion, Absent, Deleted
    <2> QED  BY <2>1 DEF Row
  <1> HIDE DEF rowAt
  <1>2. Answer(k) = [rows |-> [i \in Ids |-> rowAt(i)], temps |-> {}]
    BY DEF Answer, rowAt
  <1>3. Answer(k).rows = [i \in Ids |-> rowAt(i)] /\ Answer(k).temps = {}
    BY <1>2
  <1>4. Answer(k) \in Data
    BY <1>1, <1>2 DEF Data
  <1>5. Ghosts(Answer(k)) = {}
    BY <1>1, <1>3 DEF Ghosts
  <1>6. DOMAIN Answer(k).rows = Ids
    BY <1>3
  <1> QED  BY <1>4, <1>5, <1>6, NoDataType, CacheAssumption

\* A patch keeps the type and adds the call that makes it.
LEMMA PatchedType ==
    ASSUME NEW d \in Data, NEW c \in Calls, NEW on \in SUBSET Ids,
           NEW op \in {"create", "update", "batch", "delete", "bulkDelete"}
    PROVE  Patched(d, c, op, on) \in Data /\ Ghosts(Patched(d, c, op, on)) \subseteq Ghosts(d) \cup {c}
  <1>1. CASE d = NoData
    BY <1>1 DEF Patched
  <1>2. CASE d # NoData
    <2>1. d \in [rows : [Ids -> Row], temps : SUBSET Calls]
      BY <1>2 DEF Data
    <2>2. d.rows \in [Ids -> Row] /\ d.temps \in SUBSET Calls /\ \A i \in Ids : d.rows[i] \in Row
      BY <2>1
    <2>3. CASE op = "create"
      <3>1. Patched(d, c, op, on) = [d EXCEPT !.temps = @ \cup {c}]
        BY <1>2, <2>3 DEF Patched
      <3>2. Patched(d, c, op, on) \in Data
        BY <2>1, <3>1 DEF Data
      <3>3. /\ Patched(d, c, op, on).rows = d.rows
            /\ Patched(d, c, op, on).temps = d.temps \cup {c}
        BY <2>1, <3>1
      <3> QED  BY <3>2, <3>3 DEF Ghosts
    <2>4. CASE op \in {"update", "batch"}
      <3> DEFINE rowAt(i) == IF i \in on /\ d.rows[i].ver # Absent
                           THEN MarkedRow(d.rows[i], c) ELSE d.rows[i]
      <3>1. Patched(d, c, op, on) = [d EXCEPT !.rows = [i \in Ids |-> rowAt(i)]]
        BY <1>2, <2>4 DEF Patched
      <3>2. \A i \in Ids : rowAt(i) \in Row /\ rowAt(i).by \subseteq d.rows[i].by \cup {c}
        BY <2>2 DEF Row, MarkedRow
      <3> HIDE DEF rowAt
      <3>3. Patched(d, c, op, on) \in Data
        BY <2>1, <3>1, <3>2 DEF Data
      <3>4. Patched(d, c, op, on).rows = [i \in Ids |-> rowAt(i)] /\ Patched(d, c, op, on).temps = d.temps
        BY <2>1, <3>1
      <3> QED  BY <2>2, <3>2, <3>3, <3>4 DEF Ghosts
    <2>5. CASE op \in {"delete", "bulkDelete"}
      <3> DEFINE rowAt(i) == IF i \in on THEN [ver |-> Absent, by |-> d.rows[i].by \cup {c}] ELSE d.rows[i]
      <3>1. Patched(d, c, op, on) = [d EXCEPT !.rows = [i \in Ids |-> rowAt(i)]]
        BY <1>2, <2>5 DEF Patched
      <3>2. \A i \in Ids : rowAt(i) \in Row /\ rowAt(i).by \subseteq d.rows[i].by \cup {c}
        BY <2>2, CacheConstants DEF Row
      <3> HIDE DEF rowAt
      <3>3. Patched(d, c, op, on) \in Data
        BY <2>1, <3>1, <3>2 DEF Data
      <3>4. Patched(d, c, op, on).rows = [i \in Ids |-> rowAt(i)] /\ Patched(d, c, op, on).temps = d.temps
        BY <2>1, <3>1
      <3> QED  BY <2>2, <3>2, <3>3, <3>4 DEF Ghosts
    <2> QED  BY <2>3, <2>4, <2>5
  <1> QED  BY <1>1, <1>2

\* After an invalidation the screen has asked for its data, everything else is marked,
\* and what the server had read before is late.
LEMMA InvalidateType ==
    ASSUME CacheTypeOK, Invalidate
    PROVE  /\ stale' = Keys /\ fetch' \in [Keys -> Fetch]
           /\ fetch'[mounted].st = "sent"
           /\ \A k \in Keys : fetch'[k].st = "answered" =>
                 fetch[k].st = "answered" /\ fetch'[k].data = fetch[k].data /\ fetch'[k].late
  <1>0. fetch \in [Keys -> Fetch] /\ mounted \in Keys
    BY DEF CacheTypeOK
  <1> DEFINE req(k) == IF k = mounted THEN Sent ELSE [fetch[k] EXCEPT !.late = @ \/ fetch[k].st = "answered"]
  <1>1. stale' = Keys /\ fetch' = [k \in Keys |-> req(k)]
    BY DEF Invalidate
  <1>2. ASSUME NEW k \in Keys
        PROVE  /\ req(k) \in Fetch
               /\ req(k).st = "answered" =>
                     fetch[k].st = "answered" /\ req(k).data = fetch[k].data /\ req(k).late
    <2>1. CASE k = mounted
      BY <2>1, FetchType
    <2>2. CASE k # mounted
      <3>1. fetch[k] \in Fetch
        BY <1>0
      <3>2. (fetch[k].late \/ fetch[k].st = "answered") \in BOOLEAN
        OBVIOUS
      <3>3. req(k) \in Fetch /\ req(k).st = fetch[k].st /\ req(k).data = fetch[k].data
            /\ req(k).late = (fetch[k].late \/ fetch[k].st = "answered")
        BY <2>2, <3>1, <3>2 DEF Fetch
      <3> QED  BY <3>3
    <2> QED  BY <2>1, <2>2
  <1>3. req(mounted).st = "sent"
    BY FetchType
  <1> HIDE DEF req
  <1> QED  BY <1>0, <1>1, <1>2, <1>3

LEMMA InvalidateFresh ==
    ASSUME CacheTypeOK, Invalidate, mounted' = mounted
    PROVE  FreshInv'
  <1>1. /\ stale' = Keys /\ mounted \in Keys
        /\ fetch'[mounted].st = "sent"
        /\ \A k \in Keys : fetch'[k].st = "answered" => fetch'[k].late
    BY InvalidateType DEF CacheTypeOK
  <1>2. \A k \in Keys : UpToDate(k)'
    BY <1>1 DEF UpToDate
  <1>3. ScreenAsks'
    BY <1>1 DEF ScreenAsks, InFlight
  <1> QED  BY <1>2, <1>3 DEF FreshInv

LEMMA InvalidateGhosts ==
    ASSUME CacheTypeOK, GhostInv, Invalidate
    PROVE  GhostInv'
  BY InvalidateType DEF GhostInv

LEMMA CacheStarts == CacheInit => CacheInv
  <1> SUFFICES ASSUME CacheInit PROVE CacheInv
    OBVIOUS
  <1>1. /\ server \in [Ids -> {Unborn, 0}] /\ cache = [k \in Keys |-> NoData] /\ stale = {} /\ mounted \in Lists
        /\ fetch = [k \in Keys |-> IF k = mounted THEN Sent ELSE Idle] /\ call = [c \in Calls |-> NoCall]
        /\ stream = "open" /\ events = <<>> /\ excused = FALSE /\ moves = 0 /\ faults = 0
    BY DEF CacheInit
  <1>2. server \in [Ids -> Deleted..MaxVer]
    BY <1>1, CacheAssumption DEF Unborn, Deleted
  <1>3. NoCall \in Mutation /\ NoCall.st = "idle"
    <2>1. <<>> \in [{} -> RowVersion] /\ {} \in SUBSET Ids
      OBVIOUS
    <2>2. <<>> \in UNION {[on -> RowVersion] : on \in SUBSET Ids}
      BY <2>1
    <2> QED  BY <2>2 DEF NoCall, Mutation
  <1>4. mounted \in Keys /\ cache \in [Keys -> Data] /\ fetch \in [Keys -> Fetch] /\ call \in [Calls -> Mutation]
    BY <1>1, <1>3, CacheConstants, NoDataType, FetchType
  <1>5. moves \in 0..MaxMoves /\ faults \in 0..MaxFaults
    BY <1>1, CacheConstants
  <1>6. events \in Seq({"me", "other"})
    BY <1>1, EmptySeq
  <1>7. CacheTypeOK
    BY <1>1, <1>2, <1>4, <1>5, <1>6 DEF CacheTypeOK
  <1>8. Pending = {}
    BY <1>1, <1>3 DEF Pending
  <1>9. \A k \in Keys : cache[k] = NoData /\ fetch[k].st # "answered"
    BY <1>1, FetchType
  <1>10. fetch[mounted].st = "sent"
    BY <1>1, <1>4, FetchType
  <1>11. GhostInv
    BY <1>9, NoDataType DEF GhostInv
  <1>12. FreshInv
    BY <1>9, <1>10 DEF FreshInv, UpToDate, ScreenAsks, InFlight
  <1> QED  BY <1>7, <1>8, <1>11, <1>12 DEF CacheInv, SnapInv

LEMMA CacheStep == CacheInv /\ (CacheNext \/ UNCHANGED cacheVars) => CacheInv'
  <1> SUFFICES ASSUME CacheInv, CacheNext \/ UNCHANGED cacheVars
               PROVE  CacheInv'
    OBVIOUS
  <1>0. /\ server \in [Ids -> Deleted..MaxVer] /\ cache \in [Keys -> Data] /\ stale \subseteq Keys
        /\ fetch \in [Keys -> Fetch] /\ mounted \in Keys /\ call \in [Calls -> Mutation]
        /\ stream \in {"open", "closed"} /\ events \in Seq({"me", "other"}) /\ excused \in BOOLEAN
        /\ moves \in 0..MaxMoves /\ faults \in 0..MaxFaults
    BY DEF CacheInv, CacheTypeOK
  <1>I. CacheTypeOK /\ SnapInv /\ GhostInv /\ FreshInv
    BY DEF CacheInv
  <1>F. ~excused => (\A k \in Keys : UpToDate(k)) /\ ScreenAsks
    BY <1>I DEF FreshInv
  <1>G. \A k \in Keys : /\ \A c \in Ghosts(cache[k]) : c \in Pending \/ k \in stale
                        /\ fetch[k].st = "answered" => Ghosts(fetch[k].data) = {}
    BY <1>I DEF GhostInv
  <1>N. faults < MaxFaults /\ faults' = faults + 1 => faults' \in 0..MaxFaults
    BY <1>0, CacheConstants
  \* The state of a call on its way changes, and it stays on its way.
  <1>P. ASSUME NEW c \in Calls, c \in Pending, NEW st \in {"done", "failed", "conflict"},
               call' = [call EXCEPT ![c].st = st]
        PROVE  call' \in [Calls -> Mutation] /\ Pending' = Pending /\ SnapInv'
    <2>1. call[c] \in Mutation
      BY <1>0
    <2>2. [call[c] EXCEPT !.st = st] \in Mutation /\ [call[c] EXCEPT !.st = st].snap = call[c].snap
          /\ [call[c] EXCEPT !.st = st].st = st
      BY <2>1 DEF Mutation
    <2> DEFINE m == [call[c] EXCEPT !.st = st]
    <2>3. call' = [call EXCEPT ![c] = m]
      BY <1>P
    <2> HIDE DEF m
    <2>4. call' \in [Calls -> Mutation] /\ \A x \in Calls : call'[x] = IF x = c THEN m ELSE call[x]
      BY <1>0, <2>2, <2>3 DEF m
    <2>5. Pending' = Pending
      BY <1>P, <2>2, <2>4 DEF Pending, m
    <2>6. SnapInv'
      BY <1>I, <1>P, <2>2, <2>4, <2>5 DEF SnapInv, Pending, m
    <2> QED  BY <2>4, <2>5, <2>6
  \* What the screen shows changes.
  <1>1. ASSUME NEW k \in Keys, NEW aged \in BOOLEAN, Observe(k, aged) PROVE CacheInv'
    <2>1. /\ moves < MaxMoves /\ moves' = moves + 1 /\ mounted' = k
          /\ fetch' = IF ~InFlight(k) /\ (cache[k] = NoData \/ k \in stale \/ aged)
                      THEN [fetch EXCEPT ![k] = Sent] ELSE fetch
          /\ UNCHANGED <<server, cache, stale, call, stream, events, excused, faults>>
      BY <1>1 DEF Observe
    <2>2. fetch' \in [Keys -> Fetch] /\ \A j \in Keys : fetch'[j] = fetch[j] \/ fetch'[j] = Sent
      BY <1>0, <2>1, FetchType
    <2>3. moves' \in 0..MaxMoves
      BY <1>0, <2>1, CacheConstants
    <2>4. CacheTypeOK'
      BY <1>0, <2>1, <2>2, <2>3 DEF CacheTypeOK
    <2>5. Pending' = Pending /\ SnapInv'
      BY <1>I, <2>1 DEF Pending, SnapInv
    <2>6. \A j \in Keys : fetch'[j].st = "answered" => fetch'[j] = fetch[j]
      BY <2>2, FetchType
    <2>7. GhostInv'
      BY <1>G, <2>1, <2>5, <2>6 DEF GhostInv
    <2>8. Dirty' = Dirty /\ \A j \in Keys : Answer(j)' = Answer(j)
      BY <2>1, <2>5 DEF Dirty, Answer
    <2>9. ASSUME ~excused PROVE \A j \in Keys : UpToDate(j)'
      BY <1>F, <2>1, <2>6, <2>8, <2>9 DEF UpToDate
    <2>10. ScreenAsks'
      <3>1. ASSUME k \in stale \/ cache[k] = NoData PROVE fetch'[k].st # "none"
        BY <1>0, <2>1, <3>1, FetchType DEF InFlight
      <3> QED  BY <2>1, <3>1 DEF ScreenAsks, InFlight
    <2> QED  BY <2>1, <2>4, <2>5, <2>7, <2>9, <2>10 DEF CacheInv, FreshInv
  <1>2. ASSUME NEW k \in Keys, AnswerFetch(k) PROVE CacheInv'
    <2> DEFINE f == [fetch[k] EXCEPT !.st = "answered", !.data = Answer(k)]
    <2>1. /\ fetch[k].st = "sent" /\ fetch' = [fetch EXCEPT ![k] = f]
          /\ UNCHANGED <<server, cache, stale, mounted, call, stream, events, excused, moves, faults>>
      BY <1>2 DEF AnswerFetch
    <2>2. f \in Fetch /\ f.st = "answered" /\ f.data = Answer(k)
      <3>1. fetch[k] \in Fetch /\ Answer(k) \in Data
        BY <1>0, AnswerType
      <3> QED  BY <3>1 DEF Fetch
    <2> HIDE DEF f
    <2>3. fetch' \in [Keys -> Fetch] /\ \A j \in Keys : fetch'[j] = IF j = k THEN f ELSE fetch[j]
      BY <1>0, <2>1, <2>2
    <2>4. CacheTypeOK'
      BY <1>0, <2>1, <2>3 DEF CacheTypeOK
    <2>5. Pending' = Pending /\ SnapInv'
      BY <1>I, <2>1 DEF Pending, SnapInv
    <2>6. GhostInv'
      BY <1>0, <1>G, <2>1, <2>2, <2>3, <2>5, AnswerType DEF GhostInv
    <2>7. Dirty' = Dirty /\ \A j \in Keys : Answer(j)' = Answer(j)
      BY <2>1, <2>5 DEF Dirty, Answer
    <2>8. ASSUME ~excused PROVE \A j \in Keys : UpToDate(j)'
      BY <1>F, <2>1, <2>2, <2>3, <2>7, <2>8 DEF UpToDate
    <2>9. ASSUME ~excused PROVE ScreenAsks'
      BY <1>0, <1>F, <2>1, <2>2, <2>3, <2>7, <2>9 DEF ScreenAsks, InFlight
    <2> QED  BY <2>1, <2>4, <2>5, <2>6, <2>8, <2>9 DEF CacheInv, FreshInv
  <1>3. ASSUME NEW k \in Keys, ReceiveFetch(k) PROVE CacheInv'
    <2>1. /\ fetch[k].st = "answered" /\ cache' = [cache EXCEPT ![k] = fetch[k].data] /\ stale' = stale \ {k}
          /\ fetch' = [fetch EXCEPT ![k] = Idle] /\ excused' = (excused \/ fetch[k].late)
          /\ UNCHANGED <<server, mounted, call, stream, events, moves, faults>>
      BY <1>3 DEF ReceiveFetch
    <2>2. fetch[k].data \in Data /\ fetch[k].late \in BOOLEAN
      <3>1. fetch[k] \in Fetch
        BY <1>0
      <3> QED  BY <3>1 DEF Fetch
    <2>3. /\ fetch' \in [Keys -> Fetch] /\ \A j \in Keys : fetch'[j] = IF j = k THEN Idle ELSE fetch[j]
          /\ cache' \in [Keys -> Data] /\ \A j \in Keys : cache'[j] = IF j = k THEN fetch[k].data ELSE cache[j]
      BY <1>0, <2>1, <2>2, FetchType
    <2>4. excused' \in BOOLEAN
      BY <1>0, <2>1, <2>2
    <2>5. CacheTypeOK'
      BY <1>0, <2>1, <2>3, <2>4 DEF CacheTypeOK
    <2>6. Pending' = Pending /\ SnapInv'
      BY <1>I, <2>1 DEF Pending, SnapInv
    <2>7. GhostInv'
      <3>1. \A j \in Keys : j # k => (j \in stale' <=> j \in stale)
        BY <2>1
      <3> QED  BY <1>G, <2>1, <2>3, <2>6, <3>1, FetchType DEF GhostInv
    <2>8. Dirty' = Dirty /\ \A j \in Keys : Answer(j)' = Answer(j)
      BY <2>1, <2>6 DEF Dirty, Answer
    <2>9. ASSUME ~excused' PROVE fetch[k].data = Answer(k) \/ Dirty
      BY <1>F, <2>1, <2>9 DEF UpToDate
    <2>10. ASSUME ~excused' PROVE \A j \in Keys : UpToDate(j)'
      <3>1. ~excused
        BY <2>1, <2>10
      <3>2. ASSUME NEW j \in Keys, j # k PROVE UpToDate(j)'
        BY <1>F, <2>1, <2>3, <2>8, <3>1, <3>2 DEF UpToDate
      <3>3. UpToDate(k)'
        BY <2>3, <2>8, <2>9, <2>10, FetchType DEF UpToDate
      <3> QED  BY <3>2, <3>3
    <2>11. ASSUME ~excused' PROVE ScreenAsks'
      <3>1. ~excused
        BY <2>1, <2>11
      <3>2. CASE mounted = k
        <4>1. k \notin stale' /\ (cache'[k] = NoData => Dirty)
          BY <1>0, <2>1, <2>3, <2>9, <2>11, AnswerType
        <4> QED  BY <2>1, <2>8, <3>2, <4>1 DEF ScreenAsks
      <3>3. CASE mounted # k
        BY <1>0, <1>F, <2>1, <2>3, <2>8, <3>1, <3>3 DEF ScreenAsks, InFlight
      <3> QED  BY <3>2, <3>3
    <2> QED  BY <2>5, <2>6, <2>7, <2>10, <2>11 DEF CacheInv, FreshInv
  <1>4. ASSUME NEW k \in Keys, FailFetch(k) PROVE CacheInv'
    <2>1. /\ InFlight(k) /\ faults < MaxFaults /\ faults' = faults + 1
          /\ UNCHANGED <<server, cache, stale, mounted, call, stream, events, moves>>
      BY <1>4 DEF FailFetch
    <2>2. \/ fetch' = [fetch EXCEPT ![k] = Sent] /\ excused' = excused
          \/ fetch' = [fetch EXCEPT ![k] = Idle] /\ excused' = TRUE
      BY <1>4 DEF FailFetch
    <2>3. fetch' \in [Keys -> Fetch] /\ excused' \in BOOLEAN
          /\ \A j \in Keys : fetch'[j] = fetch[j] \/ fetch'[j] = Sent \/ (fetch'[j] = Idle /\ excused')
      BY <1>0, <2>2, FetchType
    <2>4. CacheTypeOK'
      BY <1>0, <1>N, <2>1, <2>3 DEF CacheTypeOK
    <2>5. Pending' = Pending /\ SnapInv'
      BY <1>I, <2>1 DEF Pending, SnapInv
    <2>6. \A j \in Keys : fetch'[j].st = "answered" => fetch'[j] = fetch[j]
      BY <2>3, FetchType
    <2>7. GhostInv'
      BY <1>G, <2>1, <2>5, <2>6 DEF GhostInv
    <2>8. Dirty' = Dirty /\ \A j \in Keys : Answer(j)' = Answer(j)
      BY <2>1, <2>5 DEF Dirty, Answer
    <2>9. ASSUME ~excused' PROVE ~excused /\ \A j \in Keys : UpToDate(j)'
      <3>1. ~excused
        BY <2>2, <2>9
      <3> QED  BY <1>F, <2>1, <2>6, <2>8, <3>1 DEF UpToDate
    <2>10. ASSUME ~excused' PROVE ScreenAsks'
      <3>1. fetch[mounted].st # "none" => fetch'[mounted].st # "none"
        BY <1>0, <2>3, <2>10, FetchType
      <3> QED  BY <1>F, <2>1, <2>8, <2>9, <2>10, <3>1 DEF ScreenAsks, InFlight
    <2> QED  BY <2>4, <2>5, <2>7, <2>9, <2>10 DEF CacheInv, FreshInv
  \* A call begins: it is on its way from now on.
  <1>5. ASSUME NEW c \in Calls, NEW op \in {"create", "update", "batch", "delete", "bulkDelete"},
               NEW on \in SUBSET Ids, NEW ver \in UNION {[o -> RowVersion] : o \in SUBSET Ids},
               Mutate(c, op, on, ver)
        PROVE  CacheInv'
    <2> DEFINE dataOf(k) == IF k \in Lists THEN Patched(cache[k], c, op, on) ELSE cache[k]
               m == [st |-> "sent", op |-> op, on |-> on, ver |-> ver, snap |-> cache]
    <2>1. /\ call[c].st = "idle" /\ fetch' = [k \in Keys |-> Idle] /\ cache' = [k \in Keys |-> dataOf(k)]
          /\ call' = [call EXCEPT ![c] = m]
          /\ UNCHANGED <<server, stale, mounted, stream, events, excused, moves, faults>>
      BY <1>5 DEF Mutate
    <2>2. \A k \in Keys : dataOf(k) \in Data /\ Ghosts(dataOf(k)) \subseteq Ghosts(cache[k]) \cup {c}
      <3>1. \A k \in Keys : cache[k] \in Data
        BY <1>0
      <3> QED  BY <3>1, PatchedType
    <2>3. m \in Mutation /\ m.st = "sent" /\ m.snap = cache
      BY <1>0 DEF Mutation
    <2> HIDE DEF dataOf, m
    <2>4. /\ cache' \in [Keys -> Data] /\ \A k \in Keys : cache'[k] = dataOf(k)
          /\ fetch' \in [Keys -> Fetch] /\ \A k \in Keys : fetch'[k].st = "none"
          /\ call' \in [Calls -> Mutation] /\ \A x \in Calls : call'[x] = IF x = c THEN m ELSE call[x]
      BY <1>0, <2>1, <2>2, <2>3, FetchType
    <2>5. CacheTypeOK'
      BY <1>0, <2>1, <2>4 DEF CacheTypeOK
    <2>6. Pending' = Pending \cup {c}
      BY <2>3, <2>4 DEF Pending
    <2>7. SnapInv'
      BY <1>0, <1>I, <2>3, <2>4, <2>6 DEF SnapInv, Pending
    <2>8. GhostInv'
      BY <1>G, <2>1, <2>2, <2>4, <2>6 DEF GhostInv
    <2>9. Dirty'
      BY <2>6 DEF Dirty
    <2>10. FreshInv'
      BY <2>9 DEF FreshInv, UpToDate, ScreenAsks
    <2> QED  BY <2>5, <2>7, <2>8, <2>10 DEF CacheInv
  <1>6. NoVersions \in UNION {[o -> RowVersion] : o \in SUBSET Ids}
    <2>1. <<>> \in [{} -> RowVersion] /\ {} \in SUBSET Ids
      OBVIOUS
    <2> QED  BY <2>1 DEF NoVersions
  <1>7. Shown \subseteq Ids
    BY DEF Shown
  <1>8. ASSUME NEW on \in SUBSET Shown
        PROVE  ShownVersions(on) \in UNION {[o -> RowVersion] : o \in SUBSET Ids}
    <2>1. ASSUME NEW i \in on PROVE cache[mounted].rows[i].ver \in RowVersion
      <3>1. i \in Ids /\ cache[mounted] # NoData /\ cache[mounted] \in Data
        BY <1>0 DEF Shown
      <3>2. cache[mounted].rows \in [Ids -> Row]
        BY <3>1 DEF Data
      <3> QED  BY <3>1, <3>2 DEF Row
    <2>2. ShownVersions(on) \in [on -> RowVersion] /\ on \in SUBSET Ids
      BY <1>7, <2>1 DEF ShownVersions
    <2> QED  BY <2>2
  <1>9. ASSUME NEW c \in Calls, Create(c) PROVE CacheInv'
    BY <1>5, <1>6, <1>9 DEF Create
  <1>10. ASSUME NEW c \in Calls, Update(c) PROVE CacheInv'
    <2>1. PICK i \in Shown : Mutate(c, "update", {i}, ShownVersions({i})) \/ Mutate(c, "update", {i}, NoVersions)
      BY <1>10 DEF Update
    <2>2. {i} \in SUBSET Shown /\ {i} \in SUBSET Ids
      BY <1>7
    <2>3. ShownVersions({i}) \in UNION {[o -> RowVersion] : o \in SUBSET Ids}
      BY <1>8, <2>2
    <2> QED  BY <1>5, <1>6, <2>1, <2>2, <2>3
  <1>11. ASSUME NEW c \in Calls, BatchUpdate(c) PROVE CacheInv'
    <2>1. PICK on \in SUBSET Shown : Mutate(c, "batch", on, ShownVersions(on))
      BY <1>11 DEF BatchUpdate
    <2>2. on \in SUBSET Ids
      BY <1>7
    <2> QED  BY <1>5, <1>8, <2>1, <2>2
  <1>12. ASSUME NEW c \in Calls, Delete(c) PROVE CacheInv'
    <2>1. PICK i \in Shown : Mutate(c, "delete", {i}, NoVersions)
      BY <1>12 DEF Delete
    <2>2. {i} \in SUBSET Ids
      BY <1>7
    <2> QED  BY <1>5, <1>6, <2>1, <2>2
  <1>13. ASSUME NEW c \in Calls, BulkDelete(c) PROVE CacheInv'
    <2>1. PICK on \in SUBSET Shown : Mutate(c, "bulkDelete", on, NoVersions)
      BY <1>13 DEF BulkDelete
    <2>2. on \in SUBSET Ids
      BY <1>7
    <2> QED  BY <1>5, <1>6, <2>1, <2>2
  \* The server answers a call that is on its way.
  <1>14. ASSUME NEW c \in Calls, c \in Pending, NEW st \in {"done", "failed", "conflict"},
                call' = [call EXCEPT ![c].st = st],
                server' \in [Ids -> Deleted..MaxVer], faults' \in 0..MaxFaults,
                UNCHANGED <<cache, stale, fetch, mounted, stream, events, excused, moves>>
         PROVE  CacheInv'
    <2>1. call' \in [Calls -> Mutation] /\ Pending' = Pending /\ SnapInv'
      BY <1>14, <1>P
    <2>2. CacheTypeOK'
      BY <1>0, <1>14, <2>1 DEF CacheTypeOK
    <2>3. GhostInv'
      BY <1>G, <1>14, <2>1 DEF GhostInv
    <2>4. Dirty'
      BY <1>14, <2>1 DEF Dirty
    <2>5. FreshInv'
      BY <2>4 DEF FreshInv, UpToDate, ScreenAsks
    <2> QED  BY <2>1, <2>2, <2>3, <2>5 DEF CacheInv
  <1>15. ASSUME NEW c \in Calls, Commit(c) PROVE CacheInv'
    <2>1. /\ call[c].st = "sent" /\ call' = [call EXCEPT ![c].st = "done"]
          /\ UNCHANGED <<cache, stale, fetch, mounted, stream, events, excused, moves, faults>>
      BY <1>15 DEF Commit
    <2>2. server' \in [Ids -> Deleted..MaxVer]
      <3>1. ASSUME NEW i \in Ids, server' = [server EXCEPT ![i] = 0] PROVE server' \in [Ids -> Deleted..MaxVer]
        BY <1>0, <3>1, CacheAssumption DEF Deleted
      <3>2. ASSUME \A i \in call[c].on : Live(i) /\ server[i] < MaxVer,
                   server' = [i \in Ids |-> IF i \in call[c].on THEN server[i] + 1 ELSE server[i]]
            PROVE  server' \in [Ids -> Deleted..MaxVer]
        <4>1. \A i \in Ids : (IF i \in call[c].on THEN server[i] + 1 ELSE server[i]) \in Deleted..MaxVer
          BY <1>0, <3>2, CacheAssumption DEF Deleted, Live
        <4> QED  BY <3>2, <4>1
      <3>3. ASSUME server' = [i \in Ids |-> IF i \in call[c].on /\ Live(i) THEN Deleted ELSE server[i]]
            PROVE  server' \in [Ids -> Deleted..MaxVer]
        <4>1. Deleted \in Deleted..MaxVer
          BY CacheAssumption DEF Deleted
        <4> QED  BY <1>0, <3>3, <4>1
      <3> QED  BY <1>15, <3>1, <3>2, <3>3 DEF Commit
    <2>3. c \in Pending
      BY <2>1 DEF Pending
    <2> QED  BY <1>0, <1>14, <2>1, <2>2, <2>3
  <1>16. ASSUME NEW c \in Calls, Refuse(c) PROVE CacheInv'
    <2>1. c \in Pending /\ UNCHANGED <<server, cache, stale, fetch, mounted, stream, events, excused, moves, faults>>
      BY <1>16 DEF Refuse, Pending
    <2>2. call' = [call EXCEPT ![c].st = "conflict"] \/ call' = [call EXCEPT ![c].st = "failed"]
      BY <1>16 DEF Refuse
    <2> QED  BY <1>0, <1>14, <2>1, <2>2
  <1>17. ASSUME NEW c \in Calls, LoseCall(c) PROVE CacheInv'
    <2>1. c \in Pending /\ faults' \in 0..MaxFaults /\ call' = [call EXCEPT ![c].st = "failed"]
          /\ UNCHANGED <<server, cache, stale, fetch, mounted, stream, events, excused, moves>>
      BY <1>17, <1>N DEF LoseCall, Pending
    <2> QED  BY <1>0, <1>14, <2>1
  \* A call settles: everything is marked, and the screen asks again.
  <1>18. ASSUME NEW c \in Calls, c \in Pending, cache' \in [Keys -> Data],
                call' = [call EXCEPT ![c] = [NoCall EXCEPT !.st = "settled"]], Invalidate,
                UNCHANGED <<server, mounted, stream, events, excused, moves, faults>>
         PROVE  CacheInv'
    <2>1. /\ stale' = Keys /\ fetch' \in [Keys -> Fetch]
          /\ \A k \in Keys : fetch'[k].st = "answered" => fetch[k].st = "answered" /\ fetch'[k].data = fetch[k].data
      BY <1>18, <1>I, InvalidateType
    <2> DEFINE m == [NoCall EXCEPT !.st = "settled"]
    <2>2. m \in Mutation /\ m.st = "settled"
      <3>1. NoCall.ver \in UNION {[o -> RowVersion] : o \in SUBSET Ids}
        BY <1>6 DEF NoCall, NoVersions
      <3>2. NoCall \in Mutation
        BY <3>1 DEF NoCall, Mutation
      <3> QED  BY <3>2 DEF Mutation
    <2> HIDE DEF m
    <2>3. call' \in [Calls -> Mutation] /\ \A x \in Calls : call'[x] = IF x = c THEN m ELSE call[x]
      BY <1>0, <1>18, <2>2 DEF m
    <2>4. CacheTypeOK'
      BY <1>0, <1>18, <2>1, <2>3 DEF CacheTypeOK
    <2>5. \A x \in Pending' : x \in Pending /\ call'[x] = call[x]
      BY <2>2, <2>3 DEF Pending
    <2>6. SnapInv'
      BY <1>I, <2>5 DEF SnapInv
    <2>7. GhostInv'
      BY <1>G, <2>1 DEF GhostInv
    <2>8. FreshInv'
      BY <1>I, <1>18, InvalidateFresh
    <2> QED  BY <2>4, <2>6, <2>7, <2>8 DEF CacheInv
  <1>19. ASSUME NEW c \in Calls, Succeed(c) PROVE CacheInv'
    <2>1. c \in Pending /\ call' = [call EXCEPT ![c] = [NoCall EXCEPT !.st = "settled"]] /\ Invalidate
          /\ UNCHANGED <<server, mounted, stream, events, excused, moves, faults>>
      BY <1>19 DEF Succeed, Settle, Pending
    <2>2. cache' \in [Keys -> Data]
      <3>1. Answer(Detail) \in Data
        BY <1>0, AnswerType
      <3> QED  BY <1>0, <1>19, <3>1 DEF Succeed
    <2> QED  BY <1>18, <2>1, <2>2
  <1>20. ASSUME NEW c \in Calls, Fail(c) PROVE CacheInv'
    <2>1. c \in Pending /\ call' = [call EXCEPT ![c] = [NoCall EXCEPT !.st = "settled"]] /\ Invalidate
          /\ cache' = [k \in Keys |-> IF call[c].snap[k] = NoData THEN cache[k] ELSE call[c].snap[k]]
          /\ UNCHANGED <<server, mounted, stream, events, excused, moves, faults>>
      BY <1>20 DEF Fail, Settle, Pending
    <2>2. call[c].snap \in [Keys -> Data]
      BY <1>I, <2>1 DEF SnapInv
    <2>3. cache' \in [Keys -> Data]
      BY <1>0, <2>1, <2>2
    <2> QED  BY <1>18, <2>1, <2>3
  <1>21. ASSUME NEW i \in Ids, NEW who \in {"me", "other"}, OtherWrite(i, who) PROVE CacheInv'
    <2>1. /\ server[i] # Deleted /\ server[i] < MaxVer /\ server' = [server EXCEPT ![i] = @ + 1]
          /\ events' = IF stream = "open" THEN Append(events, who) ELSE events
          /\ excused' = (excused \/ stream = "closed" \/ who = "me")
          /\ UNCHANGED <<cache, stale, fetch, mounted, call, stream, moves, faults>>
      BY <1>21 DEF OtherWrite
    <2>2. server' \in [Ids -> Deleted..MaxVer]
      <3>1. server[i] + 1 \in Deleted..MaxVer
        BY <1>0, <2>1, CacheAssumption DEF Deleted
      <3> QED  BY <1>0, <2>1, <3>1
    <2>3. /\ Append(events, who) \in Seq({"me", "other"}) /\ Len(events) \in Nat
          /\ Len(Append(events, who)) = Len(events) + 1
          /\ Append(events, who)[Len(events) + 1] = who
      BY <1>0, LenProperties, AppendProperties
    <2>4. events' \in Seq({"me", "other"}) /\ excused' \in BOOLEAN
      BY <1>0, <2>1, <2>3
    <2>5. CacheTypeOK'
      BY <1>0, <2>1, <2>2, <2>4 DEF CacheTypeOK
    <2>6. Pending' = Pending /\ SnapInv'
      BY <1>I, <2>1 DEF Pending, SnapInv
    <2>7. GhostInv'
      BY <1>G, <2>1, <2>6 DEF GhostInv
    <2>8. ASSUME ~excused' PROVE Dirty'
      <3>1. events' = Append(events, who) /\ who = "other"
        BY <1>0, <2>1, <2>8
      <3>2. Len(events) + 1 \in DOMAIN events' /\ events'[Len(events) + 1] = "other"
        BY <2>3, <3>1, LenProperties
      <3> QED  BY <3>2 DEF Dirty
    <2>9. FreshInv'
      BY <2>8 DEF FreshInv, UpToDate, ScreenAsks
    <2> QED  BY <2>5, <2>6, <2>7, <2>9 DEF CacheInv
  <1>22. CASE Receive
    <2>1. /\ events # <<>> /\ events' = Tail(events)
          /\ IF SkipsOwn(Head(events)) THEN UNCHANGED <<stale, fetch>> ELSE Invalidate
          /\ UNCHANGED <<server, cache, mounted, call, stream, excused, moves, faults>>
      BY <1>22 DEF Receive
    <2>2. /\ events' \in Seq({"me", "other"}) /\ Len(events) \in Nat \ {0} /\ Len(events') = Len(events) - 1
          /\ \A i \in 1..Len(events) - 1 : events'[i] = events[i + 1]
      BY <1>0, <2>1, TailType
    <2>3. Head(events) = events[1]
      BY <1>0, <2>1, HeadTailProperties
    <2>4. Pending' = Pending /\ SnapInv'
      BY <1>I, <2>1 DEF Pending, SnapInv
    <2>5. CASE Head(events) = "me"
      <3>1. UNCHANGED <<stale, fetch>>
        BY <2>1, <2>5 DEF SkipsOwn
      <3>2. CacheTypeOK'
        BY <1>0, <2>1, <2>2, <3>1 DEF CacheTypeOK
      <3>3. GhostInv'
        BY <1>G, <2>1, <2>4, <3>1 DEF GhostInv
      <3>4. Dirty => Dirty'
        <4>1. ASSUME NEW n \in DOMAIN events, events[n] = "other" PROVE \E j \in DOMAIN events' : events'[j] = "other"
          <5>1. n \in 1..Len(events) /\ n # 1
            BY <1>0, <2>3, <2>5, <4>1, LenProperties
          <5>2. n - 1 \in 1..Len(events) - 1 /\ (n - 1) + 1 = n
            BY <2>2, <5>1
          <5>3. n - 1 \in DOMAIN events'
            BY <2>2, <5>2, LenProperties
          <5>4. events'[n - 1] = "other"
            BY <2>2, <4>1, <5>2
          <5> QED  BY <5>3, <5>4
        <4> QED  BY <2>4, <4>1 DEF Dirty
      <3>5. \A j \in Keys : Answer(j)' = Answer(j)
        BY <2>1 DEF Answer
      <3>6. ASSUME ~excused PROVE \A j \in Keys : UpToDate(j)'
        BY <1>F, <2>1, <3>1, <3>4, <3>5, <3>6 DEF UpToDate
      <3>7. ASSUME ~excused PROVE ScreenAsks'
        BY <1>F, <2>1, <3>1, <3>4, <3>7 DEF ScreenAsks, InFlight
      <3> QED  BY <2>1, <2>4, <3>2, <3>3, <3>6, <3>7 DEF CacheInv, FreshInv
    <2>6. CASE Head(events) # "me"
      <3>1. Invalidate
        BY <2>1, <2>6 DEF SkipsOwn
      <3>2. stale' = Keys /\ fetch' \in [Keys -> Fetch]
        BY <1>I, <3>1, InvalidateType
      <3>3. CacheTypeOK'
        BY <1>0, <2>1, <2>2, <3>2 DEF CacheTypeOK
      <3>4. GhostInv'
        BY <1>I, <3>1, InvalidateGhosts
      <3>5. FreshInv'
        BY <1>I, <2>1, <3>1, InvalidateFresh
      <3> QED  BY <2>4, <3>3, <3>4, <3>5 DEF CacheInv
    <2> QED  BY <2>5, <2>6
  <1>23. CASE Disconnect
    <2>1. /\ faults' \in 0..MaxFaults /\ stream' = "closed" /\ events' = <<>>
          /\ excused' = (excused \/ \E n \in DOMAIN events : events[n] = "other")
          /\ UNCHANGED <<server, cache, stale, fetch, mounted, call, moves>>
      BY <1>23, <1>N DEF Disconnect
    <2>2. events' \in Seq({"me", "other"}) /\ excused' \in BOOLEAN
      <3>1. (\E n \in DOMAIN events : events[n] = "other") \in BOOLEAN
        OBVIOUS
      <3> QED  BY <1>0, <2>1, <3>1, EmptySeq
    <2>3. CacheTypeOK'
      BY <1>0, <2>1, <2>2 DEF CacheTypeOK
    <2>4. Pending' = Pending /\ SnapInv'
      BY <1>I, <2>1 DEF Pending, SnapInv
    <2>5. GhostInv'
      BY <1>G, <2>1, <2>4 DEF GhostInv
    <2>6. ASSUME ~excused' PROVE ~excused /\ (Dirty => Dirty')
      BY <2>1, <2>4, <2>6 DEF Dirty
    <2>7. \A j \in Keys : Answer(j)' = Answer(j)
      BY <2>1 DEF Answer
    <2>8. ASSUME ~excused' PROVE \A j \in Keys : UpToDate(j)'
      BY <1>F, <2>1, <2>6, <2>7, <2>8 DEF UpToDate
    <2>9. ASSUME ~excused' PROVE ScreenAsks'
      BY <1>F, <2>1, <2>6, <2>9 DEF ScreenAsks, InFlight
    <2> QED  BY <2>3, <2>4, <2>5, <2>8, <2>9 DEF CacheInv, FreshInv
  <1>24. ASSUME UNCHANGED <<server, cache, stale, fetch, mounted, call, events, excused, moves, faults>>,
                stream' \in {"open", "closed"}
         PROVE  CacheInv'
    <2>1. CacheTypeOK'
      BY <1>0, <1>24 DEF CacheTypeOK
    <2>2. Pending' = Pending /\ SnapInv'
      BY <1>I, <1>24 DEF Pending, SnapInv
    <2>3. GhostInv'
      BY <1>G, <1>24, <2>2 DEF GhostInv
    <2>4. (Dirty' <=> Dirty) /\ \A j \in Keys : Answer(j)' = Answer(j)
      BY <1>24, <2>2 DEF Dirty, Answer
    <2>5. ASSUME ~excused PROVE (\A j \in Keys : UpToDate(j)') /\ ScreenAsks'
      BY <1>F, <1>24, <2>4, <2>5 DEF UpToDate, ScreenAsks, InFlight
    <2> QED  BY <1>24, <2>1, <2>2, <2>3, <2>5 DEF CacheInv, FreshInv
  <1>25. CASE Reconnect
    BY <1>24, <1>25 DEF Reconnect
  <1>26. CASE UNCHANGED cacheVars
    BY <1>0, <1>24, <1>26 DEF cacheVars, tab, net
  <1>27. CASE ShowList \/ ShowBoard \/ ShowDetail
    BY <1>1, <1>27, CacheConstants DEF ShowList, ShowBoard, ShowDetail
  <1> QED
    BY <1>2, <1>3, <1>4, <1>9, <1>10, <1>11, <1>12, <1>13, <1>15, <1>16, <1>17, <1>19, <1>20, <1>21,
       <1>22, <1>23, <1>25, <1>26, <1>27 DEF CacheNext

LEMMA CacheMeans == CacheInv => ShownFresh /\ GhostsTransient
  <1> SUFFICES ASSUME CacheInv PROVE ShownFresh /\ GhostsTransient
    OBVIOUS
  <1>1. ASSUME Quiet, ~excused PROVE Fresh
    <2>1. mounted \in Keys /\ UpToDate(mounted) /\ ScreenAsks
      BY <1>1 DEF CacheInv, FreshInv, CacheTypeOK
    <2>2. ~Dirty /\ ~InFlight(mounted)
      BY <1>1 DEF Quiet, Dirty
    <2> QED  BY <2>1, <2>2 DEF UpToDate, ScreenAsks, Fresh
  <1>2. GhostsTransient
    BY DEF CacheInv, GhostInv, GhostsTransient, Ghosts
  <1> QED  BY <1>1, <1>2 DEF ShownFresh

-----------------------------------------------------------------------------
(* The cache of everything else *)

\* Keys are not empty, and the first part of a key is a prefix of it.
LEMMA KeysBegin ==
    ASSUME NEW q \in Queries
    PROVE  IsPrefix(<<Head(q.key)>>, q.key) /\ IsPrefix(q.key, q.key)
  BY DEF Queries, HookQueries, DerivedQueries, Query, IsPrefix

\* Which keys have queries that read a table.
LEMMA ReadersOf ==
    ASSUME NEW q \in Queries
    PROVE  /\ "me" \in q.reads => q.key \in {<<"auth", "me">>, <<"auth", "users">>}
           /\ "user" \in q.reads => q.key = <<"auth", "users">>
           /\ "view" \in q.reads => q.key = <<"views", "list">>
           /\ "savedView" \in q.reads => q.key = <<"savedViews", "list">>
           /\ "member" \in q.reads => q.key = <<"members", "list">>
           /\ "automation" \in q.reads => q.key \in {<<"automations", "list">>, <<"automations", "detail">>}
           /\ "chart" \in q.reads => q.key = <<"charts", "list">>
  BY DEF Queries, HookQueries, DerivedQueries, Query

LEMMA CollectionReaders ==
    ASSUME NEW q \in Queries, Head(q.key) = "collections"
    PROVE  /\ "collection" \in q.reads => q.key \in {<<"collections", "list">>, <<"collections", "detail">>}
           /\ "field" \in q.reads => q.key = <<"collections", "detail">>
           /\ "process" \notin q.reads
  BY DEF Queries, HookQueries, DerivedQueries, Query

LEMMA NotificationReaders ==
    ASSUME NEW q \in Queries, Head(q.key) = "notifications"
    PROVE  "comment" \notin q.reads
  BY DEF Queries, HookQueries, DerivedQueries, Query

\* A hook marks every answer of its families that its write outdates, apart from the gaps.
LEMMA MarksFamily ==
    ASSUME NEW h \in Hooks, NEW q \in Queries,
           Concerns(h, q), Head(q.key) \in Family(h)
    PROVE  Marks(h, q) \/ Gap(h, q)
  <1>1. PICK key \in h.marks : Head(q.key) = Head(key)
    BY DEF Family
  <1>2. ASSUME key = <<Head(key)>>  PROVE  Marks(h, q)
    <2>1. IsPrefix(<<Head(q.key)>>, q.key)
      BY KeysBegin
    <2>2. IsPrefix(key, q.key)
      BY <1>1, <1>2, <2>1
    <2> QED  BY <2>2 DEF Marks
  <1>3. ASSUME q.key \in h.marks  PROVE  Marks(h, q)
    <2>1. IsPrefix(q.key, q.key)
      BY KeysBegin
    <2> QED  BY <1>3, <2>1 DEF Marks
  <1>4. CASE h \in UserHooks
    BY <1>3, <1>4, ReadersOf DEF UserHooks, Hook, Concerns, Gap
  <1>5. CASE h \in SubsidiaryHooks \cup DepartmentHooks \cup EntryHooks \cup NotificationHooks
               \cup MigrationHooks
    BY <1>1, <1>2, <1>5 DEF SubsidiaryHooks, DepartmentHooks, EntryHooks, NotificationHooks, MigrationHooks, Hook
  <1>6. CASE h \in CollectionHooks
    <2>1. key = <<"collections">> \/ h.marks = {<<"collections", "detail">>, <<"collections", "list">>}
      BY <1>6 DEF CollectionHooks, Hook
    <2>2. ASSUME h.marks = {<<"collections", "detail">>, <<"collections", "list">>}
          PROVE  Marks(h, q)
      <3>1. Head(q.key) = "collections"
        BY <1>1, <2>2
      <3>2. h.writes \subseteq {"collection", "field", "migration"}
        BY <1>6, <2>2 DEF CollectionHooks, Hook
      <3>3. "migration" \in q.reads => FALSE
        BY <3>1 DEF Queries, HookQueries, DerivedQueries, Query
      <3> QED  BY <1>3, <2>2, <3>1, <3>2, <3>3, CollectionReaders DEF Concerns
    <2>3. key = <<"collections">> => key = <<Head(key)>>
      OBVIOUS
    <2> QED  BY <1>2, <2>1, <2>2, <2>3
  <1>7. CASE h \in ProcessHooks
    <2>1. h.writes = {"process"} /\ key \in {<<"process">>, <<"collections", "detail">>, <<"entries">>}
      BY <1>7 DEF ProcessHooks, Hook
    <2>2. key # <<"collections", "detail">>
      BY <1>1, <2>1, CollectionReaders DEF Concerns
    <2> QED  BY <1>2, <2>1, <2>2
  <1>8. CASE h \in CommentHooks
    <2>1. h.writes = {"comment"} /\ key \in {<<"comments">>, <<"notifications", "unread">>}
      BY <1>8 DEF CommentHooks, Hook
    <2>2. key # <<"notifications", "unread">>
      BY <1>1, <2>1, NotificationReaders DEF Concerns
    <2> QED  BY <1>2, <2>1, <2>2
  <1>9. CASE h \in MemberHooks \cup ViewHooks \cup SavedViewHooks \cup ChartHooks
    BY <1>3, <1>9, ReadersOf DEF MemberHooks, ViewHooks, SavedViewHooks, ChartHooks, Hook, Concerns
  <1>10. CASE h \in AutomationHooks
    BY <1>3, <1>10, ReadersOf DEF AutomationHooks, Hook, Concerns, Gap
  <1> QED  BY <1>4, <1>5, <1>6, <1>7, <1>8, <1>9, <1>10 DEF Hooks

\* A hook that patches the cache marks every answer its write outdates.
LEMMA PatchesMark ==
    ASSUME NEW h \in Hooks, NEW q \in Queries, h.patches, Concerns(h, q)
    PROVE  Marks(h, q)
  <1>1. h \in ViewHooks
    BY DEF Hooks, UserHooks, SubsidiaryHooks, DepartmentHooks, CollectionHooks, EntryHooks, ProcessHooks,
           CommentHooks, NotificationHooks, MemberHooks, SavedViewHooks, MigrationHooks, AutomationHooks,
           ChartHooks, Hook
  <1>2. q.key = <<"views", "list">>
    BY <1>1, ReadersOf DEF ViewHooks, Concerns
  <1>3. IsPrefix(<<"views", "list">>, q.key)
    BY <1>2, KeysBegin
  <1> QED  BY <1>1, <1>3 DEF ViewHooks, Marks

-----------------------------------------------------------------------------
(* The inductive invariant *)

\* The writes that can outdate the answer looked at, and those of them a hook of its family makes.
Relevant == {h \in Hooks : Concerns(h, watched)}
Looked == FamilyWrites \ KnownGaps

LackInv ==
    /\ answer.lacks \subseteq Relevant /\ fetching.lacks \subseteq Relevant
    /\ \A p \in pending : p.before.lacks \subseteq Relevant
    /\ ~answer.known => answer.lacks = {}

PendingInv == \A p \in pending : Concerns(p.hook, watched) \/ Marks(p.hook, watched)

\* Writes that are through and whose hook will still mark the answer.
ToBeMarked == {h \in Hooks : \E p \in pending : p.hook = h /\ p.written}
PatchPending == \E p \in pending : p.hook.patches /\ Marks(p.hook, watched)

\* Somebody will look after what the answer lacks.
LookedAfter ==
    answer.known /\ ~answer.excused =>
        \/ answer.lacks \cap Looked \subseteq ToBeMarked
        \/ outdated \/ fetching.sent \/ PatchPending

QueryInv == QueryTypeOK /\ LackInv /\ PendingInv /\ LookedAfter

LEMMA QueryMeans == QueryInv => FamilyIsFresh
  <1> SUFFICES ASSUME QueryInv, Trusted, ~answer.excused
               PROVE  answer.lacks \cap FamilyWrites \subseteq InFlightHooks \cup KnownGaps
    BY DEF FamilyIsFresh
  <1>1. answer.lacks \cap Looked \subseteq ToBeMarked
    BY DEF QueryInv, LookedAfter, Trusted, PatchPending
  <1>2. ToBeMarked \subseteq InFlightHooks
    BY DEF ToBeMarked, InFlightHooks
  <1> QED  BY <1>1, <1>2 DEF Looked

LEMMA QueryStarts == QueryInit => QueryInv
  <1> SUFFICES ASSUME QueryInit  PROVE  QueryInv
    OBVIOUS
  <1>1. NoAnswer \in CacheTypes /\ NoRequest \in Requests
    BY DEF NoAnswer, NoRequest, CacheTypes, Requests
  <1>2. QueryTypeOK
    BY <1>1 DEF QueryInit, QueryTypeOK
  <1>3. LackInv /\ PendingInv /\ LookedAfter
    BY DEF QueryInit, LackInv, PendingInv, LookedAfter, NoAnswer, NoRequest
  <1> QED  BY <1>2, <1>3 DEF QueryInv

\* Hooks of the family that outdate the answer mark it.
LEMMA LookedMark ==
    ASSUME QueryTypeOK, NEW h \in Relevant \cap Looked
    PROVE  Marks(h, watched)
  BY MarksFamily DEF QueryTypeOK, Relevant, Looked, FamilyWrites, KnownGaps

LEMMA PatchingMarks ==
    ASSUME QueryTypeOK, PendingInv, NEW p \in pending, p.hook.patches
    PROVE  Marks(p.hook, watched)
  BY PatchesMark DEF QueryTypeOK, PendingInv, HookCalls

\* What has no effect on the answer and the calls.
LEMMA QueryRests ==
    ASSUME QueryInv, UNCHANGED <<watched, answer, pending>>,
           observed' \in BOOLEAN, outdated' \in BOOLEAN, fetching' \in Requests,
           fetching'.lacks \subseteq fetching.lacks,
           outdated => outdated', fetching.sent => fetching'.sent
    PROVE  QueryInv'
  <1>1. QueryTypeOK'
    BY DEF QueryInv, QueryTypeOK
  <1>2. LackInv' /\ PendingInv'
    BY DEF QueryInv, LackInv, PendingInv, Relevant
  <1>3. LookedAfter'
    BY DEF QueryInv, LookedAfter, Looked, FamilyWrites, KnownGaps, ToBeMarked, PatchPending
  <1> QED  BY <1>1, <1>2, <1>3 DEF QueryInv

\* A call that ends with a mark on the answer.
LEMMA HookMarks ==
    ASSUME QueryInv, NEW p \in pending, Marks(p.hook, watched), invalidateQueries(p.hook),
           pending' = pending \ {p}, UNCHANGED <<watched, observed>>,
           answer' \in CacheTypes, answer'.lacks \subseteq Relevant, ~answer'.known => answer'.lacks = {}
    PROVE  QueryInv'
  <1>1. /\ outdated' = answer'.known
        /\ fetching' = IF observed /\ (answer.known \/ ~fetching.sent) THEN Request ELSE fetching
    BY DEF invalidateQueries
  <1>2. outdated' \in BOOLEAN
    BY <1>1 DEF CacheTypes
  <1>3. fetching' \in Requests /\ fetching'.lacks \subseteq fetching.lacks
    BY <1>1 DEF QueryInv, QueryTypeOK, Request, NoRequest, Requests
  <1>4. QueryTypeOK'
    BY <1>2, <1>3 DEF QueryInv, QueryTypeOK
  <1>5. LackInv' /\ PendingInv'
    BY <1>3 DEF QueryInv, LackInv, PendingInv, Relevant
  <1>6. LookedAfter'
    BY <1>1 DEF LookedAfter
  <1> QED  BY <1>4, <1>5, <1>6 DEF QueryInv

LEMMA QueryStep == QueryInv /\ (QueryNext \/ UNCHANGED queryVars) => QueryInv'
  <1> SUFFICES ASSUME QueryInv, QueryNext \/ UNCHANGED queryVars  PROVE  QueryInv'
    OBVIOUS
  <1>0. /\ Request \in Requests /\ NoRequest \in Requests
        /\ Request.lacks = {} /\ NoRequest.lacks = {} /\ Request.sent
    BY DEF Request, NoRequest, Requests
  <1>t. fetching \in Requests /\ observed \in BOOLEAN /\ outdated \in BOOLEAN /\ answer \in CacheTypes
    BY DEF QueryInv, QueryTypeOK
  <1>1. CASE ObserveQuery
    BY <1>0, <1>1, <1>t, QueryRests DEF ObserveQuery
  <1>2. CASE Leave
    BY <1>2, <1>t, QueryRests DEF Leave
  <1>3. CASE GrowOld
    BY <1>3, <1>t, QueryRests DEF GrowOld
  <1>4. CASE ServerReads
    <2>1. /\ fetching' \in Requests /\ fetching'.lacks = fetching.lacks
          /\ fetching'.sent = fetching.sent
      BY <1>4, <1>t DEF ServerReads, Requests
    <2> QED  BY <1>4, <1>t, <2>1, QueryRests DEF ServerReads
  <1>5. CASE Answered
    <2> DEFINE new == [known |-> TRUE, lacks |-> fetching.lacks, excused |-> fetching.lacks # {}, guess |-> FALSE]
    <2>1. new \in CacheTypes
      BY <1>t, Zenon DEF CacheTypes, Requests
    <2>2. /\ fetching' = NoRequest /\ answer' = new /\ outdated' = FALSE
          /\ UNCHANGED <<watched, observed, pending>>
      BY <1>5 DEF Answered
    <2>3. QueryTypeOK'
      BY <2>1, <2>2, <1>0 DEF QueryInv, QueryTypeOK
    <2>4. LackInv' /\ PendingInv'
      BY <2>2, <1>0 DEF QueryInv, LackInv, PendingInv, Relevant
    <2>5. LookedAfter'
      BY <2>2 DEF LookedAfter
    <2> QED  BY <2>3, <2>4, <2>5 DEF QueryInv
  <1>6. CASE MutateHook
    <2>1. PICK m \in {h \in Hooks : Concerns(h, watched) \/ Marks(h, watched)} :
              /\ pending' = pending \cup {[hook |-> m, written |-> FALSE, before |-> answer]}
              /\ IF m.patches /\ Marks(m, watched)
                 THEN /\ fetching' = NoRequest
                      /\ answer' = [answer EXCEPT !.known = TRUE, !.guess = TRUE]
                      /\ outdated' = FALSE
                 ELSE UNCHANGED <<fetching, answer, outdated>>
      BY <1>6 DEF MutateHook
    <2> DEFINE newCall == [hook |-> m, written |-> FALSE, before |-> answer]
    <2>2. newCall \in HookCalls /\ newCall.hook = m /\ ~newCall.written /\ newCall.before = answer
      BY <1>t DEF HookCalls
    <2> HIDE DEF newCall
    <2>3. pending' = pending \cup {newCall} /\ UNCHANGED <<watched, observed>>
      BY <1>6, <2>1 DEF MutateHook, newCall
    <2>4. /\ answer' \in CacheTypes /\ answer'.lacks = answer.lacks
          /\ answer.known => answer'.known
          /\ answer'.excused = answer.excused
      BY <1>t, <2>1 DEF CacheTypes
    <2>5. /\ fetching' \in Requests /\ outdated' \in BOOLEAN
          /\ fetching'.lacks \subseteq fetching.lacks
      BY <1>t, <1>0, <2>1
    <2>6. QueryTypeOK'
      BY <2>2, <2>3, <2>4, <2>5 DEF QueryInv, QueryTypeOK
    <2>7. LackInv'
      <3>1. answer'.lacks \subseteq Relevant' /\ fetching'.lacks \subseteq Relevant'
        BY <2>3, <2>4, <2>5 DEF QueryInv, LackInv, Relevant
      <3>2. \A p \in pending' : p.before.lacks \subseteq Relevant'
        BY <2>2, <2>3 DEF QueryInv, LackInv, Relevant
      <3>3. ~answer'.known => answer'.lacks = {}
        BY <2>4 DEF QueryInv, LackInv
      <3> QED  BY <3>1, <3>2, <3>3 DEF LackInv
    <2>8. PendingInv'
      BY <2>1, <2>2, <2>3 DEF QueryInv, PendingInv
    <2>9. LookedAfter'
      <3>1. CASE m.patches /\ Marks(m, watched)
        BY <2>2, <2>3, <3>1 DEF LookedAfter, PatchPending
      <3>2. CASE ~(m.patches /\ Marks(m, watched))
        BY <2>1, <2>3, <3>2 DEF QueryInv, LookedAfter, Looked, FamilyWrites, KnownGaps, ToBeMarked, PatchPending
      <3> QED  BY <3>1, <3>2
    <2> QED  BY <2>6, <2>7, <2>8, <2>9 DEF QueryInv
  <1>7. CASE ServerWrites
    <2> DEFINE news(p) == IF Concerns(p.hook, watched) THEN {p.hook} ELSE {}
    <2>1. PICK p \in pending :
              /\ ~p.written
              /\ pending' = (pending \ {p}) \cup {[p EXCEPT !.written = TRUE]}
              /\ answer' = IF answer.known THEN [answer EXCEPT !.lacks = @ \cup news(p)] ELSE answer
              /\ fetching' = IF fetching.read THEN [fetching EXCEPT !.lacks = @ \cup news(p)] ELSE fetching
      BY <1>7 DEF ServerWrites
    <2> DEFINE written == [p EXCEPT !.written = TRUE]
    <2>2. p \in HookCalls /\ p.hook \in Hooks
      BY DEF QueryInv, QueryTypeOK, HookCalls
    <2>3. written \in HookCalls /\ written.hook = p.hook /\ written.written /\ written.before = p.before
      BY <2>2 DEF HookCalls
    <2> HIDE DEF written
    <2>4. pending' = (pending \ {p}) \cup {written} /\ UNCHANGED <<watched, observed, outdated>>
      BY <1>7, <2>1 DEF ServerWrites, written
    <2>5. news(p) \subseteq Relevant /\ news(p) \subseteq {p.hook} /\ news(p) \subseteq Hooks
      BY <2>2 DEF Relevant
    <2>6. PICK new : new = news(p)
      OBVIOUS
    <2>7. /\ answer' = IF answer.known THEN [answer EXCEPT !.lacks = @ \cup new] ELSE answer
          /\ fetching' = IF fetching.read THEN [fetching EXCEPT !.lacks = @ \cup new] ELSE fetching
          /\ new \subseteq Relevant /\ new \subseteq {p.hook} /\ new \subseteq Hooks
      BY <2>1, <2>5, <2>6
    <2> HIDE DEF news
    <2>8. /\ answer' \in CacheTypes /\ answer'.known = answer.known /\ answer'.excused = answer.excused
          /\ answer'.lacks \subseteq answer.lacks \cup new
          /\ ~answer.known => answer' = answer
      BY <1>t, <2>7 DEF CacheTypes
    <2>9. /\ fetching' \in Requests /\ fetching'.sent = fetching.sent
          /\ fetching'.lacks \subseteq fetching.lacks \cup new
      BY <1>t, <2>7 DEF Requests
    <2>10. QueryTypeOK'
      BY <2>3, <2>4, <2>8, <2>9 DEF QueryInv, QueryTypeOK
    <2>11. LackInv'
      <3>1. answer'.lacks \subseteq Relevant' /\ fetching'.lacks \subseteq Relevant'
        BY <2>4, <2>7, <2>8, <2>9 DEF QueryInv, LackInv, Relevant
      <3>2. \A c \in pending' : c.before.lacks \subseteq Relevant'
        BY <2>3, <2>4 DEF QueryInv, LackInv, Relevant
      <3>3. ~answer'.known => answer'.lacks = {}
        BY <2>8 DEF QueryInv, LackInv
      <3> QED  BY <3>1, <3>2, <3>3 DEF LackInv
    <2>12. PendingInv'
      BY <2>3, <2>4 DEF QueryInv, PendingInv
    <2>13. LookedAfter'
      <3> SUFFICES ASSUME answer'.known, ~answer'.excused, ~outdated', ~fetching'.sent, ~PatchPending'
                   PROVE  answer'.lacks \cap Looked' \subseteq ToBeMarked'
        BY DEF LookedAfter
      <3>1. ~PatchPending
        BY <2>3, <2>4 DEF PatchPending
      <3>2. answer.lacks \cap Looked \subseteq ToBeMarked
        BY <2>4, <2>8, <2>9, <3>1 DEF QueryInv, LookedAfter
      <3>3. ToBeMarked \subseteq ToBeMarked'
        BY <2>1, <2>4 DEF ToBeMarked
      <3>4. p.hook \in ToBeMarked'
        BY <2>2, <2>3, <2>4 DEF ToBeMarked
      <3>5. Looked' = Looked
        BY <2>4 DEF Looked, FamilyWrites, KnownGaps
      <3> QED  BY <2>7, <2>8, <3>2, <3>3, <3>4, <3>5
    <2> QED  BY <2>10, <2>11, <2>12, <2>13 DEF QueryInv
  <1>8. CASE HookSucceeds
    <2>1. PICK p \in pending :
              /\ p.written
              /\ pending' = pending \ {p}
              /\ answer' = IF Appends(p.hook) THEN [answer EXCEPT !.known = TRUE, !.guess = TRUE] ELSE answer
              /\ invalidateQueries(p.hook)
      BY <1>8 DEF HookSucceeds
    <2>2. /\ answer' \in CacheTypes /\ answer'.lacks = answer.lacks
          /\ answer.known => answer'.known
          /\ answer'.excused = answer.excused
      BY <1>t, <2>1 DEF CacheTypes
    <2>3. UNCHANGED <<watched, observed>>
      BY <1>8 DEF HookSucceeds
    <2>4. answer'.lacks \subseteq Relevant /\ (~answer'.known => answer'.lacks = {})
      BY <2>2 DEF QueryInv, LackInv
    <2>5. CASE Marks(p.hook, watched)
      BY <2>1, <2>2, <2>3, <2>4, <2>5, HookMarks
    <2>6. CASE ~Marks(p.hook, watched)
      <3>1. outdated' = outdated /\ fetching' = fetching
        BY <2>1, <2>6 DEF invalidateQueries
      <3>2. p.hook \notin answer.lacks \cap Looked
        BY <2>6, LookedMark DEF QueryInv, LackInv
      <3>3. LookedAfter'
        <4> SUFFICES ASSUME answer'.known, ~answer'.excused, ~outdated', ~fetching'.sent, ~PatchPending'
                     PROVE  answer'.lacks \cap Looked' \subseteq ToBeMarked'
          BY DEF LookedAfter
        <4>1. ~PatchPending
          BY <2>1, <2>3, <2>6 DEF PatchPending
        <4>2. answer.lacks \cap Looked \subseteq ToBeMarked
          BY <2>2, <3>1, <4>1 DEF QueryInv, LookedAfter, LackInv
        <4>3. ToBeMarked \ {p.hook} \subseteq ToBeMarked'
          BY <2>1 DEF ToBeMarked
        <4>4. Looked' = Looked
          BY <2>3 DEF Looked, FamilyWrites, KnownGaps
        <4> QED  BY <2>2, <3>2, <4>2, <4>3, <4>4
      <3>4. QueryTypeOK'
        BY <2>1, <2>2, <2>3, <3>1 DEF QueryInv, QueryTypeOK
      <3>5. LackInv' /\ PendingInv'
        BY <2>1, <2>3, <2>4, <3>1 DEF QueryInv, LackInv, PendingInv, Relevant
      <3> QED  BY <3>3, <3>4, <3>5 DEF QueryInv
    <2> QED  BY <2>5, <2>6
  <1>9. CASE HookFails
    <2>1. PICK p \in pending :
              /\ pending' = pending \ {p}
              /\ answer' = IF p.hook.patches /\ p.before.known THEN p.before
                           ELSE [answer EXCEPT !.excused = @ \/ (p.written /\ ~p.hook.patches)]
              /\ IF p.hook.patches THEN invalidateQueries(p.hook) ELSE UNCHANGED <<outdated, fetching>>
      BY <1>9 DEF HookFails
    <2>2. UNCHANGED <<watched, observed>>
      BY <1>9 DEF HookFails
    <2>3. p.before \in CacheTypes
      BY DEF QueryInv, QueryTypeOK, HookCalls
    <2>4. CASE p.hook.patches
      <3>1. Marks(p.hook, watched)
        BY <2>4, PatchingMarks DEF QueryInv
      <3>2. answer' \in CacheTypes
        BY <1>t, <2>1, <2>3 DEF CacheTypes
      <3>3. \/ answer'.lacks = p.before.lacks /\ answer'.known
            \/ answer'.lacks = answer.lacks /\ answer'.known = answer.known
        BY <1>t, <2>1 DEF CacheTypes
      <3>4. answer'.lacks \subseteq Relevant /\ (~answer'.known => answer'.lacks = {})
        BY <3>3 DEF QueryInv, LackInv
      <3> QED  BY <2>1, <2>2, <2>4, <3>1, <3>2, <3>4, HookMarks
    <2>5. CASE ~p.hook.patches
      <3>1. /\ answer' = [answer EXCEPT !.excused = @ \/ p.written]
            /\ outdated' = outdated /\ fetching' = fetching
        BY <2>1, <2>5
      <3>2. /\ answer' \in CacheTypes /\ answer'.lacks = answer.lacks /\ answer'.known = answer.known
            /\ ~answer'.excused => ~answer.excused /\ ~p.written
        BY <1>t, <3>1, Zenon DEF CacheTypes
      <3>3. LookedAfter'
        <4> SUFFICES ASSUME answer'.known, ~answer'.excused, ~outdated', ~fetching'.sent, ~PatchPending'
                     PROVE  answer'.lacks \cap Looked' \subseteq ToBeMarked'
          BY DEF LookedAfter
        <4>1. ~PatchPending
          BY <2>1, <2>2, <2>5 DEF PatchPending
        <4>2. answer.lacks \cap Looked \subseteq ToBeMarked
          BY <3>1, <3>2, <4>1 DEF QueryInv, LookedAfter
        <4>3. ToBeMarked \subseteq ToBeMarked'
          BY <2>1, <3>2 DEF ToBeMarked
        <4>4. Looked' = Looked
          BY <2>2 DEF Looked, FamilyWrites, KnownGaps
        <4> QED  BY <3>2, <4>2, <4>3, <4>4
      <3>4. QueryTypeOK'
        BY <2>1, <2>2, <3>1, <3>2 DEF QueryInv, QueryTypeOK
      <3>5. LackInv' /\ PendingInv'
        BY <2>1, <2>2, <3>1, <3>2 DEF QueryInv, LackInv, PendingInv, Relevant
      <3> QED  BY <3>3, <3>4, <3>5 DEF QueryInv
    <2> QED  BY <2>4, <2>5
  <1>10. CASE UNCHANGED queryVars
    BY <1>10, <1>t, QueryRests DEF queryVars
  <1> QED  BY <1>1, <1>2, <1>3, <1>4, <1>5, <1>6, <1>7, <1>8, <1>9, <1>10 DEF QueryNext

-----------------------------------------------------------------------------
(* The page of the organization (OrgChart) *)

\* Closed under going down
Downward(table, set) == \A d \in In(table) : table[d].parent \in set => d \in set

\* Below is the smallest set with the given departments and all that have a parent in
\* it: the rounds of its definition are as many as there are departments.
LEMMA BelowMeans ==
    ASSUME NEW table, NEW tops \in SUBSET In(table)
    PROVE  /\ tops \subseteq Below(table, tops) /\ Below(table, tops) \subseteq In(table)
           /\ Downward(table, Below(table, tops))
           /\ \A set : tops \subseteq set /\ Downward(table, set) => Below(table, tops) \subseteq set
  <1> DEFINE lower(set) == {d \in In(table) : table[d].parent \in set}
             k == Cardinality(Depts)
             is(f) == f = [n \in 0..k |-> IF n = 0 THEN tops ELSE f[n - 1] \cup lower(f[n - 1])]
             rounds == CHOOSE f : is(f)
             step == [p \in (1..k) \X SUBSET In(table) |-> p[2] \cup lower(p[2])]
  <1>0. k \in Nat /\ In(table) \subseteq Depts /\ IsFiniteSet(Depts)
    BY OrgAssumption, FS_CardinalityType DEF In
  <1>1. Below(table, tops) = rounds[k]
    BY DEF Below
  <1>2. \A set \in SUBSET In(table) : set \cup lower(set) \in SUBSET In(table)
    OBVIOUS
  <1> HIDE DEF lower, k
  <1>3. \E f : is(f) /\ f \in [0..k -> SUBSET In(table)]
    <2>1. step \in [(1..k) \X SUBSET In(table) -> SUBSET In(table)]
      BY <1>2
    <2>2. \A n \in 1..k : \A set \in SUBSET In(table) : step[<<n, set>>] = set \cup lower(set)
      OBVIOUS
    <2> HIDE DEF step
    <2> DEFINE S == SUBSET In(table)
    <2>3a. PICK f \in [0..k -> S] : Iteration(f, k, tops, step)
      <3>1. k \in Nat /\ tops \in S /\ step \in [(1..k) \X S -> S]
        BY <1>0, <2>1
      <3> HIDE DEF S
      <3> QED  BY <3>1, Iterates
    <2>3. f[0] = tops /\ \A n \in 1..k : f[n] = step[<<n, f[n - 1]>>]
      BY <2>3a DEF Iteration
    <2>4. \A n \in 1..k : f[n - 1] \in SUBSET In(table)
      BY <1>0, <2>3
    <2>5. \A n \in 1..k : f[n] = f[n - 1] \cup lower(f[n - 1])
      BY <2>2, <2>3, <2>4
    <2>6. \A n \in 0..k : f[n] = IF n = 0 THEN tops ELSE f[n - 1] \cup lower(f[n - 1])
      BY <1>0, <2>3, <2>5
    <2>7. is(f)
      BY <2>3, <2>6
    <2> QED  BY <2>3, <2>7
  <1>4. is(rounds)
    BY <1>3, Zenon
  <1> HIDE DEF rounds
  <1>5. rounds[0] = tops /\ \A n \in 1..k : rounds[n] = rounds[n - 1] \cup lower(rounds[n - 1])
    <2>1. \A n \in 0..k : rounds[n] = IF n = 0 THEN tops ELSE rounds[n - 1] \cup lower(rounds[n - 1])
      BY <1>4, Zenon
    <2>2. 0 \in 0..k /\ \A n \in 1..k : n \in 0..k /\ n # 0
      BY <1>0
    <2> QED  BY <2>1, <2>2
  <1>6. \A n \in 0..k : rounds[n] \in SUBSET In(table)
    <2> DEFINE P == {n \in 0..k : rounds[n] \in SUBSET In(table)}
    <2>1. 0 \in P
      BY <1>0, <1>5
    <2>2. \A n \in 1..k : n - 1 \in P => n \in P
      BY <1>0, <1>2, <1>5
    <2>3. \A n \in 0..k : n \in P
      <3> HIDE DEF P
      <3> QED  BY <1>0, <2>1, <2>2, CountedUp
    <2> QED  BY <2>3
  <1>7. \A n \in 0..k : tops \subseteq rounds[n]
    <2> DEFINE P == {n \in 0..k : tops \subseteq rounds[n]}
    <2>1. 0 \in P
      BY <1>0, <1>5
    <2>2. \A n \in 1..k : n - 1 \in P => n \in P
      BY <1>0, <1>5
    <2>3. \A n \in 0..k : n \in P
      <3> HIDE DEF P
      <3> QED  BY <1>0, <2>1, <2>2, CountedUp
    <2> QED  BY <2>3
  <1>8. ASSUME NEW set, tops \subseteq set, Downward(table, set)
        PROVE  \A n \in 0..k : rounds[n] \subseteq set
    <2> DEFINE P == {n \in 0..k : rounds[n] \subseteq set}
    <2>1. 0 \in P
      BY <1>0, <1>5, <1>8
    <2>2. ASSUME NEW n \in 1..k, n - 1 \in P  PROVE n \in P
      <3>1. lower(rounds[n - 1]) \subseteq set
        BY <1>8, <2>2 DEF lower, Downward
      <3> QED  BY <1>0, <1>5, <2>2, <3>1
    <2>3. \A n \in 0..k : n \in P
      <3> HIDE DEF P
      <3> QED  BY <1>0, <2>1, <2>2, CountedUp
    <2> QED  BY <2>3
  \* A round that finds a department makes the set larger, a set as large as Depts has
  \* them all.
  <1>9. \A n \in 0..k : Cardinality(rounds[n]) >= n \/ lower(rounds[n]) \subseteq rounds[n]
    <2> DEFINE P == {n \in 0..k : Cardinality(rounds[n]) >= n \/ lower(rounds[n]) \subseteq rounds[n]}
    <2>0. \A n \in 0..k : IsFiniteSet(rounds[n]) /\ Cardinality(rounds[n]) \in Nat
      BY <1>0, <1>6, FS_Subset, FS_CardinalityType
    <2>1. 0 \in P
      BY <1>0, <2>0
    <2>2. ASSUME NEW n \in 1..k, n - 1 \in P  PROVE n \in P
      <3>0. n - 1 \in 0..k /\ n \in 0..k
        BY <1>0
      <3>1. rounds[n] = rounds[n - 1] \cup lower(rounds[n - 1])
        BY <1>5
      <3>2. CASE lower(rounds[n - 1]) \subseteq rounds[n - 1]
        <4>1. rounds[n] = rounds[n - 1]
          BY <3>1, <3>2
        <4> QED  BY <3>0, <3>2, <4>1
      <3>3. CASE ~(lower(rounds[n - 1]) \subseteq rounds[n - 1])
        <4>1. Cardinality(rounds[n - 1]) >= n - 1
          BY <2>2, <3>3
        <4>2. Cardinality(rounds[n - 1]) <= Cardinality(rounds[n])
              /\ Cardinality(rounds[n - 1]) # Cardinality(rounds[n])
          <5>1. rounds[n - 1] \in SUBSET rounds[n] /\ rounds[n - 1] # rounds[n]
            BY <3>1, <3>3
          <5> QED  BY <2>0, <3>0, <5>1, FS_Subset
        <4>3. Cardinality(rounds[n]) >= n
          BY <2>0, <3>0, <4>1, <4>2
        <4> QED  BY <3>0, <4>3
      <3> QED  BY <3>2, <3>3
    <2>3. \A n \in 0..k : n \in P
      <3> HIDE DEF P
      <3> QED  BY <1>0, <2>1, <2>2, CountedUp
    <2> QED  BY <2>3
  <1>10. lower(rounds[k]) \subseteq rounds[k]
    <2>0. k \in 0..k /\ rounds[k] \in SUBSET Depts
      BY <1>0, <1>6
    <2>1. CASE lower(rounds[k]) \subseteq rounds[k]
      BY <2>1
    <2>2. CASE Cardinality(rounds[k]) >= k
      <3>1. Cardinality(rounds[k]) <= k /\ Cardinality(rounds[k]) \in Nat
        BY <1>0, <2>0, FS_Subset, FS_CardinalityType DEF k
      <3>2. rounds[k] = Depts
        <4>1. Cardinality(rounds[k]) = k
          BY <1>0, <2>2, <3>1
        <4> QED  BY <1>0, <2>0, <4>1, FS_Subset DEF k
      <3> QED  BY <1>0, <3>2 DEF lower
    <2> QED  BY <1>9, <2>0, <2>1, <2>2
  <1>11. k \in 0..k
    BY <1>0
  <1>12. Downward(table, rounds[k])
    BY <1>10 DEF Downward, lower
  <1> QED  BY <1>1, <1>6, <1>7, <1>8, <1>11, <1>12

\* A table is a forest if every set of departments has one whose parent is not in it.
WellFounded(table) ==
    \A set \in SUBSET In(table) : set # {} => \E d \in set : table[d].parent \notin set

LEMMA ForestMeans ==
    ASSUME NEW table
    PROVE  Forest(table) <=> WellFounded(table)
  <1> DEFINE B == Below(table, Roots(table))
  <1>0. Roots(table) \in SUBSET In(table)
    BY DEF Roots
  <1>1. /\ Roots(table) \subseteq B /\ B \subseteq In(table) /\ Downward(table, B)
        /\ \A set : Roots(table) \subseteq set /\ Downward(table, set) => B \subseteq set
    BY <1>0, BelowMeans
  <1> HIDE DEF B
  <1>2. ASSUME B = In(table), NEW set \in SUBSET In(table), \A d \in set : table[d].parent \in set
        PROVE  set = {}
    <2> DEFINE rest == In(table) \ set
    <2>1. Roots(table) \subseteq rest
      BY <1>2 DEF Roots
    <2>2. Downward(table, rest)
      BY <1>2 DEF Downward
    <2>3. B \subseteq rest
      BY <1>1, <2>1, <2>2
    <2> QED  BY <1>2, <2>3
  <1>3. ASSUME WellFounded(table)  PROVE B = In(table)
    <2> DEFINE rest == In(table) \ B
    <2> SUFFICES ASSUME rest # {}  PROVE FALSE
      BY <1>1
    <2>1. PICK d \in rest : table[d].parent \notin rest
      BY <1>3 DEF WellFounded
    <2>2. CASE table[d].parent \in B
      BY <1>1, <2>1, <2>2 DEF Downward
    <2>3. CASE table[d].parent \notin In(table)
      BY <1>1, <2>1, <2>3 DEF Roots
    <2> QED  BY <2>1, <2>2, <2>3
  <1> QED  BY <1>2, <1>3 DEF Forest, WellFounded, B

\* Everybody below a department but itself has a parent there.
LEMMA ParentBelow ==
    ASSUME NEW table, NEW r \in In(table), NEW d \in Below(table, {r}), d # r
    PROVE  table[d].parent \in Below(table, {r})
  <1> DEFINE B == Below(table, {r})
             those == {r} \cup {e \in B : table[e].parent \in B}
  <1>1. /\ {r} \subseteq B /\ B \subseteq In(table) /\ Downward(table, B)
        /\ \A set : {r} \subseteq set /\ Downward(table, set) => B \subseteq set
    BY BelowMeans
  <1>2. d \in B
    OBVIOUS
  <1> HIDE DEF B
  <1>3. those \subseteq B
    BY <1>1
  <1>4. Downward(table, those)
    BY <1>1, <1>3 DEF Downward
  <1>5. B \subseteq those
    BY <1>1, <1>4
  <1> QED  BY <1>2, <1>5 DEF B

\* In a forest every department is below one root.
LEMMA OneRoot ==
    ASSUME NEW table, WellFounded(table), NEW d \in In(table)
    PROVE  \E r \in Roots(table) : {x \in Roots(table) : d \in Below(table, {x})} = {r}
  <1> DEFINE over(e) == {x \in Roots(table) : e \in Below(table, {x})}
  <1>0. Roots(table) \subseteq In(table)
    BY DEF Roots
  <1>1. ASSUME NEW e \in In(table), NEW r \in Roots(table)
        PROVE  /\ e \in Below(table, {r}) /\ e # r => table[e].parent \in Below(table, {r})
               /\ table[e].parent \in Below(table, {r}) => e \in Below(table, {r})
               /\ r \in Below(table, {r}) /\ Below(table, {r}) \subseteq In(table)
               /\ table[r].parent \notin In(table)
    <2>1. {r} \in SUBSET In(table) /\ r \in In(table) /\ table[r].parent \notin In(table)
      BY DEF Roots
    <2>2. /\ {r} \subseteq Below(table, {r}) /\ Below(table, {r}) \subseteq In(table)
          /\ Downward(table, Below(table, {r}))
      BY <2>1, BelowMeans
    <2>3. e \in Below(table, {r}) /\ e # r => table[e].parent \in Below(table, {r})
      BY <2>1, ParentBelow
    <2> QED  BY <2>1, <2>2, <2>3 DEF Downward
  \* Roots over a department are those over its parent.
  <1>2. ASSUME NEW e \in In(table), table[e].parent \in In(table)
        PROVE  over(e) = over(table[e].parent)
    <2>1. \A r \in Roots(table) : r # e
      BY <1>2 DEF Roots
    <2> QED  BY <1>1, <2>1
  <1>3. ASSUME NEW e \in In(table), table[e].parent \notin In(table)
        PROVE  over(e) = {e} /\ e \in Roots(table)
    <2>1. e \in Roots(table)
      BY <1>3 DEF Roots
    <2>2. ASSUME NEW r \in Roots(table), e \in Below(table, {r})  PROVE r = e
      BY <1>1, <1>3, <2>2
    <2> QED  BY <1>1, <2>1, <2>2
  <1> DEFINE bad == {e \in In(table) : ~\E r \in Roots(table) : over(e) = {r}}
  <1>4. bad = {}
    <2> SUFFICES ASSUME bad # {}  PROVE FALSE
      OBVIOUS
    <2>1. PICK e \in bad : table[e].parent \notin bad
      BY DEF WellFounded
    <2>2. CASE table[e].parent \in In(table)
      BY <1>2, <2>1, <2>2
    <2>3. CASE table[e].parent \notin In(table)
      BY <1>3, <2>1, <2>3
    <2> QED  BY <2>2, <2>3
  <1> QED  BY <1>4

-----------------------------------------------------------------------------
(* The invariant of the organization *)

\* Ids that no department has had yet, and those an update names.
NeverBorn == {d \in Depts : depts[d] = NotYet}
NamedBy(r) == {r.id, r.parent, r.at} \cup r.visited

\* References lead to departments that exist; what a page or an update names has existed.
Linked ==
    /\ \A d \in In(depts) : depts[d].parent \in In(depts) \cup {None}
    /\ \A p \in People : people[p].dept \in In(depts) \cup {None}
    /\ NeverBorn \cap (In(chart.depts) \cup {editing.id, editing.parent}) = {}
    /\ \A n \in DOMAIN patches : NeverBorn \cap NamedBy(patches[n]) = {}

\* What a walk up the parents has seen leads on to where it is.
WalkHolds(r) ==
    /\ r.id \in r.visited /\ r.parent \in (r.visited \ {r.id}) \cup {r.at} /\ r.parent # r.id
    /\ \A d \in (r.visited \ {r.id}) \cap In(depts) :
          depts[d].parent \in (r.visited \ {r.id}) \cup {r.at, None}

\* As long as no two updates gave a parent together and no query failed.
OneWalk ==
    /\ WellFounded(depts)
    /\ \A n \in DOMAIN patches : patches[n].parent # None =>
          /\ WalkHolds(patches[n])
          /\ \A m \in DOMAIN patches : patches[m].parent # None => m = n

OrgInv == OrgTypeOK /\ Linked /\ (unchecked \/ OneWalk)

LEMMA TableFacts ==
    ASSUME NEW table \in DeptTable
    PROVE  /\ \A d \in Depts : d \in In(table) <=> table[d] \in Department
           /\ \A d \in In(table) : /\ table[d].parent \in Depts \cup {None} /\ table[d].sub \in Subs \cup {None}
                                   /\ table[d] # NotYet
           /\ None \notin In(table) /\ In(table) \subseteq Depts
  <1>1. \A x \in Department : x # NotYet /\ x # DeletedDept
    <2>1. ASSUME NEW x \in Department  PROVE x.parent # "not yet" /\ x.parent # "deleted"
      BY OrgAssumption DEF Department, None
    <2>2. NotYet.parent = "not yet" /\ DeletedDept.parent = "deleted"
      BY DEF NotYet, DeletedDept
    <2> QED  BY <2>1, <2>2
  <1>2. \A d \in Depts : table[d] \in Department \/ table[d] = NotYet \/ table[d] = DeletedDept
    BY DEF DeptTable
  <1>3. \A x \in Department : x.parent \in Depts \cup {None} /\ x.sub \in Subs \cup {None}
    BY DEF Department
  <1>4. In(table) \subseteq Depts /\ None \notin Depts
    BY OrgAssumption DEF In
  <1>5. \A d \in Depts : d \in In(table) <=> table[d] \in Department
    BY <1>1, <1>2 DEF In
  <1> QED  BY <1>1, <1>3, <1>4, <1>5

LEMMA OrgStarts == OrgInit => OrgInv
  <1> SUFFICES ASSUME OrgInit  PROVE OrgInv
    OBVIOUS
  <1>1. /\ depts \in [Depts -> Department \cup {NotYet}] /\ In(depts) = OldDepts /\ Forest(depts)
        /\ \A d \in OldDepts : depts[d].parent \in OldDepts \cup {None}
    BY DEF OrgInit, OldTables
  <1>2. depts \in DeptTable
    BY <1>1 DEF DeptTable
  <1>3. \A d \in OldDepts : depts[d].sub \in Subs \cup {None} /\ d \in Depts
    BY <1>1, <1>2, TableFacts, OrgAssumption
  <1>4. people \in PersonTable /\ \A p \in People : people[p].dept \in OldDepts \cup {None}
    <2> DEFINE those == {[dept |-> d, sub |-> depts[d].sub, active |-> TRUE] : d \in OldDepts}
                        \cup {[dept |-> None, sub |-> None, active |-> TRUE]}
    <2>1. people \in [People -> those]
      BY DEF OrgInit
    <2>2. \A x \in those : x \in Person /\ x.dept \in OldDepts \cup {None}
      <3>1. ASSUME NEW d \in OldDepts
            PROVE  [dept |-> d, sub |-> depts[d].sub, active |-> TRUE] \in Person
        BY <1>3 DEF Person
      <3>2. [dept |-> None, sub |-> None, active |-> TRUE] \in Person
        BY DEF Person
      <3>3. ASSUME NEW x \in those  PROVE x \in Person /\ x.dept \in OldDepts \cup {None}
        <4>1. CASE x = [dept |-> None, sub |-> None, active |-> TRUE]
          BY <3>2, <4>1
        <4>2. CASE \E d \in OldDepts : x = [dept |-> d, sub |-> depts[d].sub, active |-> TRUE]
          <5>1. PICK d \in OldDepts : x = [dept |-> d, sub |-> depts[d].sub, active |-> TRUE]
            BY <4>2
          <5>2. x \in Person
            BY <3>1, <5>1
          <5> QED  BY <5>1, <5>2
        <4> QED  BY <4>1, <4>2
      <3> QED  BY <3>3
    <2> HIDE DEF those
    <2> QED  BY <2>1, <2>2 DEF PersonTable
  <1>5. subs \in SubTable
    BY DEF OrgInit, SubTable
  <1>6. /\ chart = [depts |-> depts, subs |-> subs, people |-> people]
        /\ editing = NotEditing /\ userForm = NoUserForm /\ patches = <<>> /\ unchecked = FALSE
    BY DEF OrgInit
  <1>7. OrgTypeOK
    <2>1. editing \in DeptForm /\ userForm \in UserForm
      BY <1>6 DEF NotEditing, NoUserForm, DeptForm, UserForm
    <2>2. patches \in Seq(Patch) /\ unchecked \in BOOLEAN
      BY <1>6, EmptySeq
    <2>3. chart \in [depts : DeptTable, subs : SubTable, people : PersonTable]
      BY <1>2, <1>4, <1>5, <1>6
    <2> QED  BY <1>2, <1>4, <1>5, <2>1, <2>2, <2>3 DEF OrgTypeOK
  <1>8. Linked
    <2>1. NeverBorn \cap In(depts) = {} /\ None \notin NeverBorn
      BY <1>2, TableFacts, OrgAssumption DEF NeverBorn
    <2>2. chart.depts = depts /\ editing.id = None /\ editing.parent = None
      BY <1>6 DEF NotEditing
    <2>3. DOMAIN patches = {}
      BY <1>6
    <2> QED  BY <1>1, <1>4, <2>1, <2>2, <2>3 DEF Linked
  <1>9. OneWalk
    <2>1. DOMAIN patches = {}
      BY <1>6
    <2> QED  BY <1>1, <2>1, ForestMeans DEF OneWalk
  <1> QED  BY <1>7, <1>8, <1>9 DEF OrgInv

\* Steps that leave the departments and their updates alone
LEMMA ElsewhereStep ==
    ASSUME OrgInv, OrgTypeOK', UNCHANGED <<depts, patches, unchecked>>,
           \A p \in People : people'[p].dept \in In(depts) \cup {None},
           NeverBorn \cap (In(chart'.depts) \cup {editing'.id, editing'.parent}) = {}
    PROVE  OrgInv'
  <1>1. depts' = depts /\ patches' = patches /\ unchecked' = unchecked
    OBVIOUS
  <1>2. Linked'
    BY <1>1 DEF OrgInv, Linked, NeverBorn
  <1>3. OneWalk' <=> OneWalk
    BY <1>1 DEF OneWalk, WalkHolds
  <1> QED  BY <1>1, <1>2, <1>3 DEF OrgInv

\* What a forest stays when references are cut, leaves are added, or a department goes
\* below one whose ancestors it is not among.
LEMMA CutForest ==
    ASSUME NEW table, NEW after, WellFounded(table), In(after) \subseteq In(table),
           \A d \in In(after) : after[d].parent \in {table[d].parent, None}, None \notin In(after)
    PROVE  WellFounded(after)
  <1> SUFFICES ASSUME NEW set \in SUBSET In(after), set # {}
               PROVE  \E d \in set : after[d].parent \notin set
    BY DEF WellFounded
  <1>1. PICK d \in set : table[d].parent \notin set
    BY DEF WellFounded
  <1>2. after[d].parent \notin set
    BY <1>1
  <1> QED  BY <1>2

LEMMA GrownForest ==
    ASSUME NEW table, NEW after, WellFounded(table), NEW new, new \notin In(table),
           In(after) = In(table) \cup {new}, after[new].parent # new,
           \A d \in In(table) : after[d].parent = table[d].parent /\ table[d].parent # new
    PROVE  WellFounded(after)
  <1> SUFFICES ASSUME NEW set \in SUBSET In(after), set # {}
               PROVE  \E d \in set : after[d].parent \notin set
    BY DEF WellFounded
  <1>1. CASE set \ {new} = {}
    BY <1>1
  <1>2. CASE set \ {new} # {}
    <2>1. PICK d \in set \ {new} : table[d].parent \notin set \ {new}
      BY <1>2 DEF WellFounded
    <2>2. d \in In(table) /\ after[d].parent \notin set
      BY <2>1
    <2> QED  BY <2>2
  <1> QED  BY <1>1, <1>2

LEMMA MovedForest ==
    ASSUME NEW table, NEW after, WellFounded(table), In(after) = In(table), None \notin In(table),
           NEW id, NEW seen, id \notin seen, after[id].parent \in seen,
           \A d \in In(table) \ {id} : after[d].parent = table[d].parent,
           \A d \in seen \cap In(table) : table[d].parent \in seen \cup {None}
    PROVE  WellFounded(after)
  <1> SUFFICES ASSUME NEW set \in SUBSET In(after), set # {}
               PROVE  \E d \in set : after[d].parent \notin set
    BY DEF WellFounded
  <1>1. CASE set \cap seen # {}
    <2>1. PICK d \in set \cap seen : table[d].parent \notin set \cap seen
      BY <1>1 DEF WellFounded
    <2>2. d # id /\ d \in In(table) /\ table[d].parent \in seen \cup {None}
      BY <2>1
    <2>3. after[d].parent \notin set
      BY <2>1, <2>2
    <2> QED  BY <2>1, <2>3
  <1>2. CASE set \cap seen = {} /\ id \in set
    BY <1>2
  <1>3. CASE id \notin set
    <2>1. PICK d \in set : table[d].parent \notin set
      BY DEF WellFounded
    <2>2. after[d].parent = table[d].parent
      BY <1>3, <2>1
    <2> QED  BY <2>1, <2>2
  <1> QED  BY <1>1, <1>2, <1>3

\* Steps that change departments and leave their updates alone.
LEMMA DepartmentsChange ==
    ASSUME OrgInv, OrgTypeOK', UNCHANGED <<patches, unchecked, chart, editing, people>>,
           NEW gone \in SUBSET In(depts), NEW new \in SUBSET NeverBorn,
           In(depts') = (In(depts) \ gone) \cup new, NeverBorn' \subseteq NeverBorn \ new,
           \A d \in In(depts) \ gone : /\ depts'[d].parent \in {depts[d].parent, None}
                                       /\ depts'[d].parent \notin gone,
           \A d \in new : depts'[d].parent \in In(depts') \cup {None},
           \A p \in People : people[p].dept \notin gone,
           WellFounded(depts) => WellFounded(depts')
    PROVE  OrgInv'
  <1>1. patches' = patches /\ unchecked' = unchecked /\ chart' = chart /\ editing' = editing /\ people' = people
    OBVIOUS
  <1>2. Linked
    BY DEF OrgInv
  <1>3. Linked'
    <2>1. \A d \in In(depts') : depts'[d].parent \in In(depts') \cup {None}
      BY <1>2 DEF Linked
    <2>2. \A p \in People : people'[p].dept \in In(depts') \cup {None}
      BY <1>1, <1>2 DEF Linked
    <2>3. NeverBorn' \cap (In(chart'.depts) \cup {editing'.id, editing'.parent}) = {}
      BY <1>1, <1>2 DEF Linked
    <2>4. \A n \in DOMAIN patches' : NeverBorn' \cap NamedBy(patches'[n]) = {}
      BY <1>1, <1>2 DEF Linked
    <2> QED  BY <2>1, <2>2, <2>3, <2>4 DEF Linked
  <1>4. ASSUME OneWalk  PROVE OneWalk'
    <2>1. ASSUME NEW n \in DOMAIN patches, WalkHolds(patches[n])
          PROVE  WalkHolds(patches[n])'
      <3> DEFINE r == patches[n]
      <3>1. NeverBorn \cap r.visited = {}
        BY <1>2 DEF Linked, NamedBy
      <3>2. \A d \in (r.visited \ {r.id}) \cap In(depts') : d \in In(depts) \ gone
        BY <3>1
      <3>3. \A d \in (r.visited \ {r.id}) \cap In(depts') :
               depts'[d].parent \in (r.visited \ {r.id}) \cup {r.at, None}
        BY <2>1, <3>2 DEF WalkHolds
      <3> QED  BY <1>1, <2>1, <3>3 DEF WalkHolds
    <2> QED  BY <1>1, <1>4, <2>1 DEF OneWalk
  <1> QED  BY <1>1, <1>3, <1>4 DEF OrgInv

LEMMA DeleteKeeps ==
    ASSUME OrgInv, NEW d, DeleteDepartment(d), UNCHANGED <<subs, people, chart, orgForms, patches, unchecked>>
    PROVE  OrgInv'
  <1>0. /\ depts \in DeptTable /\ OrgTypeOK /\ Linked
        /\ UNCHANGED <<patches, unchecked, chart, editing, people, subs, userForm>>
    BY DEF OrgInv, OrgTypeOK, orgForms
  <1>1. d \in In(depts) /\ d \in Depts /\ d # None /\ \A p \in People : people[p].dept # d
    BY <1>0, TableFacts DEF DeleteDepartment
  <1>2. \A e \in Depts : depts'[e] = IF e = d THEN DeletedDept
                                     ELSE IF depts[e].parent = d THEN [depts[e] EXCEPT !.parent = None]
                                     ELSE depts[e]
    BY DEF DeleteDepartment
  <1>3. \A e \in Depts : depts[e] \notin Department => depts[e].parent \notin Depts
    <2>1. NotYet.parent = "not yet" /\ DeletedDept.parent = "deleted"
      BY DEF NotYet, DeletedDept
    <2> QED  BY <1>0, <2>1, OrgAssumption DEF DeptTable
  <1>4. ASSUME NEW e \in Depts, depts[e] \in Department
        PROVE  [depts[e] EXCEPT !.parent = None] \in Department /\ [depts[e] EXCEPT !.parent = None].parent = None
    BY <1>4 DEF Department
  <1>5. ASSUME NEW e \in Depts \ {d}
        PROVE  /\ depts[e] \notin Department => depts'[e] = depts[e]
               /\ depts[e] \in Department => /\ depts'[e] \in Department
                                            /\ depts'[e].parent = IF depts[e].parent = d THEN None ELSE depts[e].parent
    BY <1>1, <1>2, <1>3, <1>4
  <1>6. DeletedDept \notin Department /\ DeletedDept # NotYet
    <2>1. \A x \in Department : x.parent # "deleted"
      BY OrgAssumption DEF Department, None
    <2> QED  BY <2>1 DEF DeletedDept, NotYet
  <1>7. depts' \in DeptTable
    <2>1. depts' = [e \in Depts |-> depts'[e]]
      BY DEF DeleteDepartment
    <2>2. \A e \in Depts : depts'[e] \in Department \cup {NotYet, DeletedDept}
      BY <1>0, <1>2, <1>5 DEF DeptTable
    <2> QED  BY <2>1, <2>2 DEF DeptTable
  <1>8. In(depts') = In(depts) \ {d}
    <2>1. /\ \A e \in Depts : e \in In(depts) <=> depts[e] \in Department
          /\ \A e \in Depts : e \in In(depts') <=> depts'[e] \in Department
          /\ In(depts) \subseteq Depts /\ In(depts') \subseteq Depts
      BY <1>0, <1>7, TableFacts
    <2> QED  BY <1>1, <1>2, <1>5, <1>6, <2>1
  <1>9. NeverBorn' \subseteq NeverBorn
    <2>1. NotYet \notin Department
      BY OrgAssumption DEF Department, NotYet, None
    <2> QED  BY <1>2, <1>5, <1>6, <2>1 DEF NeverBorn
  <1>10. OrgTypeOK'
    BY <1>0, <1>7 DEF OrgTypeOK
  <1>11. \A e \in In(depts) \ {d} : /\ depts'[e].parent \in {depts[e].parent, None}
                                     /\ depts'[e].parent \notin {d}
    <2>1. \A e \in In(depts) : e \in Depts /\ depts[e] \in Department
      BY <1>0, TableFacts
    <2> QED  BY <1>1, <1>5, <2>1
  <1>12. None \notin In(depts')
    BY <1>7, TableFacts
  <1>13. WellFounded(depts) => WellFounded(depts')
    BY <1>8, <1>11, <1>12, CutForest
  <1>14. {} \in SUBSET NeverBorn /\ {d} \in SUBSET In(depts) /\ In(depts') = (In(depts) \ {d}) \cup {}
    BY <1>1, <1>8
  <1> QED  BY <1>0, <1>1, <1>9, <1>10, <1>11, <1>13, <1>14, DepartmentsChange

LEMMA CreateKeeps ==
    ASSUME OrgInv, NEW parent, NEW sub, CreateDepartment(parent, sub),
           UNCHANGED <<subs, people, chart, orgForms, patches, unchecked>>
    PROVE  OrgInv'
  <1>0. /\ depts \in DeptTable /\ OrgTypeOK /\ Linked
        /\ UNCHANGED <<patches, unchecked, chart, editing, people, subs, userForm>>
    BY DEF OrgInv, OrgTypeOK, orgForms
  <1>1. PICK d \in Depts : /\ depts[d] = NotYet
                           /\ depts' = [depts EXCEPT ![d] = [parent |-> parent, sub |-> sub]]
    BY DEF CreateDepartment
  <1>2. parent \in In(depts) \cup {None} /\ sub \in Subs \cup {None}
    BY DEF CreateDepartment, Existing
  <1>3. d \in NeverBorn /\ d \notin In(depts) /\ d # None
    BY <1>0, <1>1, OrgAssumption DEF NeverBorn, In
  <1>4. [parent |-> parent, sub |-> sub] \in Department
    BY <1>0, <1>2, TableFacts DEF Department
  <1>5. /\ depts' \in DeptTable /\ depts'[d] = [parent |-> parent, sub |-> sub]
        /\ \A e \in Depts \ {d} : depts'[e] = depts[e]
    BY <1>0, <1>1, <1>4 DEF DeptTable
  <1>6. In(depts') = In(depts) \cup {d}
    <2>1. /\ \A e \in Depts : e \in In(depts) <=> depts[e] \in Department
          /\ \A e \in Depts : e \in In(depts') <=> depts'[e] \in Department
          /\ In(depts) \subseteq Depts /\ In(depts') \subseteq Depts
      BY <1>0, <1>5, TableFacts
    <2> QED  BY <1>4, <1>5, <2>1
  <1>7. NeverBorn' \subseteq NeverBorn \ {d}
    <2>1. depts'[d] # NotYet
      BY <1>5, <1>6, TableFacts
    <2> QED  BY <1>5, <2>1 DEF NeverBorn
  <1>8. OrgTypeOK'
    BY <1>0, <1>5 DEF OrgTypeOK
  <1>9. \A e \in In(depts) : depts'[e].parent = depts[e].parent /\ depts[e].parent # d
    <2>1. \A e \in In(depts) : e \in Depts \ {d} /\ depts[e].parent \in In(depts) \cup {None}
      BY <1>0, <1>3, TableFacts DEF Linked
    <2> QED  BY <1>3, <1>5, <2>1
  <1>10. depts'[d].parent = parent /\ parent # d /\ parent \in In(depts') \cup {None}
    BY <1>2, <1>3, <1>5, <1>6
  <1>11. WellFounded(depts) => WellFounded(depts')
    BY <1>3, <1>6, <1>9, <1>10, GrownForest
  <1>12. {d} \in SUBSET NeverBorn /\ {} \in SUBSET In(depts) /\ In(depts') = (In(depts) \ {}) \cup {d}
    BY <1>3, <1>6
  <1> DEFINE gone == {}
  <1>13. /\ gone \in SUBSET In(depts) /\ In(depts') = (In(depts) \ gone) \cup {d}
         /\ \A e \in In(depts) \ gone : depts'[e].parent \in {depts[e].parent, None} /\ depts'[e].parent \notin gone
         /\ \A e \in {d} : depts'[e].parent \in In(depts') \cup {None}
         /\ \A p \in People : people[p].dept \notin gone
    BY <1>6, <1>9, <1>10
  <1> HIDE DEF gone
  <1> QED  BY <1>0, <1>7, <1>8, <1>11, <1>12, <1>13, DepartmentsChange

\* An update begins.
LEMMA UpdateBegins ==
    ASSUME OrgInv, NEW d \in Depts \ NeverBorn, NEW parent \in (Depts \cup {None}) \ NeverBorn,
           NEW sub \in Subs \cup {None}, NEW mine \in BOOLEAN, UpdateDepartment(d, parent, sub, mine),
           UNCHANGED <<depts, subs, people, chart, editing, userForm>>
    PROVE  OrgInv'
  <1> DEFINE r == [id |-> d, parent |-> parent, sub |-> sub, at |-> parent, visited |-> {d}, mine |-> mine]
  <1>0. /\ patches \in Seq(Patch) /\ OrgTypeOK /\ Linked
        /\ depts' = depts /\ subs' = subs /\ people' = people /\ chart' = chart
        /\ editing' = editing /\ userForm' = userForm
    BY DEF OrgInv, OrgTypeOK
  <1>1. /\ r.id = d /\ r.parent = parent /\ r.at = parent /\ r.visited = {d} /\ parent # d
        /\ patches' = Append(patches, r)
        /\ unchecked' = (unchecked \/ (parent # None /\ \E n \in DOMAIN patches : patches[n].parent # None))
    BY DEF UpdateDepartment
  <1>2. r \in Patch
    BY DEF Patch
  <1> HIDE DEF r
  <1>3. PICK k \in Nat : k = Len(patches) /\ DOMAIN patches = 1..k
    BY <1>0, LenProperties
  <1>4. /\ patches' \in Seq(Patch) /\ DOMAIN patches' = 1..k + 1
        /\ \A n \in 1..k : patches'[n] = patches[n]
        /\ patches'[k + 1] = r
    <2>1. patches' \in Seq(Patch) /\ Len(patches') = k + 1
      BY <1>0, <1>1, <1>2, <1>3, AppendType
    <2>2. DOMAIN patches' = 1..k + 1
      BY <2>1, LenProperties
    <2> QED  BY <1>0, <1>1, <1>2, <1>3, <2>1, <2>2, AppendProperties
  <1>5. \A n \in 1..k + 1 : n = k + 1 \/ n \in 1..k
    BY <1>3
  <1>6. unchecked' \in BOOLEAN
    BY <1>0, <1>1, Zenon DEF OrgTypeOK
  <1>7. OrgTypeOK'
    BY <1>0, <1>4, <1>6 DEF OrgTypeOK
  <1>8. Linked'
    <2>1. NamedBy(r) = {d, parent}
      BY <1>1 DEF NamedBy
    <2>2. NeverBorn \cap NamedBy(r) = {}
      BY <2>1
    <2> QED  BY <1>0, <1>3, <1>4, <1>5, <2>2 DEF Linked, NeverBorn
  <1>9. ASSUME ~unchecked', OneWalk  PROVE OneWalk'
    <2>1. parent = None \/ \A n \in 1..k : patches[n].parent = None
      BY <1>1, <1>3, <1>9
    <2>2. parent # None => WalkHolds(r)
      BY <1>1 DEF WalkHolds
    <2>3. \A x : WalkHolds(x)' <=> WalkHolds(x)
      BY <1>0 DEF WalkHolds
    <2>4. ASSUME NEW n \in 1..k + 1, patches'[n].parent # None
          PROVE  /\ WalkHolds(patches'[n])
                 /\ \A m \in 1..k + 1 : patches'[m].parent # None => m = n
      <3>1. CASE n = k + 1
        BY <1>1, <1>4, <1>5, <2>1, <2>2, <2>4, <3>1
      <3>2. CASE n \in 1..k
        BY <1>1, <1>3, <1>4, <1>5, <1>9, <2>1, <2>4, <3>2 DEF OneWalk
      <3> QED  BY <1>5, <3>1, <3>2
    <2>5. \A n \in DOMAIN patches' : patches'[n].parent # None =>
              /\ WalkHolds(patches[n])'
              /\ \A m \in DOMAIN patches' : patches'[m].parent # None => m = n
      BY <1>4, <2>3, <2>4
    <2> QED  BY <1>0, <1>9, <2>5 DEF OneWalk
  <1>10. ~unchecked' => ~unchecked
    BY <1>1
  <1> QED  BY <1>7, <1>8, <1>9, <1>10 DEF OrgInv

\* An update ends without a write: the others are those that were there.
LEMMA UpdateEnds ==
    ASSUME NEW n \in DOMAIN patches, OrgInv, PatchEnds(n)
    PROVE  /\ patches' \in Seq(Patch)
           /\ \E back \in [DOMAIN patches' -> DOMAIN patches \ {n}] :
                 /\ \A i \in DOMAIN patches' : patches'[i] = patches[back[i]]
                 /\ \A i, j \in DOMAIN patches' : back[i] = back[j] => i = j
  <1>0. patches \in Seq(Patch)
    BY DEF OrgInv, OrgTypeOK
  <1>1. PICK k \in Nat : k = Len(patches) /\ DOMAIN patches = 1..k
    BY <1>0, LenProperties
  <1>2. /\ patches' \in Seq(Patch) /\ Len(patches') = k - 1
        /\ \A i \in 1..k - 1 : patches'[i] = IF i < n THEN patches[i] ELSE patches[i + 1]
    BY <1>0, <1>1, RemoveAtType DEF PatchEnds
  <1>3. DOMAIN patches' = 1..k - 1
    BY <1>2, LenProperties
  <1> DEFINE back == [i \in 1..k - 1 |-> IF i < n THEN i ELSE i + 1]
  <1>4. back \in [1..k - 1 -> 1..k \ {n}]
    BY <1>1
  <1>5. \A i \in 1..k - 1 : patches'[i] = patches[back[i]]
    BY <1>2
  <1>6. \A i, j \in 1..k - 1 : back[i] = back[j] => i = j
    BY <1>1
  <1> HIDE DEF back
  <1>7. back \in [DOMAIN patches' -> DOMAIN patches \ {n}]
    BY <1>1, <1>3, <1>4
  <1> QED  BY <1>2, <1>3, <1>5, <1>6, <1>7

LEMMA WalkSteps ==
    ASSUME OrgInv, detectCircularDepartment
    PROVE  OrgInv'
  <1>0. /\ patches \in Seq(Patch) /\ OrgTypeOK /\ Linked /\ depts \in DeptTable
        /\ depts' = depts /\ subs' = subs /\ people' = people /\ chart' = chart
        /\ editing' = editing /\ userForm' = userForm /\ unchecked \in BOOLEAN
    BY DEF OrgInv, OrgTypeOK, detectCircularDepartment, orgTables, orgForms
  <1>1. PICK n \in DOMAIN patches :
            /\ patches[n].at # None
            /\ \/ PatchEnds(n) /\ UNCHANGED unchecked
               \/ /\ patches[n].at \notin patches[n].visited
                  /\ \/ /\ WalkOn(n, IF patches[n].at \in In(depts) THEN depts[patches[n].at].parent ELSE None)
                        /\ UNCHANGED unchecked
                     \/ WalkOn(n, None) /\ unchecked' = TRUE
    BY Zenon DEF detectCircularDepartment
  <1>2. PICK k \in Nat : k = Len(patches) /\ DOMAIN patches = 1..k
    BY <1>0, LenProperties
  <1>3. patches[n] \in Patch
    BY <1>0, <1>2, ElementOfSeq
  <1>W. \A x : WalkHolds(x)' <=> WalkHolds(x)
    BY <1>0 DEF WalkHolds
  <1>4. CASE PatchEnds(n) /\ unchecked' = unchecked
    <2>1. patches' \in Seq(Patch)
      BY <1>4, UpdateEnds
    <2>2. PICK back \in [DOMAIN patches' -> DOMAIN patches \ {n}] :
              /\ \A i \in DOMAIN patches' : patches'[i] = patches[back[i]]
              /\ \A i, j \in DOMAIN patches' : back[i] = back[j] => i = j
      BY <1>4, UpdateEnds
    <2>3. \A i \in DOMAIN patches' : back[i] \in DOMAIN patches
      BY <2>2
    <2>4. OrgTypeOK'
      BY <1>0, <1>4, <2>1 DEF OrgTypeOK
    <2>5. Linked'
      BY <1>0, <2>2, <2>3 DEF Linked, NeverBorn
    <2>6. ASSUME OneWalk  PROVE OneWalk'
      <3>1. \A i \in DOMAIN patches' : patches'[i].parent # None =>
               /\ WalkHolds(patches'[i])
               /\ \A j \in DOMAIN patches' : patches'[j].parent # None => j = i
        BY <2>2, <2>3, <2>6 DEF OneWalk
      <3>2. \A i \in DOMAIN patches' : patches'[i].parent # None => WalkHolds(patches[i])'
        BY <1>W, <3>1
      <3> QED  BY <1>0, <2>6, <3>1, <3>2 DEF OneWalk
    <2> QED  BY <1>0, <1>4, <2>4, <2>5, <2>6 DEF OrgInv
  <1>5. ASSUME patches[n].at \notin patches[n].visited, NEW next, WalkOn(n, next),
               \/ /\ next = IF patches[n].at \in In(depts) THEN depts[patches[n].at].parent ELSE None
                  /\ unchecked' = unchecked
               \/ next = None /\ unchecked' = TRUE
        PROVE  OrgInv'
    <2> DEFINE r == patches[n]
               q == [[r EXCEPT !.visited = r.visited \cup {r.at}] EXCEPT !.at = next]
    <2>1. r \in Patch /\ r.at # None /\ r.at \notin r.visited /\ r.at \in Depts
      BY <1>1, <1>3, <1>5 DEF Patch
    <2>2. /\ next \in Depts \cup {None} /\ next \notin NeverBorn
          /\ unchecked' \/ (~unchecked /\ (r.at \in In(depts) => depts[r.at].parent = next))
          /\ unchecked' \in BOOLEAN
      <3>1. None \notin NeverBorn
        BY OrgAssumption DEF NeverBorn
      <3>2. r.at \in In(depts) => depts[r.at].parent \in In(depts) \cup {None}
        BY <1>0 DEF Linked
      <3>3. In(depts) \subseteq Depts /\ In(depts) \cap NeverBorn = {}
        BY DEF In, NeverBorn
      <3>4. CASE next = (IF r.at \in In(depts) THEN depts[r.at].parent ELSE None) /\ unchecked' = unchecked
        <4>1. unchecked' \/ ~unchecked
          BY <1>0, <3>4, Zenon
        <4>2. unchecked' \in BOOLEAN
          BY <1>0, <3>4, Zenon
        <4> QED  BY <3>1, <3>2, <3>3, <3>4, <4>1, <4>2
      <3>5. CASE next = None /\ unchecked' = TRUE
        BY <3>1, <3>5
      <3> QED  BY <1>5, <3>4, <3>5
    <2>3. patches' = [patches EXCEPT ![n] = q]
      BY <1>5, Zenon DEF WalkOn
    <2>4. /\ q \in Patch /\ q.id = r.id /\ q.parent = r.parent /\ q.at = next
          /\ q.visited = r.visited \cup {r.at}
      <3> HIDE DEF r
      <3> QED  BY <2>1, <2>2 DEF Patch
    <2> HIDE DEF q
    <2>5. /\ patches' \in Seq(Patch) /\ DOMAIN patches' = 1..k
          /\ patches'[n] = q /\ \A i \in 1..k : i # n => patches'[i] = patches[i]
      BY <1>0, <1>2, <2>3, <2>4
    <2>6. OrgTypeOK'
      BY <1>0, <2>2, <2>5 DEF OrgTypeOK
    <2>7. Linked'
      <3>1. NeverBorn \cap NamedBy(r) = {}
        BY <1>0 DEF Linked
      <3>2. NeverBorn \cap NamedBy(q) = {}
        BY <2>2, <2>4, <3>1 DEF NamedBy
      <3>3. \A i \in 1..k : NeverBorn \cap NamedBy(patches'[i]) = {}
        BY <1>0, <1>2, <2>5, <3>2 DEF Linked
      <3> QED  BY <1>0, <2>5, <3>3 DEF Linked, NeverBorn
    <2>8. ASSUME ~unchecked', OneWalk  PROVE OneWalk'
      <3>1. WalkHolds(r) => WalkHolds(q)
        <4> SUFFICES ASSUME WalkHolds(r)  PROVE WalkHolds(q)
          OBVIOUS
        <4> DEFINE seen == r.visited \ {r.id}
        <4>1. q.visited \ {q.id} = seen \cup {r.at}
          BY <2>1, <2>4 DEF WalkHolds
        <4>2. ASSUME NEW d \in (seen \cup {r.at}) \cap In(depts)
              PROVE  depts[d].parent \in seen \cup {r.at} \cup {next, None}
          <5>1. CASE d = r.at
            BY <2>2, <2>8, <5>1
          <5>2. CASE d \in seen
            BY <5>2 DEF WalkHolds
          <5> QED  BY <5>1, <5>2
        <4>3. r.parent \in seen \cup {r.at} /\ r.parent # r.id /\ r.id \in r.visited
          BY DEF WalkHolds
        <4> HIDE DEF seen, r
        <4> QED  BY <2>4, <4>1, <4>2, <4>3 DEF WalkHolds
      <3>2. ASSUME NEW i \in 1..k, patches'[i].parent # None
            PROVE  /\ patches[i].parent # None /\ WalkHolds(patches'[i])
                   /\ \A j \in 1..k : patches'[j].parent # None => j = i
        <4>1. \A j \in 1..k : patches'[j].parent = patches[j].parent
          BY <2>4, <2>5
        <4> QED  BY <1>2, <2>5, <2>8, <3>1, <3>2, <4>1 DEF OneWalk
      <3>3. \A i \in DOMAIN patches' : patches'[i].parent # None => WalkHolds(patches[i])'
        BY <1>W, <2>5, <3>2
      <3>4. \A i \in DOMAIN patches' : patches'[i].parent # None =>
               \A j \in DOMAIN patches' : patches'[j].parent # None => j = i
        BY <2>5, <3>2
      <3> QED  BY <1>0, <2>8, <3>3, <3>4 DEF OneWalk
    <2>9. unchecked' \/ OneWalk'
      BY <2>2, <2>8 DEF OrgInv
    <2> QED  BY <2>6, <2>7, <2>9 DEF OrgInv
  <1> QED  BY <1>1, <1>4, <1>5

LEMMA WriteKeeps ==
    ASSUME OrgInv, WriteDepartment
    PROVE  OrgInv'
  <1>0. /\ patches \in Seq(Patch) /\ OrgTypeOK /\ Linked /\ depts \in DeptTable
        /\ subs' = subs /\ people' = people /\ chart' = chart
        /\ userForm' = userForm /\ unchecked' = unchecked
    BY DEF OrgInv, OrgTypeOK, WriteDepartment
  <1>1. PICK n \in DOMAIN patches :
            /\ patches[n].at = None /\ PatchEnds(n)
            /\ editing' \in {editing, NotEditing}
            /\ \/ UNCHANGED depts
               \/ /\ patches[n].id \in In(depts) /\ patches[n].parent \in In(depts) \cup {None}
                  /\ depts' = [depts EXCEPT ![patches[n].id] = [parent |-> patches[n].parent, sub |-> patches[n].sub]]
    BY DEF WriteDepartment
  <1> DEFINE r == patches[n]
  <1>2. r \in Patch
    <2>1. PICK k \in Nat : k = Len(patches) /\ DOMAIN patches = 1..k
      BY <1>0, LenProperties
    <2> QED  BY <1>0, <2>1, ElementOfSeq
  <1>3. patches' \in Seq(Patch)
    BY <1>1, UpdateEnds
  <1>4. PICK back \in [DOMAIN patches' -> DOMAIN patches \ {n}] :
            /\ \A i \in DOMAIN patches' : patches'[i] = patches[back[i]]
            /\ \A i, j \in DOMAIN patches' : back[i] = back[j] => i = j
    BY <1>1, UpdateEnds
  <1>5. \A i \in DOMAIN patches' : back[i] \in DOMAIN patches /\ back[i] # n
    BY <1>4
  <1> HIDE DEF r
  \* What the step leaves of the departments
  <1>6. /\ depts' \in DeptTable /\ In(depts') = In(depts) /\ NeverBorn' = NeverBorn
        /\ \A d \in In(depts') : depts'[d].parent \in {depts[d].parent} \cup (IF d = r.id THEN {r.parent} ELSE {})
        /\ depts' # depts => r.id \in In(depts) /\ depts'[r.id].parent = r.parent /\ r.parent \in In(depts) \cup {None}
    <2>1. CASE UNCHANGED depts
      BY <1>0, <2>1 DEF NeverBorn
    <2>2. CASE /\ r.id \in In(depts) /\ r.parent \in In(depts) \cup {None}
               /\ depts' = [depts EXCEPT ![r.id] = [parent |-> r.parent, sub |-> r.sub]]
      <3>1. [parent |-> r.parent, sub |-> r.sub] \in Department
        BY <1>2 DEF Patch, Department
      <3>2. r.id \in Depts /\ depts[r.id] \in Department /\ In(depts) \subseteq Depts
        BY <1>0, <2>2, TableFacts
      <3>3. /\ depts' \in DeptTable /\ depts'[r.id] = [parent |-> r.parent, sub |-> r.sub]
            /\ \A d \in Depts \ {r.id} : depts'[d] = depts[d]
        BY <1>0, <2>2, <3>1, <3>2 DEF DeptTable
      <3>4. /\ \A d \in Depts : d \in In(depts) <=> depts[d] \in Department
            /\ \A d \in Depts : d \in In(depts') <=> depts'[d] \in Department
            /\ In(depts') \subseteq Depts
        BY <1>0, <3>3, TableFacts
      <3>5. In(depts') = In(depts)
        <4>1. \A d \in Depts : depts'[d] \in Department <=> depts[d] \in Department
          BY <3>1, <3>2, <3>3
        <4> QED  BY <3>2, <3>4, <4>1
      <3>6. depts[r.id] # NotYet /\ depts'[r.id] # NotYet
        <4>1. \A d \in In(depts) : depts[d] # NotYet
          BY <1>0, TableFacts
        <4>2. \A d \in In(depts') : depts'[d] # NotYet
          BY <3>3, TableFacts
        <4> QED  BY <2>2, <3>5, <4>1, <4>2
      <3>7. NeverBorn' = NeverBorn
        BY <3>3, <3>6 DEF NeverBorn
      <3> QED  BY <2>2, <3>2, <3>3, <3>5, <3>7
    <2> QED  BY <1>1, <2>1, <2>2 DEF r
  <1>7. OrgTypeOK'
    <2>1. NotEditing \in DeptForm
      BY DEF NotEditing, DeptForm
    <2> QED  BY <1>0, <1>1, <1>3, <1>6, <2>1 DEF OrgTypeOK
  <1>8. Linked'
    <2>1. \A d \in In(depts') : depts'[d].parent \in In(depts') \cup {None}
      BY <1>0, <1>6 DEF Linked
    <2>2. None \notin NeverBorn
      BY OrgAssumption DEF NeverBorn
    <2>3. NeverBorn' \cap (In(chart'.depts) \cup {editing'.id, editing'.parent}) = {}
      BY <1>0, <1>1, <1>6, <2>2 DEF Linked, NotEditing
    <2>4. \A i \in DOMAIN patches' : NeverBorn' \cap NamedBy(patches'[i]) = {}
      BY <1>0, <1>4, <1>5, <1>6 DEF Linked
    <2> QED  BY <1>0, <1>6, <2>1, <2>3, <2>4 DEF Linked
  <1>9. ASSUME OneWalk  PROVE OneWalk'
    <2>1. None \notin In(depts')
      BY <1>6, TableFacts
    <2>2. WellFounded(depts')
      <3>1. CASE depts' = depts
        BY <1>9, <3>1 DEF OneWalk
      <3>2. CASE depts' # depts /\ r.parent = None
        <4>1. \A d \in In(depts') : depts'[d].parent \in {depts[d].parent, None}
          BY <1>6, <3>2
        <4> QED  BY <1>6, <1>9, <2>1, <4>1, CutForest DEF OneWalk
      <3>3. CASE depts' # depts /\ r.parent # None
        <4>1. WalkHolds(r) /\ r.at = None
          BY <1>1, <1>9, <3>3 DEF OneWalk, r
        <4> DEFINE seen == r.visited \ {r.id}
        <4>2. /\ r.id \notin seen /\ depts'[r.id].parent \in seen
              /\ \A d \in seen \cap In(depts) : depts[d].parent \in seen \cup {None}
          BY <1>6, <3>3, <4>1 DEF WalkHolds
        <4>3. \A d \in In(depts) \ {r.id} : depts'[d].parent = depts[d].parent
          BY <1>6
        <4> HIDE DEF seen
        <4> QED  BY <1>6, <1>9, <2>1, <4>2, <4>3, MovedForest DEF OneWalk
      <3> QED  BY <3>1, <3>2, <3>3
    \* Another update that gives a parent: this one then gives none.
    <2>3. ASSUME NEW i \in DOMAIN patches', patches'[i].parent # None
          PROVE  /\ WalkHolds(patches[i])'
                 /\ \A j \in DOMAIN patches' : patches'[j].parent # None => j = i
      <3>1. /\ WalkHolds(patches[back[i]])
            /\ \A j \in DOMAIN patches : patches[j].parent # None => j = back[i]
        BY <1>4, <1>5, <1>9, <2>3 DEF OneWalk
      <3>2. r.parent = None
        BY <1>5, <3>1 DEF r
      <3>3. \A d \in In(depts') : depts'[d].parent \in {depts[d].parent, None}
        BY <1>6, <3>2
      <3> DEFINE x == patches[back[i]]
      <3>4. \A d \in (x.visited \ {x.id}) \cap In(depts') :
               depts'[d].parent \in (x.visited \ {x.id}) \cup {x.at, None}
        BY <1>6, <3>1, <3>3 DEF WalkHolds
      <3>5. patches'[i] = x
        BY <1>4
      <3>6. x.id \in x.visited /\ x.parent \in (x.visited \ {x.id}) \cup {x.at} /\ x.parent # x.id
        BY <3>1 DEF WalkHolds
      <3> HIDE DEF x
      <3>7. WalkHolds(patches[i])'
        BY <3>4, <3>5, <3>6 DEF WalkHolds
      <3> QED  BY <1>4, <1>5, <3>1, <3>7
    <2> QED  BY <2>2, <2>3 DEF OneWalk
  <1> QED  BY <1>0, <1>7, <1>8, <1>9 DEF OrgInv

LEMMA ShownDepartments ==
    ASSUME OrgInv
    PROVE  /\ PanelRows \subseteq In(chart.depts) /\ In(chart.depts) \cap NeverBorn = {}
           /\ In(chart.depts) \subseteq Depts /\ chart.depts \in DeptTable
           /\ In(depts) \subseteq Depts \ NeverBorn
           /\ None \notin NeverBorn /\ ListedSubs \subseteq Subs \cup {None}
  <1>1. {d \in In(chart.depts) : chart.depts[d].parent = None} \in SUBSET In(chart.depts)
    OBVIOUS
  <1>2. PanelRows \subseteq In(chart.depts)
    BY <1>1, BelowMeans DEF PanelRows
  <1>3. chart.depts \in DeptTable /\ Linked
    BY DEF OrgInv, OrgTypeOK
  <1>4. In(depts) \subseteq Depts \ NeverBorn
    BY DEF In, NeverBorn
  <1> QED  BY <1>2, <1>3, <1>4, OrgAssumption DEF Linked, In, NeverBorn, ListedSubs, KeptOf

LEMMA OrgStep ==
    ASSUME OrgInv, OrgNext \/ UNCHANGED orgVars
    PROVE  OrgInv'
  <1>0. /\ depts \in DeptTable /\ subs \in SubTable /\ people \in PersonTable
        /\ chart \in [depts : DeptTable, subs : SubTable, people : PersonTable]
        /\ editing \in DeptForm /\ userForm \in UserForm
        /\ patches \in Seq(Patch) /\ unchecked \in BOOLEAN /\ Linked
    BY DEF OrgInv, OrgTypeOK
  <1>S. /\ PanelRows \subseteq In(chart.depts) /\ In(chart.depts) \cap NeverBorn = {}
        /\ In(chart.depts) \subseteq Depts /\ chart.depts \in DeptTable
        /\ In(depts) \subseteq Depts \ NeverBorn
        /\ None \notin NeverBorn /\ ListedSubs \subseteq Subs \cup {None}
    BY ShownDepartments
  <1>P. /\ \A p \in People : people[p].dept \in In(depts) \cup {None}
        /\ NeverBorn \cap (In(chart.depts) \cup {editing.id, editing.parent}) = {}
    BY <1>0 DEF Linked
  <1>1. CASE UNCHANGED orgVars
    <2>1. /\ UNCHANGED <<depts, patches, unchecked>> /\ chart' = chart /\ editing' = editing /\ people' = people
          /\ subs' = subs /\ userForm' = userForm
      BY <1>1 DEF orgVars
    <2>2. OrgTypeOK'
      BY <1>0, <2>1 DEF OrgTypeOK
    <2> QED  BY <1>P, <2>1, <2>2, ElsewhereStep
  <1>2. CASE ReadList
    <2>1. /\ UNCHANGED <<depts, patches, unchecked>> /\ editing' = editing /\ people' = people
          /\ subs' = subs /\ userForm' = userForm
      BY <1>2 DEF ReadList, orgTables, orgForms
    <2>2. chart' \in [depts : DeptTable, subs : SubTable, people : PersonTable]
          /\ (chart'.depts = chart.depts \/ chart'.depts = depts)
      BY <1>0, <1>2 DEF ReadList
    <2>3. OrgTypeOK'
      BY <1>0, <2>1, <2>2 DEF OrgTypeOK
    <2>4. NeverBorn \cap In(depts) = {}
      BY <1>S
    <2> QED  BY <1>P, <2>1, <2>2, <2>3, <2>4, ElsewhereStep
  <1>3. CASE detectCircularDepartment
    BY <1>3, WalkSteps
  <1>4. CASE WriteDepartment
    BY <1>4, WriteKeeps
  <1>5. CASE handleCreateDept
    BY <1>5, CreateKeeps DEF handleCreateDept
  <1>6. CASE startEdit
    <2>1. /\ UNCHANGED <<depts, patches, unchecked>> /\ chart' = chart /\ people' = people
          /\ subs' = subs /\ userForm' = userForm
      BY <1>6 DEF startEdit, orgTables
    <2>2. PICK d \in PanelRows : \E parent \in ListedDepts \ {d} :
              editing' = [id |-> d, parent |-> parent, sub |-> chart.depts[d].sub]
      BY <1>6 DEF startEdit
    <2>3. PICK parent \in ListedDepts \ {d} :
              editing' = [id |-> d, parent |-> parent, sub |-> chart.depts[d].sub]
      BY <2>2
    <2>4. d \in In(chart.depts) /\ parent \in In(chart.depts) \cup {None}
      BY <1>S, <2>2, <2>3 DEF ListedDepts
    <2>5. chart.depts[d].sub \in Subs \cup {None}
      BY <1>S, <2>4, TableFacts
    <2>6. editing' \in DeptForm /\ editing'.id = d /\ editing'.parent = parent
      BY <1>S, <2>3, <2>4, <2>5 DEF DeptForm
    <2>7. OrgTypeOK'
      BY <1>0, <2>1, <2>6 DEF OrgTypeOK
    <2>8. NeverBorn \cap (In(chart'.depts) \cup {editing'.id, editing'.parent}) = {}
      BY <1>S, <2>1, <2>4, <2>6
    <2> QED  BY <1>P, <2>1, <2>7, <2>8, ElsewhereStep
  <1>7. CASE handleUpdateDept
    <2>1. /\ UNCHANGED <<depts, subs, people, chart, editing, userForm>>
          /\ editing.id \in PanelRows /\ UpdateDepartment(editing.id, editing.parent, editing.sub, TRUE)
      BY <1>7 DEF handleUpdateDept, orgTables, orgForms
    <2>2. /\ editing.id \in Depts \ NeverBorn /\ editing.parent \in (Depts \cup {None}) \ NeverBorn
          /\ editing.sub \in Subs \cup {None}
      BY <1>0, <1>P, <1>S, <2>1 DEF DeptForm
    <2> QED  BY <2>1, <2>2, UpdateBegins
  <1>8. CASE handleDeleteDept
    BY <1>8, DeleteKeeps DEF handleDeleteDept
  <1>9. CASE handleDeleteSub
    <2>1. /\ UNCHANGED <<depts, patches, unchecked>> /\ chart' = chart /\ editing' = editing /\ people' = people
          /\ userForm' = userForm
      BY <1>9 DEF handleDeleteSub, orgForms
    <2>2. subs' \in SubTable
      BY <1>0, <1>9 DEF handleDeleteSub, DeleteSubsidiary, SubTable, Existing
    <2>3. OrgTypeOK'
      BY <1>0, <2>1, <2>2 DEF OrgTypeOK
    <2> QED  BY <1>P, <2>1, <2>3, ElsewhereStep
  <1>10. CASE OpenUser \/ EditUser \/ CloseForm
    <2>1. /\ UNCHANGED <<depts, patches, unchecked>> /\ chart' = chart /\ people' = people /\ subs' = subs
          /\ editing' \in {editing, NotEditing}
      BY <1>10 DEF OpenUser, EditUser, CloseForm, orgTables
    <2>2. userForm' \in UserForm
      <3>1. CASE OpenUser
        <4>1. PICK p \in People : userForm' = [id |-> p, dept |-> chart.people[p].dept, sub |-> chart.people[p].sub]
          BY <3>1 DEF OpenUser
        <4>2. chart.people[p] \in Person
          BY <1>0 DEF PersonTable
        <4> QED  BY <4>1, <4>2 DEF UserForm, Person
      <3>2. CASE EditUser
        <4>1. \/ \E s \in Subs \cup {None} : userForm' = [userForm EXCEPT !.sub = s, !.dept = None]
              \/ \E d \in Depts \cup {None} : userForm' = [userForm EXCEPT !.dept = d]
          BY <1>S, <3>2 DEF EditUser, Choosable
        <4> QED  BY <1>0, <4>1 DEF UserForm
      <3>3. CASE CloseForm
        <4>1. NoUserForm \in UserForm
          BY DEF NoUserForm, UserForm
        <4> QED  BY <1>0, <3>3, <4>1 DEF CloseForm
      <3> QED  BY <1>10, <3>1, <3>2, <3>3
    <2>3. NotEditing \in DeptForm /\ NotEditing.id = None /\ NotEditing.parent = None
      BY DEF NotEditing, DeptForm
    <2>4. OrgTypeOK'
      BY <1>0, <2>1, <2>2, <2>3 DEF OrgTypeOK
    <2>5. NeverBorn \cap (In(chart'.depts) \cup {editing'.id, editing'.parent}) = {}
      BY <1>P, <1>S, <2>1, <2>3
    <2> QED  BY <1>P, <2>1, <2>4, <2>5, ElsewhereStep
  <1>11. CASE SaveUser \/ ToggleActive
    <2>1. /\ UNCHANGED <<depts, patches, unchecked>> /\ chart' = chart /\ editing' = editing /\ subs' = subs
          /\ userForm' = NoUserForm
      BY <1>11 DEF SaveUser, ToggleActive
    <2>2. people' \in PersonTable /\ \A p \in People : people'[p].dept \in In(depts) \cup {None}
      <3>1. CASE SaveUser
        <4> DEFINE who == userForm.id
                   now == [[people[who] EXCEPT !.dept = Given(userForm.dept, people[who].dept)]
                             EXCEPT !.sub = Given(userForm.sub, people[who].sub)]
        <4>1. /\ userForm.dept \in In(depts) \cup {None} /\ userForm.sub \in Existing \cup {None}
              /\ people' = [people EXCEPT ![who].dept = Given(userForm.dept, @),
                                          ![who].sub = Given(userForm.sub, @)]
          BY <3>1 DEF SaveUser, UpdateUser
        <4>2. people' = [people EXCEPT ![who] = now]
          BY <4>1
        <4>3. ASSUME who \in People
              PROVE  now \in Person /\ now.dept \in In(depts) \cup {None}
          <5>1. people[who] \in Person /\ people[who].dept \in In(depts) \cup {None}
            BY <1>0, <1>P, <4>3 DEF PersonTable
          <5>2. Given(userForm.dept, people[who].dept) \in In(depts) \cup {None}
            BY <4>1, <5>1 DEF Given
          <5>3. Given(userForm.sub, people[who].sub) \in Subs \cup {None}
            BY <4>1, <5>1 DEF Given, Existing, Person
          <5>4. In(depts) \subseteq Depts
            BY <1>S
          <5> QED  BY <5>1, <5>2, <5>3, <5>4 DEF Person
        <4> HIDE DEF now, who
        <4> QED  BY <1>0, <1>P, <4>2, <4>3 DEF PersonTable
      <3>2. CASE ToggleActive
        <4> DEFINE who == userForm.id
                   now == [people[who] EXCEPT !.active = ~chart.people[who].active]
        <4>1. people' = [people EXCEPT ![who] = now]
          BY <3>2 DEF ToggleActive
        <4>2. ASSUME who \in People
              PROVE  now \in Person /\ now.dept \in In(depts) \cup {None}
          <5>1. people[who] \in Person /\ people[who].dept \in In(depts) \cup {None}
            BY <1>0, <1>P, <4>2 DEF PersonTable
          <5>2. (~chart.people[who].active) \in BOOLEAN
            OBVIOUS
          <5> QED  BY <5>1, <5>2 DEF Person
        <4> HIDE DEF now, who
        <4> QED  BY <1>0, <1>P, <4>1, <4>2 DEF PersonTable
      <3> QED  BY <1>11, <3>1, <3>2
    <2>3. NoUserForm \in UserForm
      BY DEF NoUserForm, UserForm
    <2>4. OrgTypeOK'
      BY <1>0, <2>1, <2>2, <2>3 DEF OrgTypeOK
    <2> QED  BY <1>P, <2>1, <2>2, <2>4, ElsewhereStep
  <1>12. CASE SomebodyPatches
    <2>1. UNCHANGED <<depts, subs, people, chart, editing, userForm>>
      BY <1>12 DEF SomebodyPatches, orgTables, orgForms
    <2>2. PICK d \in In(depts) : \E parent \in (In(depts) \cup {None}) \ {depts[d].parent} :
              UpdateDepartment(d, parent, depts[d].sub, FALSE)
      BY <1>12 DEF SomebodyPatches
    <2>3. PICK parent \in In(depts) \cup {None} : UpdateDepartment(d, parent, depts[d].sub, FALSE)
      BY <2>2
    <2>4. /\ d \in Depts \ NeverBorn /\ parent \in (Depts \cup {None}) \ NeverBorn
          /\ depts[d].sub \in Subs \cup {None}
      BY <1>0, <1>S, <2>2, <2>3, TableFacts
    <2> QED  BY <2>1, <2>3, <2>4, UpdateBegins
  <1> QED  BY <1>1, <1>2, <1>3, <1>4, <1>5, <1>6, <1>7, <1>8, <1>9, <1>10, <1>11, <1>12 DEF OrgNext

LEMMA OrgMeans == OrgInv => CircularOnlyUnchecked /\ ChartIsComplete
  <1> SUFFICES ASSUME OrgInv  PROVE CircularOnlyUnchecked /\ ChartIsComplete
    OBVIOUS
  <1>0. Linked /\ depts \in DeptTable /\ people \in PersonTable
    BY DEF OrgInv, OrgTypeOK
  <1>1. CircularOnlyUnchecked
    BY ForestMeans DEF OrgInv, OneWalk, CircularOnlyUnchecked
  <1>2. ASSUME ListsAreRead, Forest(depts)
        PROVE  /\ \A d \in In(depts) : Cardinality(DeptPlaces(d)) = 1
               /\ PanelRows = In(depts)
               /\ \A p \in People : people[p].active => Cardinality(UserPlaces(p)) = 1
    <2>1. chart.depts = depts /\ chart.people = people
      BY <1>2 DEF ListsAreRead
    <2>2. WellFounded(depts)
      BY <1>2, ForestMeans
    <2>3. ASSUME NEW d \in In(depts)  PROVE Cardinality(DeptPlaces(d)) = 1
      <3>1. PICK r \in Roots(depts) : {x \in Roots(depts) : d \in Below(depts, {x})} = {r}
        BY <2>2, OneRoot
      <3>2. PICK h : HeadingsOf(r) = {h}
        BY DEF HeadingsOf
      <3>3. DeptPlaces(d) = UNION {HeadingsOf(x) \X {x} : x \in {r}}
        BY <2>1, <3>1 DEF DeptPlaces
      <3>4. {HeadingsOf(x) \X {x} : x \in {r}} = {{h} \X {r}}
        BY <3>2
      <3>5. {h} \X {r} = {<<h, r>>}
        OBVIOUS
      <3>6. DeptPlaces(d) = {<<h, r>>}
        BY <3>3, <3>4, <3>5
      <3> QED  BY <3>6, FS_Singleton
    <2>4. PanelRows = In(depts)
      <3>1. Roots(depts) = {d \in In(depts) : depts[d].parent = None}
        BY <1>0, TableFacts DEF Roots, Linked
      <3> QED  BY <1>2, <2>1, <3>1 DEF Forest, PanelRows
    <2>5. ASSUME NEW p \in People  PROVE Cardinality(UserPlaces(p)) = 1
      <3>1. CASE people[p].dept = None
        BY <2>1, <3>1, FS_Singleton DEF UserPlaces
      <3>2. CASE people[p].dept # None
        <4>1. people[p].dept \in In(depts)
          BY <1>0, <3>2 DEF Linked
        <4>2. UserPlaces(p) = {people[p].dept}
          BY <2>1, <3>2, <4>1 DEF UserPlaces
        <4> QED  BY <4>2, FS_Singleton
      <3> QED  BY <3>1, <3>2
    <2> QED  BY <2>3, <2>4, <2>5
  <1> QED  BY <1>1, <1>2 DEF ChartIsComplete
=============================================================================
