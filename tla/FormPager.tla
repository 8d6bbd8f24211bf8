----------------------------- MODULE FormPager -----------------------------
(***************************************************************************)
(* The form tab of the records page (components/works/views/FormView.tsx     *)
(* and handleFormViewSubmit of pages/AppViewPage.tsx): one record of the list *)
(* at a time, edited in place.  The list is read again whenever somebody     *)
(* changes the collection, the place in it is a number.                      *)
(***************************************************************************)
EXTENDS Screen

CONSTANTS
    RecordTexts, \* values of a record
    MaxId        \* bound on the records ever made

\* Two records are there from the start.
ASSUME PagerAssumption == MaxId \in Nat /\ MaxId >= 2

VARIABLES
    storedRecords, \* the records of the server, newest first
    entries,       \* the list of the page
    currentIndex,
    formMode,      \* mode
    openForm,      \* the open form: the record it was opened with and its text
    writes,        \* requests under way
    lastId,        \* ids given so far
    shifted        \* the list moved under the open form (observation only)

pagerVars == <<storedRecords, entries, currentIndex, formMode, openForm, writes, lastId, shifted>>

RecordIds == 1..MaxId
NewRecord == 0
Entry == [id : RecordIds, text : RecordTexts, version : Nat]
Form == [of : RecordIds \cup {NewRecord}, text : RecordTexts \cup {""}]
Submission == [id : RecordIds \cup {NewRecord}, of : RecordIds \cup {NewRecord},
               text : RecordTexts, version : Nat, shifted : BOOLEAN]
Closed == [of |-> NewRecord, text |-> ""]

PagerTypeOK ==
    /\ storedRecords \in Seq(Entry) /\ entries \in Seq(Entry)
    /\ currentIndex \in Nat
    /\ formMode \in {"view", "edit", "create"} /\ openForm \in Form
    /\ writes \in Seq(Submission)
    /\ lastId \in 0..MaxId /\ shifted \in BOOLEAN

TwoRecords(s, t) == <<[id |-> 2, text |-> s, version |-> 1], [id |-> 1, text |-> t, version |-> 1]>>

PagerInit ==
    /\ \E s, t \in RecordTexts : storedRecords = TwoRecords(s, t)
    /\ entries = storedRecords /\ lastId = 2
    /\ currentIndex = 0 /\ formMode = "view" /\ openForm = Closed
    /\ writes = <<>> /\ shifted = FALSE

currentEntry == entries[currentIndex + 1]

\* The list arrives; the index is clamped while it renders.
ShowEntries(list) ==
    /\ entries' = list
    /\ currentIndex' = IF list # <<>> /\ currentIndex >= Len(list) THEN Len(list) - 1 ELSE currentIndex

-----------------------------------------------------------------------------
\* Mutant: the ends of the list do not stop the arrow keys.
NeighboursPastEnds == {currentIndex - 1, currentIndex + 1}

Neighbours == {currentIndex - 1, currentIndex + 1} \cap 0..Len(entries) - 1

\* The arrow keys, and the buttons of the view mode.
TurnRecord ==
    /\ Act("form") /\ formMode = "view" /\ entries # <<>>
    /\ currentIndex' \in Neighbours
    /\ UNCHANGED <<storedRecords, entries, formMode, openForm, writes, lastId, shifted>>

\* An empty list takes the view and an edit form away, not the button for a new record.
FormOpen == formMode = "create" \/ (formMode = "edit" /\ entries # <<>>)

handleCreate ==
    /\ Act("form") /\ ~FormOpen
    /\ formMode' = "create" /\ openForm' = Closed /\ shifted' = FALSE
    /\ UNCHANGED <<storedRecords, entries, currentIndex, writes, lastId>>

StartEdit ==
    /\ Act("form") /\ formMode = "view" /\ entries # <<>>
    /\ formMode' = "edit" /\ shifted' = FALSE
    /\ openForm' = [of |-> currentEntry.id, text |-> currentEntry.text]
    /\ UNCHANGED <<storedRecords, entries, currentIndex, writes, lastId>>

TypeText ==
    /\ Act("form") /\ FormOpen
    /\ \E v \in RecordTexts : openForm' = [openForm EXCEPT !.text = v]
    /\ UNCHANGED <<storedRecords, entries, currentIndex, formMode, writes, lastId, shifted>>

Cancel ==
    /\ Act("form") /\ FormOpen
    /\ formMode' = "view" /\ openForm' = Closed
    /\ UNCHANGED <<storedRecords, entries, currentIndex, writes, lastId, shifted>>

handleFormViewSubmit(id, version) ==
    writes' = Append(writes, [id |-> id, of |-> openForm.of, text |-> openForm.text,
                              version |-> version, shifted |-> shifted])

\* The record is the one at the index by now, and so is the version.  (The text is
\* required, as EntryForm checks before it submits.)
handleFormSubmit ==
    /\ Act("form") /\ FormOpen /\ openForm.text # ""
    /\ IF formMode = "create" THEN handleFormViewSubmit(NewRecord, 0)
       ELSE handleFormViewSubmit(currentEntry.id, currentEntry.version)
    /\ formMode' = "view" /\ openForm' = Closed
    /\ UNCHANGED <<storedRecords, entries, currentIndex, lastId, shifted>>

-----------------------------------------------------------------------------
Prepend(text) ==
    /\ lastId < MaxId
    /\ lastId' = lastId + 1
    /\ storedRecords' = <<[id |-> lastId + 1, text |-> text, version |-> 1]>> \o storedRecords

\* The server carries out an update whose version is current, or fails.
WriteAnswered ==
    \E n \in DOMAIN writes : LET w == writes[n] IN
        /\ writes' = RemoveAt(writes, n)
        /\ \/ w.id = NewRecord /\ Prepend(w.text)
           \/ /\ storedRecords' = [m \in DOMAIN storedRecords |->
                    IF storedRecords[m].id = w.id /\ storedRecords[m].version = w.version
                    THEN [storedRecords[m] EXCEPT !.text = w.text, !.version = @ + 1] ELSE storedRecords[m]]
              /\ w.id # NewRecord /\ UNCHANGED lastId
           \/ UNCHANGED <<storedRecords, lastId>>
        /\ UNCHANGED <<acts, entries, currentIndex, formMode, openForm, shifted>>

\* Somebody else makes, removes or changes a record.
SomebodyWrites ==
    /\ Act("form")
    /\ \/ \E v \in RecordTexts : Prepend(v)
       \/ \E n \in DOMAIN storedRecords : storedRecords' = RemoveAt(storedRecords, n) /\ UNCHANGED lastId
       \/ \E n \in DOMAIN storedRecords, v \in RecordTexts :
            storedRecords' = [storedRecords EXCEPT ![n].text = v, ![n].version = @ + 1] /\ UNCHANGED lastId
    /\ UNCHANGED <<entries, currentIndex, formMode, openForm, writes, shifted>>

\* After an event or a write of one's own.  An open form keeps what it holds;
\* without records it is taken away, and opens again with the next ones.
RefetchEntries ==
    /\ entries # storedRecords
    /\ ShowEntries(storedRecords)
    /\ LET reopened == formMode = "edit" /\ entries = <<>> IN
       openForm' = CASE reopened -> [of |-> storedRecords[1].id, text |-> storedRecords[1].text]
                 [] formMode = "edit" /\ storedRecords = <<>> -> Closed
                 [] OTHER -> openForm
    /\ shifted' = (formMode = "edit" /\ storedRecords # <<>> /\ openForm'.of # storedRecords[currentIndex' + 1].id)
    /\ UNCHANGED <<acts, storedRecords, formMode, writes, lastId>>

PagerNext ==
    \/ TurnRecord \/ handleCreate \/ StartEdit \/ TypeText \/ Cancel \/ handleFormSubmit
    \/ WriteAnswered \/ SomebodyWrites \/ RefetchEntries

-----------------------------------------------------------------------------
\* Edits are sent to the record the form was opened with, whatever the user does
\* meanwhile; only a list that moved under the form can put another in its place.
EditsOwnRecord == \A n \in DOMAIN writes : writes[n].id = writes[n].of \/ writes[n].shifted

\* There is a record to show as long as the list has one.
IndexInList == entries # <<>> => currentIndex < Len(entries)
=============================================================================
