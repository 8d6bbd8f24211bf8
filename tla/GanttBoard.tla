----------------------------- MODULE GanttBoard -----------------------------
(***************************************************************************)
(* One bar of the Gantt chart (components/works/views/GanttView.tsx with      *)
(* handleGanttUpdate and getRowVersion of pages/AppViewPage.tsx): dragged,     *)
(* stretched or pushed with the arrow keys.  The dates come from the chart's   *)
(* own query, the version from the list on the table tab.                     *)
(***************************************************************************)
EXTENDS Screen, FiniteSetsExt

CONSTANTS
    Deltas,   \* days a drag may go
    MaxWrites \* bound on the versions of the record

ASSUME GanttAssumption == Deltas \subseteq Int /\ MaxWrites \in Nat

VARIABLES
    bar,           \* the record of the database: dates and version
    shownBar,      \* the row of the chart
    listedVersion, \* the version in the list, none if the record is not on its page
    twoDates,      \* the collection has a second date field
    drag,          \* dragState: the dates at mouse down, and the version the chart had then
    updates,       \* requests under way, with the dates they were computed from
    opened,        \* the record's page was opened
    lastAnswer     \* the last request the server carried out

ganttVars == <<bar, shownBar, listedVersion, twoDates, drag, updates, opened, lastAnswer>>

\* The bar and its two ends.
Handles == {"move", "resize-start", "resize-end"}
Version == 0..MaxWrites
Unlisted == -1
NoDrag == [type |-> "none", start |-> 0, end |-> 0, version |-> 0, delta |-> 0]
Dates(b) == <<b.start, b.end>>
NoUpdate == [start |-> 0, end |-> 0, version |-> Unlisted, base |-> <<0, 0>>, ahead |-> FALSE]

DateUpdate == [start : Int, end : Int, version : Version \cup {Unlisted}, base : Int \X Int, ahead : BOOLEAN]

GanttBar == [start : Int, end : Int, version : Version]
GanttDrag == [type : Handles \cup {"none"}, start : Int, end : Int, version : Version, delta : Int]

GanttTypeOK ==
    /\ bar \in GanttBar /\ shownBar \in GanttBar
    /\ listedVersion \in Version \cup {Unlisted} /\ twoDates \in BOOLEAN /\ opened \in BOOLEAN
    /\ drag \in GanttDrag
    /\ updates \in Seq(DateUpdate) /\ lastAnswer \in DateUpdate

GanttInit ==
    /\ twoDates \in BOOLEAN
    /\ \E length \in 0..1 : bar = [start |-> 0, end |-> IF twoDates THEN length ELSE 0, version |-> 0]
    /\ shownBar = bar /\ listedVersion \in {0, Unlisted}
    /\ drag = NoDrag /\ updates = <<>> /\ opened = FALSE /\ lastAnswer = NoUpdate

-----------------------------------------------------------------------------
\* Only the start is written when there is one date field; the chart shows it as
\* the end, too.  The version is the list's of this moment, the new dates come from
\* those of a row that was read before: "ahead" is a version read after them.
DateRequest(start, end, from) ==
    [start |-> start, end |-> IF twoDates THEN end ELSE start, version |-> listedVersion,
     base |-> Dates(from), ahead |-> listedVersion > from.version]

handleGanttUpdate(start, end, from) == updates' = Append(updates, DateRequest(start, end, from))

\* addDays on either end, never past the other one.
Dragged(type, start, end, delta) ==
    CASE type = "move" -> <<start + delta, end + delta>>
      [] type = "resize-start" -> <<Min({start + delta, end}), end>>
      [] type = "resize-end" -> <<start, Max({end + delta, start})>>
      [] OTHER -> <<start, end>>

\* getBarPosition: the chart's dates with the drag applied.
Preview == Dragged(drag.type, shownBar.start, shownBar.end, drag.delta)

handleMouseDown ==
    /\ Act("gantt") /\ ~opened /\ drag = NoDrag
    /\ \E type \in Handles :
        drag' = [type |-> type, start |-> shownBar.start, end |-> shownBar.end,
                 version |-> shownBar.version, delta |-> 0]
    /\ UNCHANGED <<bar, shownBar, listedVersion, twoDates, updates, opened, lastAnswer>>

handleMouseMove ==
    /\ Act("gantt") /\ drag # NoDrag
    /\ \E d \in Deltas : drag' = [drag EXCEPT !.delta = d]
    /\ UNCHANGED <<bar, shownBar, listedVersion, twoDates, updates, opened, lastAnswer>>

\* The new dates come from those at mouse down.  The click that follows finds no
\* drag any more, and opens the record if the bar itself was dragged.
handleMouseUp ==
    /\ drag # NoDrag
    /\ drag' = NoDrag
    /\ LET to == Dragged(drag.type, drag.start, drag.end, drag.delta) IN
       IF drag.delta = 0 THEN UNCHANGED updates ELSE handleGanttUpdate(to[1], to[2], drag)
    /\ opened' = (drag.type = "move")
    /\ UNCHANGED <<acts, bar, shownBar, listedVersion, twoDates, lastAnswer>>

\* With Shift the step is a week; the keys work on the row as shown.
handleArrowKey ==
    /\ Act("gantt") /\ ~opened
    /\ \E d \in {-1, 1} : handleGanttUpdate(shownBar.start + d, shownBar.end + d, shownBar)
    /\ UNCHANGED <<bar, shownBar, listedVersion, twoDates, drag, opened, lastAnswer>>

-----------------------------------------------------------------------------
\* A request without a version is not checked.
VersionHolds(u) == u.version \in {Unlisted, bar.version}

GanttAnswered ==
    \E n \in DOMAIN updates : LET u == updates[n] IN
        /\ updates' = RemoveAt(updates, n)
        /\ \/ /\ VersionHolds(u) /\ bar.version < MaxWrites
              /\ bar' = [start |-> u.start, end |-> u.end, version |-> bar.version + 1]
              /\ lastAnswer' = u
           \/ UNCHANGED <<bar, lastAnswer>>
        /\ UNCHANGED <<acts, shownBar, listedVersion, twoDates, drag, opened>>

SomebodyReschedules ==
    /\ Act("gantt") /\ bar.version < MaxWrites
    /\ \E d \in Deltas :
        bar' = [start |-> bar.start + d, end |-> bar.end + d, version |-> bar.version + 1]
    /\ UNCHANGED <<shownBar, listedVersion, twoDates, drag, updates, opened, lastAnswer>>

\* The two queries are invalidated together, but each answers when it does.
RefetchChart ==
    /\ shownBar # bar
    /\ shownBar' = bar
    /\ UNCHANGED <<acts, bar, listedVersion, twoDates, drag, updates, opened, lastAnswer>>

RefetchListed ==
    /\ listedVersion \notin {Unlisted, bar.version}
    /\ listedVersion' = bar.version
    /\ UNCHANGED <<acts, bar, shownBar, twoDates, drag, updates, opened, lastAnswer>>

GanttNext ==
    \/ handleMouseDown \/ handleMouseMove \/ handleMouseUp \/ handleArrowKey
    \/ GanttAnswered \/ SomebodyReschedules \/ RefetchChart \/ RefetchListed

-----------------------------------------------------------------------------
\* A bar is saved where the drag showed it, although the preview is computed from
\* the current row and the request from the row at mouse down.  Not covered: a row
\* that was read again during the drag, and the right end of a bar with one date.
PreviewMatchesSaved ==
    [][handleMouseUp /\ updates' # updates
          /\ Dates(shownBar) = <<drag.start, drag.end>> /\ (twoDates \/ drag.type # "resize-end")
       => /\ Last(updates').start = Preview[1]
          /\ twoDates => Last(updates').end = Preview[2]]_ganttVars

\* No gesture and no race of gestures turns a bar around.
BarsKeepOrder == bar.start <= bar.end /\ Preview[1] <= Preview[2]

\* A reschedule whose version is not newer than the dates it was computed from
\* replaces those dates or is refused: the keys pressed twice, and two users, do not
\* overwrite each other.  Not covered, and not so in the code: records that are not on
\* the page of the list, and a list read after those dates, when the chart has not
\* been read again yet or a drag is going on, which keeps the dates of mouse down.
ReplacesShownDates ==
    [][lastAnswer' # lastAnswer /\ lastAnswer'.version # Unlisted /\ ~lastAnswer'.ahead
       => lastAnswer'.base = Dates(bar)]_ganttVars
=============================================================================
