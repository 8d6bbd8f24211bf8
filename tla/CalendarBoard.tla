--------------------------- MODULE CalendarBoard ---------------------------
(***************************************************************************)
(* The two calendars: the tab of a collection                                *)
(* (components/works/views/CalendarView.tsx and CalendarWeekView.tsx, laid    *)
(* out by CalendarView of backend/internal/handler/dynamic_views.go) and the   *)
(* page of all collections (pages/GlobalCalendarPage.tsx).                     *)
(*                                                                          *)
(* Days are numbered from 0, a week has WeekLength of them, a month those      *)
(* from one number of MonthStarts up to the next.                             *)
(***************************************************************************)
EXTENDS Screen, FiniteSetsExt

CONSTANTS
    WeekLength, MonthStarts, Today,
    MaxVisibleSpans, \* MAX_VISIBLE_SPANS
    MaxListed,       \* LIMIT of the query of a tab and of the page of all collections
    Events,          \* the records with a date; the page's are those of one collection
    Lengths          \* days from the first to the last day of an event

ASSUME CalendarAssumption ==
    /\ WeekLength \in Nat \ {0} /\ MaxVisibleSpans \in Nat
    /\ MonthStarts \in Seq(Nat) \ {<<>>} /\ \A i \in 1..Len(MonthStarts) - 1 : MonthStarts[i] < MonthStarts[i + 1]
    /\ Today \in MonthStarts[1]..MonthStarts[Len(MonthStarts)] - 1
    /\ MaxListed \in [BOOLEAN -> Nat]
    /\ IsFiniteSet(Events) /\ Events \subseteq Nat
    /\ Lengths \subseteq Nat

VARIABLES
    allApps,      \* the page of all collections, or the tab of one
    dates,        \* first and last day of each event, and whether it has a time of day
    calendarData, \* calendarData: the month it is for and the dates it holds
    viewDate,
    viewMode,     \* month, week or day
    direction,    \* the slide under way: -1, 1, or 0
    animating

calVars == <<allApps, dates, calendarData, viewDate, viewMode, direction, animating>>

Months == 1..Len(MonthStarts) - 1
Days == MonthStarts[1]..MonthStarts[Len(MonthStarts)] - 1
MonthOf(d) == CHOOSE m \in Months : MonthStarts[m] <= d /\ d < MonthStarts[m + 1]
MonthDays(m) == MonthStarts[m]..MonthStarts[m + 1] - 1
Event == {e \in [from : Days, to : Days, timed : BOOLEAN] : e.to - e.from \in Lengths}
NoCalendar == [month |-> 0, of |-> <<>>]

CalTypeOK ==
    /\ {allApps, animating} \subseteq BOOLEAN
    /\ dates \in [Events -> Event]
    /\ calendarData.month \in Months \cup {0} /\ DOMAIN calendarData.of \subseteq Events
    /\ viewDate \in Days /\ viewMode \in {"month", "week", "day"} /\ direction \in -1..1

CalInit ==
    /\ allApps \in BOOLEAN /\ dates \in [Events -> Event]
    /\ calendarData = NoCalendar /\ viewDate = Today /\ viewMode = "month"
    /\ direction = 0 /\ animating = FALSE

shownMonth == MonthOf(viewDate)
isLoading == calendarData.month # shownMonth

-----------------------------------------------------------------------------
(* What the server selects and how a month is laid out *)

LastDay(m) == MonthStarts[m + 1] - 1
\* A time of day is later than the last day, which is compared as its midnight.
BeforeEnd(e, m) == e.from < LastDay(m) \/ (e.from = LastDay(m) /\ ~e.timed)

Selected(m) ==
    {n \in Events : /\ BeforeEnd(dates[n], m)
                    /\ IF allApps THEN dates[n].from >= MonthStarts[m] ELSE dates[n].to >= MonthStarts[m]}

\* What is answered of them: the first ones by their first day.
Listed(m) ==
    {S \in SUBSET Selected(m) :
        /\ Cardinality(S) = Min({MaxListed[allApps], Cardinality(Selected(m))})
        /\ \A n \in S, k \in Selected(m) \ S : dates[n].from <= dates[k].from}
Answers(m) == {[n \in S |-> dates[n]] : S \in Listed(m)}

monthDates == calendarData.of
WeekOf(d) == d \div WeekLength
WeeksOf(m) == {WeekOf(d) : d \in MonthDays(m)}
WeekDays(m, w) == {d \in MonthDays(m) : WeekOf(d) = w}
MultiDay(n) == monthDates[n].to # monthDates[n].from

\* The part of an event that lies in a week.
SegmentOf(n, m, w) ==
    LET days == WeekDays(m, w) IN
    [of |-> n, startCol |-> Max({monthDates[n].from, Min(days)}), endCol |-> Min({monthDates[n].to, Max(days)})]

Segments(m, w) ==
    {SegmentOf(n, m, w) : n \in {k \in DOMAIN monthDates : MultiDay(k)
        /\ monthDates[k].from <= Max(WeekDays(m, w)) /\ monthDates[k].to >= Min(WeekDays(m, w))}}

\* By first column, longer ones first.
SegmentBefore(a, b) ==
    \/ a.startCol < b.startCol
    \/ a.startCol = b.startCol /\ a.endCol > b.endCol
    \/ a.startCol = b.startCol /\ a.endCol = b.endCol /\ a.of < b.of

\* A bar goes to the first track whose last bar ends before it begins.
TrackFor(ends, s) ==
    LET free == {t \in DOMAIN ends : ends[t] < s.startCol}
    IN IF free = {} THEN Len(ends) + 1 ELSE Min(free)

Place(acc, s) ==
    LET t == TrackFor(acc.ends, s) IN
    [ends |-> [i \in DOMAIN acc.ends \cup {t} |-> IF i = t THEN s.endCol ELSE acc.ends[i]],
     placed |-> acc.placed \cup {[of |-> s.of, startCol |-> s.startCol, endCol |-> s.endCol, track |-> t]}]

AssignTracks(segments) ==
    LET list == Ordered(segments, SegmentBefore)
        assigned[n \in 0..Len(list)] ==
            IF n = 0 THEN [ends |-> <<>>, placed |-> {}] ELSE Place(assigned[n - 1], list[n])
    IN assigned[Len(list)].placed

Placed(w) == AssignTracks(Segments(shownMonth, w))
DrawnSpans(w) == {s \in Placed(w) : s.track <= MaxVisibleSpans}

\* Mutant: off by one in the number of bars that are left out.
CountedBeyondNext(w) ==
    IF (w + 1) * WeekLength - 1 \in MonthDays(shownMonth)
    THEN {s \in Placed(w) : s.track > MaxVisibleSpans + 1} ELSE {}

\* Bars without a track are counted in the last cell of the week, if it is a day.
CountedIn(w) ==
    IF (w + 1) * WeekLength - 1 \in MonthDays(shownMonth) THEN Placed(w) \ DrawnSpans(w) ELSE {}

Singles == {n \in DOMAIN monthDates : ~MultiDay(n) /\ monthDates[n].from \in MonthDays(shownMonth)}

gridShown == ~isLoading /\ viewMode = "month" /\ (allApps => monthDates # <<>>)

\* The week view: the segments of every week, by the day their event begins.
WeekBucket ==
    {bar \in (DOMAIN monthDates) \X WeeksOf(shownMonth) : LET n == bar[1]  w == bar[2] IN
        /\ WeekOf(monthDates[n].from) = WeekOf(viewDate)
        /\ IF MultiDay(n) THEN \E s \in Segments(shownMonth, w) : s.of = n
           ELSE n \in Singles /\ WeekOf(monthDates[n].from) = w}

-----------------------------------------------------------------------------
AnswerCalendar ==
    /\ calendarData.month # shownMonth \/ \E n \in Events : n \in DOMAIN monthDates /\ monthDates[n] # dates[n]
    /\ \E of \in Answers(shownMonth) : calendarData' = [month |-> shownMonth, of |-> of]
    /\ UNCHANGED <<acts, allApps, dates, viewDate, viewMode, direction, animating>>

\* The page of all collections shows a skeleton while it loads, and no navigation
\* at all for a month without events.
Navigable == allApps => ~isLoading /\ monthDates # <<>>

goMonth(dir) ==
    /\ viewMode = "month" /\ ~animating
    /\ direction' = dir /\ animating' = TRUE
    /\ UNCHANGED viewDate

goDays(dir) ==
    /\ viewMode \in {"week", "day"}
    /\ viewDate' = viewDate + dir * (IF viewMode = "week" THEN WeekLength ELSE 1)
    /\ viewDate' \in Days
    /\ UNCHANGED <<direction, animating>>

navigate ==
    /\ Act("calendar") /\ Navigable
    /\ \E dir \in {-1, 1} : goMonth(dir) \/ goDays(dir)
    /\ UNCHANGED <<allApps, dates, calendarData, viewMode>>

\* A grid that appears with the class of a slide slides.
handleAnimationEnd ==
    /\ gridShown /\ direction # 0
    /\ viewDate' = IF shownMonth + direction \in Months THEN MonthStarts[shownMonth + direction] ELSE viewDate
    /\ direction' = 0 /\ animating' = FALSE
    /\ UNCHANGED <<acts, allApps, dates, calendarData, viewMode>>

goToday ==
    /\ Act("calendar") /\ Navigable /\ ~animating
    /\ viewDate' = Today /\ direction' = 0
    /\ UNCHANGED <<allApps, dates, calendarData, viewMode, animating>>

SetViewMode ==
    /\ Act("calendar") /\ ~allApps
    /\ viewMode' \in {"month", "week", "day"} \ {viewMode}
    /\ UNCHANGED <<allApps, dates, calendarData, viewDate, direction, animating>>

\* A card of the month grid is dropped on another day; the day is written without
\* a time.
handleDragEnd ==
    /\ Act("calendar") /\ gridShown /\ ~allApps
    /\ \E n \in Singles : \E d \in MonthDays(shownMonth) \ {monthDates[n].from} :
        dates' = [dates EXCEPT ![n] = [from |-> d, to |-> d, timed |-> FALSE]]
    /\ UNCHANGED <<allApps, calendarData, viewDate, viewMode, direction, animating>>

CalNext ==
    \/ AnswerCalendar \/ navigate \/ handleAnimationEnd
    \/ goToday \/ SetViewMode \/ handleDragEnd

-----------------------------------------------------------------------------
\* Bars that are drawn do not cover each other.
BarsDisjoint ==
    \A w \in WeeksOf(shownMonth) : \A s, t \in DrawnSpans(w) :
        s # t /\ s.track = t.track => s.endCol < t.startCol \/ t.endCol < s.startCol

\* Every event of a day of the month is on the grid: as a card or, in each week it
\* touches, as a bar or in the number of those left out.  A week that ends with days of
\* another month has no cell for that number: its bars are left out unsaid, though
\* only where LeftOutWhereFull lets them be.  Not on the grid, because the server does
\* not answer them: an event at a time of the month's last day; on the page of all
\* collections one that began in an earlier month; and beyond the limit of the query
\* those that begin last.
GridAccountsForEvents ==
    gridShown /\ monthDates \in Answers(shownMonth) =>
        \A n \in Events :
            LET e == dates[n]
                m == shownMonth IN
            (e.from..e.to) \cap MonthDays(m) = {}
            \/ (e.timed /\ e.from = LastDay(m)) \/ (allApps /\ e.from < MonthStarts[m])
            \/ /\ n \notin DOMAIN monthDates /\ Cardinality(DOMAIN monthDates) = MaxListed[allApps]
               /\ \A k \in DOMAIN monthDates : dates[k].from <= e.from
            \/ n \in Singles
            \/ \A w \in WeeksOf(m) : (e.from..e.to) \cap WeekDays(m, w) = {}
                    \/ \E s \in Placed(w) :
                          /\ s.of = n
                          /\ s \in DrawnSpans(w) \cup CountedIn(w)
                             \/ (w + 1) * WeekLength - 1 \notin MonthDays(m)

\* A bar is left out only of a week whose tracks are all taken where it begins.
LeftOutWhereFull ==
    \A w \in WeeksOf(shownMonth) : \A s \in Placed(w) \ DrawnSpans(w) : \A t \in 1..MaxVisibleSpans :
        \E b \in DrawnSpans(w) : b.track = t /\ b.startCol <= s.startCol /\ s.startCol <= b.endCol

\* The week view shows an event of the week once.  Not covered: an event that goes
\* on into another week of the month is listed once for each of them.
WeekShowsOnce ==
    viewMode = "week" /\ ~isLoading =>
        \A n \in DOMAIN monthDates :
            /\ monthDates[n].from \in WeekDays(shownMonth, WeekOf(viewDate))
            /\ WeekOf(monthDates[n].to) = WeekOf(viewDate)
            => Cardinality({b \in WeekBucket : b[1] = n}) = 1

\* A slide that began ends and gives the buttons back, unless the user leaves the
\* month view first.
SlideEnds == animating ~> ~animating \/ viewMode # "month"
=============================================================================
