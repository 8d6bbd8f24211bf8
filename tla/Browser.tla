------------------------------- MODULE Browser -------------------------------
(***************************************************************************)
(* The screens of the browser behind the router of frontend/src/main.tsx.     *)
(* A behaviour shows one of them from the moment it is opened; what the others *)
(* would start from stays as it is.  Screens share nothing but the server and  *)
(* the query cache: EntriesCache ("table") and QueryCache ("queries") are that *)
(* cache, seen by the page of an app and by every other page.                 *)
(*                                                                          *)
(* A property of a screen is a property of its module; the definitions below   *)
(* put those together that answer one question.                               *)
(***************************************************************************)
EXTENDS AppView, TableGrid, RowSelection, UndoToast, EntryEditor, FormPager,
        KanbanBoard, GanttBoard, CalendarBoard, SheetInput, CsvImport,
        EntriesCache, QueryCache, Builder, FormLayout, FieldOptions,
        AutomationForm, ProcessEditor, InterfaceDesigner, OrgChart

CONSTANT Routes   \* the screens that are opened

ASSUME BrowserAssumption ==
    /\ Routes \subseteq {"view", "grid", "selection", "undo", "entry", "form", "kanban", "gantt",
                        "calendar", "sheet", "csv", "table", "queries", "builder", "layout",
                        "options", "automation", "process", "designer", "org"}
    /\ Routes \ {"table"} \subseteq DOMAIN Budget

VARIABLE route    \* the screen

-----------------------------------------------------------------------------
\* A screen opens in any of its initial states; a closed one is represented by
\* one of them.
Opens(path, closed, init) == (IF route = path THEN TRUE ELSE closed) /\ init

Some(set) == CHOOSE x \in set : TRUE

OrgClosed ==
    /\ depts = [d \in Depts |-> IF d \in OldDepts THEN [parent |-> None, sub |-> None] ELSE NotYet]
    /\ subs = [s \in Subs |-> "active"]
    /\ people = [p \in People |-> [dept |-> None, sub |-> None, active |-> TRUE]]

Init ==
    /\ acts = 0 /\ route \in Routes
    /\ ViewInit /\ GridInit /\ CsvInit
    /\ Opens("selection", db = [i \in Rows |-> 0] /\ listed = Some(Pages(Rows)), SelInit)
    /\ Opens("undo", status = Some(Statuses), UndoInit)
    /\ Opens("entry", isNew = TRUE /\ computed = FALSE /\ row = Some(Filled), EditorInit)
    /\ Opens("form", LET t == Some(RecordTexts) IN storedRecords = TwoRecords(t, t), PagerInit)
    /\ Opens("kanban", column = [c \in Cards |-> Some(ColumnValues)] /\ allowedMoves = <<>>, KanbanInit)
    /\ Opens("gantt", twoDates = FALSE /\ listedVersion = Unlisted, GanttInit)
    /\ Opens("calendar", allApps = FALSE /\ dates = [e \in Events |-> Some(Event)], CalInit)
    /\ Opens("sheet", sheet = <<>>, SheetInit)
    /\ Opens("table", server = [i \in Ids |-> Unborn] /\ mounted = Some(Lists), CacheInit)
    /\ Opens("queries", watched = Some(Queries), QueryInit)
    /\ Opens("builder", isEditMode = FALSE, BuilderInit)
    /\ Opens("layout", drafts = DraftsOf(Some(Layouts)), LayoutInit)
    /\ Opens("options", field = NewField("text"), OptionsInit)
    /\ Opens("automation", rules = OneRule("record_created", NoCron), AutomationInit)
    /\ Opens("process", process = NoProcess, ProcessInit)
    /\ Opens("designer", config = <<>> /\ storageWorks = TRUE, DesignerInit)
    /\ Opens("org", OrgClosed, OrgInit)

Shows(path, step, vars) == IF route = path THEN step ELSE UNCHANGED vars

Next ==
    /\ Shows("view", ViewNext, viewVars)
    /\ Shows("grid", GridNext, gridVars)
    /\ Shows("selection", SelNext, selVars)
    /\ Shows("undo", UndoNext, undoVars)
    /\ Shows("entry", EditorNext, editVars)
    /\ Shows("form", PagerNext, pagerVars)
    /\ Shows("kanban", KanbanNext, kanbanVars)
    /\ Shows("gantt", GanttNext, ganttVars)
    /\ Shows("calendar", CalNext, calVars)
    /\ Shows("sheet", SheetNext, sheetVars)
    /\ Shows("csv", CsvNext, csvVars)
    /\ Shows("table", CacheNext /\ UNCHANGED acts, cacheVars)
    /\ Shows("queries", QueryNext, queryVars)
    /\ Shows("builder", BuilderNext, builderVars)
    /\ Shows("layout", LayoutNext, layoutVars)
    /\ Shows("options", OptionsNext, optionVars)
    /\ Shows("automation", AutomationNext, automationVars)
    /\ Shows("process", ProcessNext, processVars)
    /\ Shows("designer", DesignerNext, designerVars)
    /\ Shows("org", OrgNext, orgVars)
    /\ UNCHANGED route

vars == <<route, acts, viewVars, gridVars, selVars, undoVars, editVars, pagerVars, kanbanVars,
          ganttVars, calVars, sheetVars, csvVars, cacheVars, queryVars, builderVars, layoutVars,
          optionVars, automationVars, processVars, designerVars, orgVars>>

Spec == Init /\ [][Next]_vars

\* The browser runs its timers, animations and callbacks, the server answers, and
\* the event stream connects again: what each screen's module assumes of the
\* screen that is open.
Fairness ==
    /\ WF_<<acts, viewVars>>(route = "view" /\ SearchTimer)
    /\ WF_<<acts, editVars>>(route = "entry" /\ Autosave)
    /\ WF_<<acts, editVars>>(route = "entry" /\ (Accepted \/ Refused))
    /\ WF_<<acts, editVars>>(route = "entry" /\ RefetchEntry)
    /\ WF_<<acts, calVars>>(route = "calendar" /\ AnswerCalendar)
    /\ WF_<<acts, calVars>>(route = "calendar" /\ handleAnimationEnd)
    /\ \A k \in Keys : /\ WF_cacheVars(route = "table" /\ AnswerFetch(k))
                       /\ WF_cacheVars(route = "table" /\ ReceiveFetch(k))
    /\ \A c \in Calls : /\ WF_cacheVars(route = "table" /\ (Commit(c) \/ Refuse(c)))
                        /\ WF_cacheVars(route = "table" /\ (Succeed(c) \/ Fail(c)))
    /\ WF_cacheVars(route = "table" /\ Receive) /\ WF_cacheVars(route = "table" /\ Reconnect)
    /\ WF_queryVars(route = "queries" /\ ServerReads)
    /\ WF_queryVars(route = "queries" /\ Answered)
    /\ WF_queryVars(route = "queries" /\ (HookSucceeds \/ HookFails))

FairSpec == Spec /\ Fairness

-----------------------------------------------------------------------------
(* Properties, each of the screen that is open *)

On(path, claim) == route = path => claim

BrowserTypeOK ==
    /\ route \in Routes /\ acts \in Nat
    /\ On("view", ViewTypeOK) /\ On("grid", GridTypeOK) /\ On("selection", SelTypeOK)
    /\ On("undo", UndoTypeOK) /\ On("entry", EditorTypeOK) /\ On("form", PagerTypeOK)
    /\ On("kanban", KanbanTypeOK) /\ On("gantt", GanttTypeOK) /\ On("calendar", CalTypeOK)
    /\ On("sheet", SheetTypeOK) /\ On("csv", CsvTypeOK) /\ On("table", CacheTypeOK)
    /\ On("queries", QueryTypeOK) /\ On("builder", BuilderTypeOK) /\ On("layout", LayoutTypeOK)
    /\ On("options", OptionsTypeOK) /\ On("automation", AutomationTypeOK)
    /\ On("process", ProcessTypeOK) /\ On("designer", DesignerTypeOK) /\ On("org", OrgTypeOK)

\* The table and the boards show what the database holds once nothing is under
\* way, and what a mutation put there in advance goes when the server has answered;
\* the designer shows the layout that is stored once no widget is in the air.
TabInStep == On("table", ShownFresh /\ GhostsTransient) /\ On("designer", LayoutStored)

\* What is sent is what the screen says: the records asked for are those of the tree
\* of conditions, the search text and the one sort order that are shown, and a
\* file's columns go where the dialog's map of that file says.
SendsWhatIsShown ==
    /\ On("view", RequestMeansTree /\ SearchApplied /\ OneSortSource)
    /\ On("csv", MapOfShownColumns /\ FreeColumnsAsMapped)

\* What the table and the sheet mark as selected is what is copied and merged, and
\* the rows called "all" came from an answer to that, while rows, columns and pages
\* come and go under the selection.  Not covered: copying from a sheet while it is
\* sorted or filtered.
SelectionMeansWhatItShows ==
    /\ On("grid", CopyMatchesHighlight /\ RangeSpansSelection)
    /\ On("selection", AllModeIsAnAnswer)
    /\ On("sheet", CopiesWhatIsShown /\ MergesDisjoint)

\* A form makes one record and changes the one it was opened with, although buttons
\* are pressed twice and the list moves under it.
SavesHitTheirRecord == On("entry", CreatedOnce) /\ On("form", EditsOwnRecord /\ IndexInList)

\* No event the server answers, no page of a table and nobody in the organization is
\* out of reach: bars do not cover each other and are left out only where there is no
\* place, and departments form trees unless two updates of their parents overlapped or
\* the check of one was cut short.
EverythingHasAPlace ==
    /\ On("calendar", BarsDisjoint /\ LeftOutWhereFull /\ GridAccountsForEvents /\ WeekShowsOnce)
    /\ On("grid", PagesOffered)
    /\ On("org", CircularOnlyUnchecked /\ ChartIsComplete)

\* Whatever is typed, added, connected and removed, a draft has no blank choice, one
\* initial status and transitions between statuses it has, a schedule the page checked
\* can run, and a form marks no field that is right.
DraftsSound ==
    /\ On("options", NothingBlank) /\ On("process", DraftsWellFormed)
    /\ On("automation", PickerInStep /\ SchedulesCanRun) /\ On("entry", ErrorsAreReal)

\* A drop, a key and a drag do what the board showed while the user made them: the
\* column takes the card, the ring marks the card that opens, the bar goes where the
\* preview was, start before end, and a version as old as the dates it was computed
\* from lets it replace no others.
BoardsDoWhatTheyShow ==
    /\ [](On("kanban", DropMatchesShown /\ EnterOpensRing) /\ On("gantt", BarsKeepOrder))
    /\ PreviewMatchesSaved /\ ReplacesShownDates

\* One edit of a draft leaves the rest of it alone: drops and resizes keep the other
\* fields, a removed status keeps the transitions of the others, a widget that is
\* dragged keeps the order of the others, and a slug the page chose is nobody else's.
EditsKeepTheRest ==
    /\ DropFillsRow /\ ResizeKeepsField /\ RemovalKeepsTransitions /\ DragMovesOne
    /\ ProposedSlugsDistinct

\* Changing the question shows its first page, a saved view brings back the rows, the
\* order and the columns it was saved with.
ViewsComeBack == FirstPageOfNewRows /\ ViewRestored /\ []On("grid", StoredColumnsShown)

\* What a screen has begun ends: the search for the text in the box, the saving of
\* what was typed into a record, the slide of the calendar, the guesses of the
\* query cache, and the time in which a table shows other rows than the server's.
ScreensSettle ==
    /\ SearchCatchesUp
    /\ EditsReachServer
    /\ SlideEnds
    /\ route = "table" => CatchesUp
    /\ GuessesEnd
=============================================================================
