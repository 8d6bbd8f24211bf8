----------------------------- MODULE BrowserProofs -----------------------------
(***************************************************************************)
(* What holds in every reachable state of the browser.  Each screen keeps its  *)
(* invariant whichever screen is open: the one that is open by its own steps,   *)
(* the others because their variables stay as they are.                        *)
(***************************************************************************)
EXTENDS Browser, RecordScreensProofs, EditorScreensProofs, ListScreensProofs

-----------------------------------------------------------------------------
(* What the user does is counted, one by one, on every screen *)

LEMMA ViewCounts == ViewNext => Act("view") \/ UNCHANGED acts
  BY DEF ViewNext, addCondition, onFilterGroupChange, updateCondition, removeCondFromGroup,
         toggleLogic, addSubGroup, toggleSubGroup, updateSubGroup, removeSubGroup,
         handleAIFilter, ReceiveFilter, clearFilters, addSort, handleSortPanelChange, SetSorts,
         updateSort, removeSort, DropSort, ToggleHeader, handleHeaderSortChange,
         handleSearchInput, SearchTimer, clearSearch, resetFilters, clearAllChips, GoToPage,
         handleSaveView, applyView, LeaveView, deleteSavedView, ViewDeleted

LEMMA GridCounts == GridNext => Act("grid") \/ UNCHANGED acts
  BY DEF GridNext, handleKeyDown, Move, Escape, handleCellClick, onSelectAll, ToggleColumn,
         PinColumn, handleColumnDragEnd, RemountTable, Refetch, TurnPage, ChangeLimit

LEMMA SelCounts == SelNext => Act("selection") \/ UNCHANGED acts
  BY DEF SelNext, ToggleRow, Select, TogglePage, handleSelectAllFiltered, AnswerSelectAll,
         ClearSelection, handleBulkStatusChange, SendBulk, handleBulkEdit, handleBulkDelete,
         RetryDelete, BulkSucceeds, BulkFails, Relist, OtherWrites

LEMMA UndoCounts == UndoNext => Act("undo") \/ UNCHANGED acts
  BY DEF UndoNext, handleProcessCardMove, WriteLands, WriteFails, RefetchBoard, performUndo,
         ClickUndo, performRedo, Expire

LEMMA EditorCounts == EditorNext => Act("entry") \/ UNCHANGED acts
  BY DEF EditorNext, Edit, PickRecord, TakeTransition, handleBlur, handleFile, FinishUpload,
         handleSubmit, Autosave, Accepted, Refused, CallLost, retryToast, OtherUser,
         RefetchEntry, handleAIPrefill, AnswerPrefill, handleDuplicate, goBack

LEMMA PagerCounts == PagerNext => Act("form") \/ UNCHANGED acts
  BY DEF PagerNext, TurnRecord, handleCreate, StartEdit, TypeText, Cancel, handleFormSubmit,
         WriteAnswered, SomebodyWrites, RefetchEntries

LEMMA KanbanCounts == KanbanNext => Act("kanban") \/ UNCHANGED acts
  BY DEF KanbanNext, DragStart, DragEnd, DragCancel, handleBoardKeyDown, Enter, ToggleHideEmpty,
         toggleCollapse, SomebodyMoves, RefetchColumns

LEMMA GanttCounts == GanttNext => Act("gantt") \/ UNCHANGED acts
  BY DEF GanttNext, handleMouseDown, handleMouseMove, handleMouseUp, handleArrowKey,
         GanttAnswered, SomebodyReschedules, RefetchChart, RefetchListed

LEMMA CalCounts == CalNext => Act("calendar") \/ UNCHANGED acts
  BY DEF CalNext, AnswerCalendar, navigate, handleAnimationEnd, goToday, SetViewMode,
         handleDragEnd

LEMMA SheetCounts == SheetNext => Act("sheet") \/ UNCHANGED acts
  BY DEF SheetNext, updateCell, AddRow, handleSheetCellClick, handleSheetKeyDown, DropSelection,
         DeleteSelection, handleCopy, handlePaste, toggleSort, SetFilter, handleMerge

LEMMA CsvCounts == CsvNext => Act("csv") \/ UNCHANGED acts
  BY DEF CsvNext, handleImportCSV, FieldsRefetched, FileRead, setColumnMap, ClosePreview,
         handleConfirm, ImportCSV

LEMMA QueryCounts == QueryNext => Act("queries") \/ UNCHANGED acts
  BY DEF QueryNext, ObserveQuery, Leave, GrowOld, ServerReads, Answered, MutateHook,
         ServerWrites, HookSucceeds, HookFails

LEMMA OptionsCounts == OptionsNext => Act("options") \/ UNCHANGED acts
  BY DEF OptionsNext, SetType, update, SetContent, Toggle, SetExpression, SetRequired, SetSize,
         SetAdvanced, SetLimits, SetLook, SetDefault, SetDisplay, SetValidation, SetChoices,
         EditChoices, addColumn, updateColumn, removeColumn, moveColumn, SetRelation, SetReach,
         EditRules, UpdateRules

LEMMA AutomationCounts == AutomationNext => Act("automation") \/ UNCHANGED acts
  BY DEF AutomationNext, OpenForm, AutomationAct, CancelForm, Editing, handleEdit, EditTrigger,
         EditConditions, EditActions, PickSchedule, TypeCron, saveRule, CreateRule, SavedAs,
         UpdateRule, NotSaved, handleDelete, OpenAssistant, handleGenerate, AssistantAct,
         Generated, CloseAssistant, applyProposal

LEMMA ProcessCounts == ProcessNext => Act("process") \/ UNCHANGED acts
  BY DEF ProcessNext, SetEnabled, ProcessAct, addStatus, RemoveStatus, removeStatus, setInitial,
         ToggleConnect, ClickNode, handleNodeClick, handleTransitionClick, handleBgClick,
         EditTransition, saveProcess, SaveSucceeds, SaveFails

LEMMA DesignerCounts == DesignerNext => Act("designer") \/ UNCHANGED acts
  BY DEF DesignerNext, addWidget, DesignerAct, updateWidget, removeWidget, TogglePanel,
         ToggleEdit, handleDragStart, handleDragOver, endWidgetDrag, OpenDesigner

LEMMA LayoutCounts == LayoutNext => Act("layout") \/ UNCHANGED acts
  BY DEF LayoutNext, handleResizeStart, onMouseMove, onMouseUp, DropField, dropField,
         handlePaletteDrop, AskRemove, AnswerRemove, AskSlug, SlugArrives

LEMMA OrgCounts == OrgNext => Act("org") \/ UNCHANGED acts
  BY DEF OrgNext, ReadList, detectCircularDepartment, WriteDepartment, handleCreateDept, OrgAct,
         startEdit, handleUpdateDept, handleDeleteDept, handleDeleteSub, OpenUser, EditUser,
         SaveUser, ToggleActive, CloseForm, SomebodyPatches

LEMMA BuilderCounts == BuilderNext => Act("builder") \/ UNCHANGED acts
  BY DEF BuilderNext, BuilderAct, handleLabelChange, handleSlugChange, requestSlug,
         applyAIFields, handleAddField, handleSelect, handleRemoveField, onReorder, updateLabel,
         updateSlug, requestAutoSlug, saveApp, handleEditSave, CallSucceeds, CallFails,
         RefetchCollection, AnswerWarning

LEMMA ActsHold == Spec => [](route \in Routes /\ acts \in Nat)
  <1>1. Init => route \in Routes /\ acts \in Nat
    BY DEF Init
  <1>2. route \in Routes /\ acts \in Nat /\ [Next]_vars => (route \in Routes /\ acts \in Nat)'
    <2> SUFFICES ASSUME route \in Routes, acts \in Nat, Next  PROVE acts' \in Nat /\ route' = route
      BY DEF vars
    <2>1. route' = route
      BY DEF Next
    <2>2. CASE route \in {"view", "grid", "selection", "undo", "entry", "form", "kanban"}
      BY <2>2, ViewCounts, GridCounts, SelCounts, UndoCounts, EditorCounts, PagerCounts, KanbanCounts
         DEF Next, Shows, Act
    <2>3. CASE route \in {"gantt", "calendar", "sheet", "csv", "table", "queries", "builder"}
      BY <2>3, GanttCounts, CalCounts, SheetCounts, CsvCounts, QueryCounts, BuilderCounts
         DEF Next, Shows, Act
    <2>4. CASE route \in {"layout", "options", "automation", "process", "designer", "org"}
      BY <2>4, LayoutCounts, OptionsCounts, AutomationCounts, ProcessCounts, DesignerCounts, OrgCounts
         DEF Next, Shows, Act
    <2> QED  BY <2>1, <2>2, <2>3, <2>4, BrowserAssumption
  <1> QED  BY <1>1, <1>2, PTL DEF Spec

-----------------------------------------------------------------------------
(* Every screen keeps its invariant *)

LEMMA UndoHolds == Spec => [](UndoTypeOK /\ ChainInv)
  <1>1. Init => UndoTypeOK /\ ChainInv
    BY ChainStarts DEF Init, Opens
  <1>2. UndoTypeOK /\ ChainInv /\ [Next]_vars => (UndoTypeOK /\ ChainInv)'
    BY UndoTypeStep, ChainStep DEF Next, Shows, vars
  <1> QED  BY <1>1, <1>2, PTL DEF Spec

LEMMA PagerHolds == Spec => [](PagerInv)
  <1>1. Init => PagerInv
    BY PagerStarts DEF Init, Opens
  <1>2. PagerInv /\ [Next]_vars => (PagerInv)'
    BY PagerStep DEF Next, Shows, vars
  <1> QED  BY <1>1, <1>2, PTL DEF Spec

LEMMA EditorHolds == Spec => [](EditorInv)
  <1>1. Init => EditorInv
    BY EditorStarts DEF Init, Opens
  <1>2. EditorInv /\ [Next]_vars => (EditorInv)'
    BY EditorStep DEF Next, Shows, vars
  <1> QED  BY <1>1, <1>2, PTL DEF Spec

LEMMA RecordsHolds == Spec => [](CacheInv)
  <1>1. Init => CacheInv
    BY CacheStarts DEF Init, Opens
  <1>2. CacheInv /\ [Next]_vars => (CacheInv)'
    BY CacheStep DEF Next, Shows, vars
  <1> QED  BY <1>1, <1>2, PTL DEF Spec

LEMMA QueryHolds == Spec => [](QueryInv)
  <1>1. Init => QueryInv
    BY QueryStarts DEF Init, Opens
  <1>2. QueryInv /\ [Next]_vars => (QueryInv)'
    BY QueryStep DEF Next, Shows, vars
  <1> QED  BY <1>1, <1>2, PTL DEF Spec

LEMMA ProcessHolds == Spec => [](ProcessInv)
  <1>1. Init => ProcessInv
    BY ProcessStarts DEF Init, Opens
  <1>2. ProcessInv /\ [Next]_vars => (ProcessInv)'
    BY ProcessStep DEF Next, Shows, vars
  <1> QED  BY <1>1, <1>2, PTL DEF Spec

LEMMA OptionsHolds == Spec => [](OptionsInv)
  <1>1. Init => OptionsInv
    BY OptionsStarts DEF Init, Opens
  <1>2. OptionsInv /\ [Next]_vars => (OptionsInv)'
    BY OptionsStep DEF Next, Shows, vars
  <1> QED  BY <1>1, <1>2, PTL DEF Spec

LEMMA AutomationHolds == Spec => [](AutomationInv)
  <1>1. Init => AutomationInv
    BY AutomationStarts DEF Init, Opens
  <1>2. AutomationInv /\ [Next]_vars => (AutomationInv)'
    BY AutomationStep DEF Next, Shows, vars
  <1> QED  BY <1>1, <1>2, PTL DEF Spec

LEMMA DesignerHolds == Spec => [](DesignerInv)
  <1>1. Init => DesignerInv
    BY DesignerStarts DEF Init, Opens
  <1>2. DesignerInv /\ [Next]_vars => (DesignerInv)'
    BY DesignerStep DEF Next, Shows, vars
  <1> QED  BY <1>1, <1>2, PTL DEF Spec

LEMMA ViewHolds == Spec => [](ViewInv)
  <1>1. Init => ViewInv
    BY ViewStarts DEF Init, Opens
  <1>2. ViewInv /\ [Next]_vars => (ViewInv)'
    BY ViewStep DEF Next, Shows, vars
  <1> QED  BY <1>1, <1>2, PTL DEF Spec

LEMMA GridHolds == Spec => [](GridInv)
  <1>1. Init => GridInv
    BY GridStarts DEF Init, Opens
  <1>2. GridInv /\ [Next]_vars => (GridInv)'
    BY GridStep DEF Next, Shows, vars
  <1> QED  BY <1>1, <1>2, PTL DEF Spec

LEMMA SelectionHolds == Spec => [](SelectionInv)
  <1>1. Init => SelectionInv
    BY SelectionStarts DEF Init, Opens
  <1>2. SelectionInv /\ [Next]_vars => (SelectionInv)'
    BY SelectionStep DEF Next, Shows, vars
  <1> QED  BY <1>1, <1>2, PTL DEF Spec

LEMMA KanbanHolds == Spec => [](KanbanInv)
  <1>1. Init => KanbanInv
    BY KanbanStarts DEF Init, Opens
  <1>2. KanbanInv /\ [Next]_vars => (KanbanInv)'
    BY KanbanStep DEF Next, Shows, vars
  <1> QED  BY <1>1, <1>2, PTL DEF Spec

LEMMA GanttHolds == Spec => [](GanttInv)
  <1>1. Init => GanttInv
    BY GanttStarts DEF Init, Opens
  <1>2. GanttInv /\ [Next]_vars => (GanttInv)'
    BY GanttStep DEF Next, Shows, vars
  <1> QED  BY <1>1, <1>2, PTL DEF Spec

LEMMA SheetHolds == Spec => [](SheetInv)
  <1>1. Init => SheetInv
    BY SheetStarts DEF Init, Opens
  <1>2. SheetInv /\ [Next]_vars => (SheetInv)'
    BY SheetStep DEF Next, Shows, vars
  <1> QED  BY <1>1, <1>2, PTL DEF Spec

LEMMA CsvHolds == Spec => [](CsvInv)
  <1>1. Init => CsvInv
    BY CsvStarts DEF Init, Opens
  <1>2. CsvInv /\ [Next]_vars => (CsvInv)'
    BY CsvStep DEF Next, Shows, vars
  <1> QED  BY <1>1, <1>2, PTL DEF Spec

LEMMA OrgHolds == Spec => []OrgInv
  <1>1. Init => OrgInv
    BY OrgStarts DEF Init, Opens
  <1>2. OrgInv /\ [Next]_vars => OrgInv'
    BY OrgStep DEF Next, Shows, vars
  <1> QED  BY <1>1, <1>2, PTL DEF Spec

LEMMA CalendarHolds == Spec => []CalInv
  <1>1. Init => CalInv
    BY CalStarts DEF Init, Opens
  <1>2. CalInv /\ [Next]_vars => CalInv'
    BY CalStep DEF Next, Shows, vars
  <1> QED  BY <1>1, <1>2, PTL DEF Spec

\* A new draft's id is a number of its own, because it is made from the count.
LEMMA BuilderHolds == Spec => []BuilderInv
  <1>1. Init => BuilderInv
    BY BuilderStarts DEF Init, Opens
  <1>2. BuilderInv /\ acts \in Nat /\ [Next]_vars => BuilderInv'
    BY BuilderStep DEF Next, Shows, vars
  <1> QED  BY <1>1, <1>2, ActsHold, PTL DEF Spec

LEMMA DraftsHold == Spec => [](route = "builder" => DraftsApart)
  <1>1. Init => (route = "builder" => DraftsApart)
    BY DraftsStartApart DEF Init, Opens
  <1>2. BuilderInv /\ (route = "builder" => DraftsApart) /\ [Next]_vars => (route = "builder" => DraftsApart)'
    <2> SUFFICES ASSUME BuilderInv, route = "builder" => DraftsApart, [Next]_vars, route' = "builder"
                 PROVE  DraftsApart'
      OBVIOUS
    <2>1. CASE Next
      BY <2>1, DraftsApartStep DEF Next, Shows
    <2>2. CASE UNCHANGED vars
      <3>1. UNCHANGED <<route, acts, fields, propertyAsked>>
        BY <2>2 DEF vars, builderVars, builderFields
      <3> QED  BY <3>1 DEF DraftsApart, NumberedBy, OnceEach
    <2> QED  BY <2>1, <2>2
  <1> QED  BY <1>1, <1>2, BuilderHolds, PTL DEF Spec

LEMMA LayoutHolds == Spec => [](LayoutInv /\ (route = "layout" => IdsBelow))
  <1>1. Init => LayoutInv /\ (route = "layout" => IdsBelow)
    BY LayoutStarts DEF Init, Opens
  <1>2. LayoutInv /\ (route = "layout" => IdsBelow) /\ [Next]_vars
          => (LayoutInv /\ (route = "layout" => IdsBelow))'
    <2> SUFFICES ASSUME LayoutInv, route = "layout" => IdsBelow, [Next]_vars
                 PROVE  LayoutInv' /\ (route' = "layout" => IdsBelow')
      OBVIOUS
    <2>1. CASE Next /\ route = "layout"
      BY <2>1, LayoutStep, IdsStep DEF Next, Shows
    <2>2. CASE Next /\ route # "layout"
      BY <2>2, LayoutStep DEF Next, Shows
    <2>3. CASE UNCHANGED vars
      <3>1. UNCHANGED layoutVars /\ UNCHANGED <<route, acts, drafts, slugRequests>>
        BY <2>3 DEF vars, layoutVars
      <3>2. LayoutInv'
        BY <3>1, LayoutStep
      <3> QED  BY <3>1, <3>2 DEF IdsBelow, IdsTaken
    <2> QED  BY <2>1, <2>2, <2>3
  <1> QED  BY <1>1, <1>2, PTL DEF Spec

-----------------------------------------------------------------------------
(* The properties of the run Browser *)

\* Whatever a user does on a screen, its variables keep their types.
THEOREM ScreensTyped == Spec => []BrowserTypeOK
  <1>1. ViewInv /\ GridInv /\ SelectionInv /\ UndoTypeOK /\ EditorInv /\ PagerInv /\ KanbanInv
          /\ GanttInv /\ CalInv /\ SheetInv
        => ViewTypeOK /\ GridTypeOK /\ SelTypeOK /\ UndoTypeOK /\ EditorTypeOK /\ PagerTypeOK
           /\ KanbanTypeOK /\ GanttTypeOK /\ CalTypeOK /\ SheetTypeOK
    BY ViewTyped DEF GridInv, SelectionInv, EditorInv, PagerInv, KanbanInv, GanttInv, CalInv, SheetInv
  <1>2. CsvInv /\ CacheInv /\ QueryInv /\ BuilderInv /\ LayoutInv /\ OptionsInv /\ AutomationInv
          /\ ProcessInv /\ DesignerInv /\ OrgInv
        => CsvTypeOK /\ CacheTypeOK /\ QueryTypeOK /\ BuilderTypeOK /\ LayoutTypeOK /\ OptionsTypeOK
           /\ AutomationTypeOK /\ ProcessTypeOK /\ DesignerTypeOK /\ OrgTypeOK
    BY DEF CsvInv, CacheInv, QueryInv, BuilderInv, LayoutInv, OptionsInv, AutomationInv, ProcessInv,
           DesignerInv, OrgInv
  <1> DEFINE ListsTyped == /\ ViewTypeOK /\ GridTypeOK /\ SelTypeOK /\ UndoTypeOK /\ EditorTypeOK /\ PagerTypeOK
                      /\ KanbanTypeOK /\ GanttTypeOK /\ CalTypeOK /\ SheetTypeOK
             PagesTyped == /\ CsvTypeOK /\ CacheTypeOK /\ QueryTypeOK /\ BuilderTypeOK /\ LayoutTypeOK
                       /\ OptionsTypeOK /\ AutomationTypeOK /\ ProcessTypeOK /\ DesignerTypeOK /\ OrgTypeOK
  <1>3. route \in Routes /\ acts \in Nat /\ ListsTyped /\ PagesTyped => BrowserTypeOK
    BY DEF BrowserTypeOK, On
  <1> QED  BY <1>1, <1>2, <1>3, ActsHold, ViewHolds, GridHolds, SelectionHolds, UndoHolds, EditorHolds,
              PagerHolds, KanbanHolds, GanttHolds, CalendarHolds, SheetHolds, CsvHolds, RecordsHolds,
              QueryHolds, BuilderHolds, LayoutHolds, OptionsHolds, AutomationHolds, ProcessHolds,
              DesignerHolds, OrgHolds, PTL

\* While undo and redo take the newest moves first and no request is refused, overtaken or
\* under way, the histories of a board are chains of moves that end in the column the card
\* is in (UndoToast).
THEOREM UndoCorrect == Spec => []HistoryIsChain
  <1>1. UndoTypeOK /\ ChainInv => HistoryIsChain
    BY ChainMeans
  <1> QED  BY <1>1, UndoHolds, PTL

\* One record is made for a form, however often its button is pressed and its request
\* repeated, and the form of a list saves the record it was opened for as long as the
\* list has not moved under it (EntryEditor, FormPager).
THEOREM SavesCorrect == Spec => []SavesHitTheirRecord
  <1>1. EditorInv /\ PagerInv => SavesHitTheirRecord
    BY EditorMeans DEF PagerInv, SavesHitTheirRecord, On
  <1> QED  BY <1>1, EditorHolds, PagerHolds, PTL

\* A draft of a process has positions without gaps, transitions between statuses it has
\* and one initial status, that of a field no blank choice, and the schedule of an
\* automation that the page checked can run (ProcessEditor, FieldOptions,
\* AutomationForm); a form marks no field that is right (EntryEditor).
THEOREM DraftsCorrect == Spec => []DraftsSound
  <1>1. OptionsInv /\ ProcessInv /\ AutomationInv /\ EditorInv => DraftsSound
    BY OptionsMean, ProcessMeans, AutomationMeans, EditorMeans DEF DraftsSound, On
  <1> QED  BY <1>1, OptionsHolds, ProcessHolds, AutomationHolds, EditorHolds, PTL

\* A table shows what the database holds once nothing is under way, and a designer the
\* layout that is stored (EntriesCache, InterfaceDesigner).
THEOREM TabCorrect == Spec => []TabInStep
  <1>1. CacheInv /\ DesignerInv => TabInStep
    BY CacheMeans DEF TabInStep, On, DesignerInv
  <1> QED  BY <1>1, RecordsHolds, DesignerHolds, PTL

\* An answer that is shown without being asked for again has every finished write of the
\* hooks that look after its keys, unless a write overtook it on its way or happened in
\* one of the two gaps.  What a hook does not look after at all is its own business
\* (QueryCache).
THEOREM FamilyCorrect == Spec => []FamilyIsFresh
  <1>1. QueryInv => FamilyIsFresh
    BY QueryMeans
  <1> QED  BY <1>1, QueryHolds, PTL

\* When the app builder leaves after a save, the label it sent and the fields that were
\* added are in the database, those of the fields it started from that were removed are
\* gone, and a save that found the fields the page started from leaves those of the
\* form.  What an earlier save that failed has left is not covered (Builder).
THEOREM SavedCorrect == Spec => []SavedMeansStored
  <1>1. BuilderInv => SavedMeansStored
    BY BuilderMeans
  <1> QED  BY <1>1, BuilderHolds, PTL

\* The rows asked of the server are those the tree of conditions and the search text
\* describe, in one order, and a file's columns go where the dialog's map of that file
\* says (AppView, CsvImport).
THEOREM SentCorrect == Spec => []SendsWhatIsShown
  <1>1. ViewInv /\ CsvInv => SendsWhatIsShown
    BY ViewMeans DEF SendsWhatIsShown, On, CsvInv
  <1> QED  BY <1>1, ViewHolds, CsvHolds, PTL

\* The cells that are marked are those that are copied and merged, and what is called
\* "all" are the rows of the answer to that, as many of those that the server counted as
\* it gives for the limit asked, whatever comes and goes under the selection (TableGrid,
\* RowSelection, SheetInput).
THEOREM SelectionCorrect == Spec => []SelectionMeansWhatItShows
  <1>1. GridInv /\ SelectionInv /\ SheetInv => SelectionMeansWhatItShows
    BY GridMeans, SheetMeans DEF SelectionMeansWhatItShows, On, SelectionInv, SheetInv
  <1> QED  BY <1>1, GridHolds, SelectionHolds, SheetHolds, PTL

\* A bulk edit never overwrites a row another user has changed since the page that was
\* shown was read (RowSelection).
THEOREM BulkCorrect == Spec => BulkKeepsOthersWrites
  <1>1. SelectionInv /\ [Next]_vars =>
          [bulk.kind \in {"status", "edit"} /\ bulk' = NoBulk /\ db' # db =>
             \A i \in bulk.ids \cap DOMAIN bulk.page : db[i] = bulk.page[i]]_selVars
    <2> SUFFICES ASSUME SelectionInv, [Next]_vars
                 PROVE  bulk.kind \in {"status", "edit"} /\ bulk' = NoBulk /\ db' # db =>
                          \A i \in bulk.ids \cap DOMAIN bulk.page : db[i] = bulk.page[i]
      OBVIOUS
    <2>1. SelNext \/ UNCHANGED selVars
      BY DEF Next, Shows, vars
    <2> QED  BY <2>1, BulkKeeps
  <1> QED  BY <1>1, SelectionHolds, PTL DEF Spec, BulkKeepsOthersWrites

\* A column takes the card the drop was shown to take, Enter opens the card with the
\* ring, a bar goes where the preview was, start before end, and a version as old as the
\* dates it was computed from lets it replace no others (KanbanBoard, GanttBoard).
THEOREM BoardsCorrect == Spec => BoardsDoWhatTheyShow
  <1>1. KanbanInv /\ GanttInv =>
          On("kanban", DropMatchesShown /\ EnterOpensRing) /\ On("gantt", BarsKeepOrder)
    BY GanttMeans DEF On, KanbanInv
  <1>2. GanttInv /\ [Next]_vars =>
          [handleMouseUp /\ updates' # updates
             /\ Dates(shownBar) = <<drag.start, drag.end>> /\ (twoDates \/ drag.type # "resize-end")
           => /\ Last(updates').start = Preview[1]
              /\ twoDates => Last(updates').end = Preview[2]]_ganttVars
    BY PreviewSaved
  <1>3. GanttInv /\ [Next]_vars =>
          [lastAnswer' # lastAnswer /\ lastAnswer'.version # Unlisted /\ ~lastAnswer'.ahead
             => lastAnswer'.base = Dates(bar)]_ganttVars
    <2> SUFFICES ASSUME GanttInv, [Next]_vars
                 PROVE  lastAnswer' # lastAnswer /\ lastAnswer'.version # Unlisted /\ ~lastAnswer'.ahead
                          => lastAnswer'.base = Dates(bar)
      OBVIOUS
    <2>1. GanttNext \/ UNCHANGED ganttVars
      BY DEF Next, Shows, vars
    <2> QED  BY <2>1, AnswerReplaces
  <1> QED  BY <1>1, <1>2, <1>3, KanbanHolds, GanttHolds, PTL
           DEF Spec, BoardsDoWhatTheyShow, PreviewMatchesSaved, ReplacesShownDates

\* Of the events the server answers, bars of the calendar do not cover each other and one
\* is left out only where there is no place; every page of the table can be reached; and
\* departments form trees with everybody on the chart, unless two updates of their
\* parents overlapped or the check of one was cut short (CalendarBoard, TableGrid,
\* OrgChart).
THEOREM PlacesCorrect == Spec => []EverythingHasAPlace
  <1>1. CalInv /\ GridInv /\ OrgInv => EverythingHasAPlace
    BY CalMeans, GridMeans, OrgMeans DEF EverythingHasAPlace, On
  <1> QED  BY <1>1, CalendarHolds, GridHolds, OrgHolds, PTL

\* A field that is dropped fills its row or leaves the widths alone, the end of a resize
\* touches one width (FormLayout), a removed status leaves the transitions of the others
\* where they were (ProcessEditor), a widget in the air keeps the order of the others
\* (InterfaceDesigner), and a slug that is proposed is nobody else's (Builder).
THEOREM EditsCorrect == Spec => EditsKeepTheRest
  <1>1. LayoutInv =>
          [drafts' # drafts => \A from, to \in DOMAIN drafts :
             from # to /\ dropField(from, to) =>
                 LET resized == {i \in DOMAIN drafts' : drafts'[i].width # DraftOf(drafts'[i].id).width}
                     members == RowMembers(from, to)
                 IN /\ IdsIn(drafts') = IdsIn(drafts)
                    /\ resized # {} => /\ resized \subseteq members
                                       /\ WidthSum(drafts', members) = GridCols
                    /\ \A i \in members : drafts'[i].width \in 1..GridCols]_layoutVars
    BY DropFills
  <1>2. LayoutInv =>
          [onMouseUp /\ resizing.of.id \in DraftIds =>
             \A i \in DOMAIN drafts : drafts'[i] = [drafts[i] EXCEPT !.width = drafts'[i].width]]_layoutVars
    BY ResizeKeeps
  <1>3. ProcessInv =>
          [statuses' # statuses => \A idx \in DOMAIN statuses :
             removeStatus(idx) =>
                 ShownNodes(statuses', Range(transitions')) =
                 ShownNodes(statuses, {t \in Range(transitions) : idx \notin {t.from, t.to}})]_processVars
    BY RemovalKeeps DEF ProcessInv, ProcessTypeOK, WellFormed
  <1>4. DesignerInv /\ DesignerInv' /\ [Next]_vars =>
          [dragIdx # 0 /\ dragIdx' # 0 =>
             /\ config'[dragIdx'].id = draggedWidget
             /\ Others(config') = Others(config)]_designerVars
    <2> SUFFICES ASSUME DesignerInv, DesignerInv', [Next]_vars, designerVars' # designerVars,
                        dragIdx # 0, dragIdx' # 0
                 PROVE  config'[dragIdx'].id = draggedWidget /\ Others(config') = Others(config)
      OBVIOUS
    <2>1. DesignerNext
      BY DEF Next, Shows, vars
    <2> QED  BY <2>1, DragKeeps
  <1>5. BuilderInv /\ (route = "builder" => DraftsApart) /\ [Next]_vars =>
          [fields' # fields /\ requestAutoSlug =>
             \A i, j \in DOMAIN fields' :
                i # j /\ fields'[i].id = propertyAsked.field.id =>
                    fields'[i].slug # fields'[j].slug]_builderVars
    <2> SUFFICES ASSUME BuilderInv, route = "builder" => DraftsApart, [Next]_vars,
                        fields' # fields, requestAutoSlug
                 PROVE  \A i, j \in DOMAIN fields' :
                          i # j /\ fields'[i].id = propertyAsked.field.id =>
                              fields'[i].slug # fields'[j].slug
      OBVIOUS
    <2>1. route = "builder"
      BY DEF Next, Shows, vars, builderVars, builderFields
    <2> QED  BY <2>1, SlugIsFree
  <1> QED  BY <1>1, <1>2, <1>3, <1>4, <1>5, LayoutHolds, ProcessHolds, DesignerHolds, BuilderHolds,
              DraftsHold, PTL
           DEF Spec, EditsKeepTheRest, DropFillsRow, ResizeKeepsField, RemovalKeepsTransitions,
               DragMovesOne, ProposedSlugsDistinct

\* A question that selects other rows is asked from its first page, and a saved view
\* brings back the rows, the order and the columns it was saved with (AppView,
\* TableGrid).
THEOREM ViewsCorrect == Spec => ViewsComeBack
  <1>1. GridInv => On("grid", StoredColumnsShown)
    BY DEF On, GridInv
  <1>2. ViewInv /\ [Next]_vars =>
          [filters' # filters /\ (~isFilterGroupEmpty(group') \/ text' # "") => page' = 1]_viewVars
    <2> SUFFICES ASSUME ViewInv, [Next]_vars, filters' # filters,
                        ~isFilterGroupEmpty(group') \/ text' # ""
                 PROVE  page' = 1
      OBVIOUS
    <2>1. ViewNext \/ UNCHANGED viewVars
      BY DEF Next, Shows, vars
    <2> QED  BY <2>1, NewRowsFromFirstPage
  <1>3. ViewInv /\ [Next]_vars =>
          [active' \notin {active, NoView} =>
             LET v == saved[active'] IN
             /\ Distinct(v.flat) \/ needsJsonFilter(v.filter) => SameConditions(filters', v.seen)
             /\ v.sort # <<>> => sortParam' = v.seenSort]_viewVars
    <2> SUFFICES ASSUME ViewInv, [Next]_vars, active' \notin {active, NoView}
                 PROVE  LET v == saved[active'] IN
                        /\ Distinct(v.flat) \/ needsJsonFilter(v.filter) => SameConditions(filters', v.seen)
                        /\ v.sort # <<>> => sortParam' = v.seenSort
      OBVIOUS
    <2>1. ViewNext \/ UNCHANGED viewVars
      BY DEF Next, Shows, vars
    <2> QED  BY <2>1, AppliedAsksTheSame
  <1> QED  BY <1>1, <1>2, <1>3, GridHolds, ViewHolds, PTL
           DEF Spec, ViewsComeBack, FirstPageOfNewRows, ViewRestored

=============================================================================
