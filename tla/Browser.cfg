SPECIFICATION Spec
CONSTANTS
    Budget <- MCBudget
    Routes = {"view", "grid", "selection", "undo", "entry", "form", "kanban", "gantt", "calendar", "sheet", "csv", "table", "queries", "builder", "layout", "options", "automation", "process", "designer", "org"}
    Fields <- MCFields
    OpsOf <- MCOpsOf
    Values = {"1", "2"}
    SearchTexts = {"a"}
    Views = {"v", "w"}
    MaxConds = 2
    Columns <- MCColumns
    SkipCols = {"c"}
    MaxRows = 2
    PageSizes = {1, 2}
    MaxTotal = 4
    Rows = {1, 2, 3}
    PageSize = 1
    MaxLimit = 2
    DefaultLimit = 1
    MaxVersion = 2
    Statuses = {"a", "b", "c"}
    MaxRequests = 2
    Inputs <- MCInputs
    Required = {"num"}
    Numbers = {"num"}
    Relations = {"rel"}
    FileInput = "file"
    StatusInput = "st"
    Transitions <- MCTransitions
    ShowsOn <- MCShowsOn
    ValuesOf <- MCValuesOf
    OutOfRange = {"9"}
    MaxOthers = 1
    MaxLost = 1
    MaxCalls = 2
    RecordTexts = {"a", "b"}
    MaxId = 3
    BoardColumns <- MCColumns
    Cards = {1, 2}
    Deltas <- MCDeltas
    MaxWrites = 3
    WeekLength = 3
    MonthStarts <- MCMonthStarts
    Today = 6
    MaxVisibleSpans = 1
    Events = {1, 2}
    MaxListed <- MCMaxListed
    Lengths = {0, 1, 4}
    SheetColumns = 2
    initialRows = 2
    MaxSheetRows = 3
    CellValues = {1, 2}
    Files = {"p", "q"}
    Headers = {"h", "i", "j"}
    HeadersOf <- MCHeadersOf
    CsvFields = {"f", "g", "n"}
    ReadOnly = {"n"}
    Named <- MCNamed
    Resembles <- MCResembles
    MaxImports = 2
    Ids = {1}
    Lists = {"page"}
    Boards = {}
    Opened = 1
    Calls = {c1, c2}
    MaxVer = 1
    MaxMoves = 1
    MaxFaults = 0
    MaxPending = 2
    AppSlugs = {"s", "t"}
    FieldSlugs = {"u", "v", "w"}
    Labels = {"a", "b"}
    MaxFields = 3
    MaxRefusals = 1
    GridCols = 6
    NewWidth = 3
    MaxDrafts = 4
    Layouts <- MCLayouts
    Words = {"v", "w"}
    Titles = {"", "n", "?"}
    KeyOf <- MCKeyOf
    Reach <- MCReach
    Apps = {"p", "q"}
    MaxItems = 2
    Triggers = {"schedule", "record_created", "status_change"}
    Conditions = {"c"}
    Actions = {"a"}
    ScheduleHours = {9, 10}
    ScheduleDays = {1, 2}
    TypedCrons <- MCTypedCrons
    MaxRules = 2
    StatusNames = {"a", "b", "c"}
    Roles = {"pm"}
    MaxStatuses = 3
    MaxTransitions = 2
    WidgetTypes = {"stat_card", "text"}
    WidgetSettings = {"a", "b"}
    MaxWidgets = 3
    Depts = {d1, d2, d3}
    OldDepts = {d1, d2}
    Subs = {"s"}
    People = {"p"}
    MaxPatches = 2
SYMMETRY CallSymmetry
CHECK_DEADLOCK FALSE
INVARIANTS
    BrowserTypeOK
    TabInStep
    SendsWhatIsShown
    SelectionMeansWhatItShows
    SavesHitTheirRecord
    FamilyIsFresh
    HistoryIsChain
    EverythingHasAPlace
    DraftsSound
    SavedMeansStored
PROPERTIES
    BulkKeepsOthersWrites
    BoardsDoWhatTheyShow
    EditsKeepTheRest
    ViewsComeBack
