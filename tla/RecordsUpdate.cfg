SPECIFICATION Spec
SYMMETRY Symmetry
CONSTANTS
    Clients = {k1, k2}
    RecordIds = {r1}
    Values = {"a", "b"}
    Statuses = {"draft", "review", "done"}
    InitialStatus = "draft"
    Transitions <- MCTransitions
    Edits <- MCEdits
    Targets = {t1}
    Keep = Keep
    Absent = Absent
    Ops = {"create", "update", "delete", "bulk_delete", "batch_update"}
    Versioned = {TRUE, FALSE}
    MaxVersion = 3
    MaxBatch = 1
    MaxFaults = 0
INVARIANTS
    TypeOK
    HistoryComplete
PROPERTIES
    NoLostUpdate
    TransitionsRespected
    DiffExact
