SPECIFICATION Spec
SYMMETRY Symmetry
CONSTANTS
    Clients = {k1}
    RecordIds = {r1}
    Values = {"a"}
    Statuses = {"draft", "review", "done"}
    InitialStatus = "draft"
    Transitions <- MCTransitions
    Edits = {}
    Targets = {}
    Keep = Keep
    Absent = Absent
    Ops = {"create", "update", "bulk_delete"}
    Versioned = {TRUE}
    MaxVersion = 2
    MaxBatch = 2
    MaxFaults = 0
INVARIANTS
    StateChangePublished
