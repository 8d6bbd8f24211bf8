SPECIFICATION Spec
CONSTANTS
    Clients = {k1, k2}
    RecordIds = {r1, r2}
    Values = {"a"}
    Statuses = {"draft"}
    InitialStatus = "draft"
    Transitions = {}
    Edits = {}
    Targets = {}
    Keep = Keep
    Absent = Absent
    Ops = {"bulk_create", "bulk_delete", "batch_update"}
    Versioned = {TRUE}
    MaxVersion = 2
    MaxBatch = 2
    MaxFaults = 1
PROPERTIES
    BatchEnds
