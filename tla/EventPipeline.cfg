SPECIFICATION Spec
SYMMETRY Symmetry
CONSTANTS
    Requests = {r1, r2}
    Events = {e1, e2}
    Comments = {e2}
    Recipients = {u1}
    Automations = {a1, a2}
    Webhooks = {a1}
    Streams = {s1, s2}
    BufferSize = 1
    MaxWorkers = 1
    MaxConns = 2
    MaxFaults = 1
CHECK_DEADLOCK FALSE
INVARIANTS
    TypeOK
    NoPanic
    RunsHonest
    RunsLogged
PROPERTIES
    WaitQuiesces
