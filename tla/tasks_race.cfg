SPECIFICATION RaceSpec
CONSTANTS
    t1 = t1
    t2 = t2
    t3 = t3
    a1 = a1
    a2 = a2
    User = user
    Nobody = Nobody
    NoTask = NoTask
    Task = {t1, t2, t3}
    Req = {r1, r2}
    Caller = {a1}
    Parent <- OneParent
    Doors = {"mcp"}
    Asked = {"in-progress", "blocked", "done"}
    MaxBatch = 2
CHECK_DEADLOCK FALSE
INVARIANTS TypeOK OwnerMatchesStatus
PROPERTIES LegalUnlessStale TriggerReadiesParent
