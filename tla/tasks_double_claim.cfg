SPECIFICATION Spec
CONSTANTS
    t1 = t1
    t2 = t2
    t3 = t3
    a1 = a1
    a2 = a2
    User = user
    Nobody = Nobody
    NoTask = NoTask
    Task = {t1}
    Req = {r1, r2}
    Caller = {a1, a2}
    Parent <- NoParents
    Doors = {"mcp"}
    Asked = {"pending", "accepted", "in-progress", "blocked", "done", "cancelled"}
    MaxBatch = 1
CHECK_DEADLOCK FALSE
PROPERTIES FirstClaimOwns
