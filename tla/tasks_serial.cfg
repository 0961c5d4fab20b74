SPECIFICATION BoardSpec
CONSTANTS
    t1 = t1
    t2 = t2
    t3 = t3
    a1 = a1
    a2 = a2
    User = user
    Nobody = Nobody
    NoTask = NoTask
    Task = {t1, t2}
    Req = {r1}
    Caller = {a1, a2}
    Parent <- OneParent
    Doors = {"mcp", "rest"}
    Asked = {"pending", "accepted", "in-progress", "blocked", "done", "cancelled"}
    MaxBatch = 2
    b1 = b1
    b2 = b2
    backlog = backlog
    other = other
    Board = {b1, b2}
    SlugOf <- TwoSlugs
    Backlog = backlog
    Item = {i1}
    Goal = {g1, g2}
    Planner = {c1, c2}
    Title = {x, y}
    Nowhere = Nowhere
    p1 = p1
    Slug = {p1, p2}
    Skill = {s1}
    Crew = {w1, w2}
    Clerk = {k1, k2}
    Pool = {three, four}
    StandardPool = three
    NoSlug = NoSlug
SYMMETRY Symmetric
CHECK_DEADLOCK FALSE
INVARIANTS CatalogKept
PROPERTIES StrictLifecycle FirstClaimOwns
