SPECIFICATION FairSpec
CONSTANTS
    t = t
    a = a
    b = b
    c = c
    ghost = ghost
    Node = {t, a, b, c, ghost}
    Known = {t, a, b, c}
    Trigger = t
    Graphs <- AllGraphs
    MayFail = TRUE
CHECK_DEADLOCK FALSE
INVARIANTS TypeOK ParentsFirst CompletedIsComplete
PROPERTIES Ends
