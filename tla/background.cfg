SPECIFICATION Spec
CONSTANTS
    event = event
    yes = yes
    no = no
    Trigger = {t1}
    Poll = {p1}
    Flow = {f1}
    Event = {event}
    Meta = {yes, no}
    EventOf <- OneEvent
    RuleOf <- OneRule
    PollEvent <- PollsRaise
    FlowEvent <- FlowsStart
    Cooldown = 2
    PollCooldown = 2
    PollInterval = 1
    Dispatch = {d1, d2}
    MaxClock = 3
    Job = {j1, j2}
    File = {file}
    Holder = {h1, h2}
    Usage = {u1, u2, u3}
    NotifyAge = 1
    EscalateAge = 2
    LockTTL = 1
    QueueSize = 1
    BatchSize = 2
    MaxTime = 4
    Dir = {p, q}
    Keeper = {k1, k2}
    Editor = {e1}
    MaxText = 2
    MaxEvents = 1
    loud = loud
    quiet = quiet
    Pty = {loud, quiet}
    Viewer = {v1}
    MaxPTY = 1
    RingSize = 2
    ChanSize = 1
    MaxChunk = 3
    Output <- OneLoud
    starts = starts
    ends = ends
    stops = stops
    Session = {session}
    Hook = {starts, ends, stops}
    Tells <- OneTurn
    Stream = {b1}
    WaitingAge = 0
    IdleAge = 1
    ExitAge = 2
    DisplayTime = 1
    StreamSize = 1
    MaxSeconds = 3
SYMMETRY Symmetric
CHECK_DEADLOCK FALSE
INVARIANTS BackgroundTypeOK UpkeepOnce VaultIndexed WatchersFollow
PROPERTIES CooldownKept
