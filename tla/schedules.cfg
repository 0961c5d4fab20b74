SPECIFICATION Spec
CONSTANTS
    shared = shared
    Key = {k1, k2}
    RestName = {shared}
    RestId <- SharedId
    Uuid = {u1}
    Cron = {daily, wrong}
    BadCron = {wrong}
    Prompt = {x, y}
    Keep = Keep
    None = None
    Call = {c1, c2}
    MaxFaults = 1
INVARIANTS TypeOK SettledAgrees
