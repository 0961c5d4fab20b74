SPECIFICATION FairSpec
CONSTANTS
    a1 = a1
    Msg = {m1, m2}
    Agent = {a1}
    To <- Direct
    Timed = {m1}
    Urgent = {m2}
    Req = {r1, r2}
    MaxFaults = 1
INVARIANTS TypeOK ShownIsNotUnread
PROPERTIES OnlyForward ExpiryCloses
