SPECIFICATION Spec
CONSTANTS
    a1 = a1
    Msg = {m1, m2}
    Agent = {a1}
    To <- Direct
    Timed = {}
    Urgent = {}
    Req = {r1}
    MaxFaults = 0
INVARIANTS SurfacedIsShown
