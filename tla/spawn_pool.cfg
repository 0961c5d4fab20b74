SPECIFICATION FairSpec
CONSTANTS
    c1 = c1
    c2 = c2
    p1 = p1
    f1 = f1
    Child = {c1, c2}
    Project = {p1}
    Profile = {f1}
    ProjectOf <- OneProject
    ProfileOf <- OneProfile
    Direct = {c1}
    MaxPool = 1
    PoolSize <- Singleton
    Killer = {k1}
    MaxFaults = 2
CHECK_DEADLOCK FALSE
INVARIANTS TypeOK PoolBound DeadIsUntracked
PROPERTIES RunningSettles SlotsFreed
