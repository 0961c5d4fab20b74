SPECIFICATION FairSpec
CONSTANTS
    j1 = j1
    j2 = j2
    p1 = p1
    p2 = p2
    Worker = {w1, w2}
    Inode = {i1, i2}
    NoFile = NoFile
    Nobody = Nobody
    Job = {j1, j2}
    NoJob = NoJob
    Project = {p1, p2}
    Layouts <- OneOrTwo
    MaxFaults = 1
CHECK_DEADLOCK FALSE
INVARIANTS TypeOK
PROPERTIES QueuedIsStarted RefusedOnlyIfBusy
