SPECIFICATION SchedulerSpec
CONSTANTS
    Keys = {s1}
    PoolKeys = {p1, p2}
    Candidates = {1, 2, 3}
    Weights = {0, 1, 2}
    MaxPools = 1
    MaxCredentials = 2
    WaitBound = 5
    None = None
INVARIANTS
    NoneStarves
