SPECIFICATION Spec
CONSTANTS
    Scopes = {s1}
    PlanIds = {p1, p2}
    WindowIds = {w1, w2}
    Metrics = {requests}
    Drafts <- MCDrafts
    Usages <- MCUsages
    MaxCount = 2
    Horizon = 3
    MaxRecords = 2
    NoPlan = NoPlan
    NoTime = NoTime
    NoCycle = NoCycle
CHECK_DEADLOCK FALSE
SYMMETRY Symmetry
INVARIANTS
    CyclesReload
    UsedIsSinceOpening
    RetryIsExact
PROPERTIES
    CyclesEndByRule
