CONSTANTS
    Callers = {c1, c2}
    Kinds = {"admission", "usage", "ensure"}
    Managers = {m1}
    Prices = {dear}
    Absent = absent
    NoCatalog = nocatalog
    Nobody = nobody
    Empty = empty
    FreshFor = 1
    MissFor = 0
    Backoffs <- MCBackoffs
    Horizon = 2
    MaxRefreshes = 2
CHECK_DEADLOCK FALSE
SPECIFICATION FairSpec
PROPERTIES CallsReturn
