CONSTANTS
    Callers = {c1, c2}
    Kinds = {"admission", "manual"}
    Managers = {m1, m2}
    Prices = {dear}
    Absent = absent
    NoCatalog = nocatalog
    Nobody = nobody
    Empty = empty
    FreshFor = 0
    MissFor = 0
    Backoffs <- MCBackoffs
    Horizon = 1
    MaxRefreshes = 1
SYMMETRY MCSymmetry
CHECK_DEADLOCK FALSE
SPECIFICATION Spec
INVARIANTS CacheIsPublished AnswerWasOffered OneDownload
PROPERTIES NothingAfterClose
