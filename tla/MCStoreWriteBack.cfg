SPECIFICATION Spec
CONSTANTS
    Callers = {c1}
    Parts = {p1, p2}
    Usage = {u1, u2, u3}
    Other = {e1}
    Files = {f1, f2}
    NoFile = NoFile
    MaxPending = 2
SYMMETRY Symmetry
INVARIANTS
    LedgersMatchEvents
    AdmittedOnSavedLedger
    RefusedEditLeavesNoTrace
    AcknowledgedEditLasts
PROPERTIES
    ImplementsDurableStore
