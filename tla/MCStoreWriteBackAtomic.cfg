SPECIFICATION Spec
CONSTANTS
    Callers = {c1}
    Parts = {p1, p2}
    Usage = {u1, u2}
    Other = {e1}
    Files = {f1}
    NoFile = NoFile
    MaxPending = 1
SYMMETRY Symmetry
INVARIANT EveryChargeHasItsEvent
