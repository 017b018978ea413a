SPECIFICATION BindingSpec
CONSTANTS
    Plans = {p1, p2}
    Legacy = Legacy
    Open = Open
    Instants <- MCInstants
    NextMidnight <- MCNextMidnight
    Scopes = {s1}
    Admins = {a1, a2}
    NoView = NoView
    MaxRevision = 4
SYMMETRY Symmetry
INVARIANTS
    ExactlyOneMode
PROPERTIES
    HistoryFixed
    NoLostUpdate
