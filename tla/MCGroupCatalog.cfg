SPECIFICATION Spec
CONSTANTS
    plain = plain
    thinking = thinking
    Groups = {g1, g2}
    Models = {plain, thinking}
    Base <- MCBase
    Plans = {p1}
    Admins = {a1, a2}
    Instants = {1, 2, 3}
    NotYet = NotYet
    NoPage = NoPage
    MaxRevision = 4
SYMMETRY Symmetry
INVARIANTS
    OneOwner
    RestartRestores
PROPERTIES
    PastOwnersFixed
    PublishedAsSeen
