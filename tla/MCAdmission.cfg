SPECIFICATION FairSpec
CONSTANTS
    Calls = {c1, c2}
    Requests = {r1}
    Scopes = {s1}
    Groups = {g1}
    Limits = {1}
    NoRequest = NoRequest
    NoScope = NoScope
    NoSlot = NoSlot
    NoCall = NoCall
    Unlimited = Unlimited
INVARIANTS
    SlotsBalance
    NoSlotAfterCompletion
    AdmittedKeepsSlot
PROPERTIES
    CallsReturn
    SlotsDrain
