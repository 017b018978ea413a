SPECIFICATION Spec
CONSTANTS
    Plans = {p1}
    Legacy = Legacy
    Open = Open
    Instants <- MCInstants
    NextMidnight <- MCNextMidnight
    Scopes = {s1}
    Groups = {g1}
    NoGroup = NoGroup
    Amounts = {1, 2}
    TooLarge = TooLarge
    Unpriced = Unpriced
    MaxInt = 2
    Unset = Unset
    Limits = {2}
    Unlimited = Unlimited
    NoPolicy = NoPolicy
    Switch = {TRUE}
    Never = Never
    MaxEvents = 2
INVARIANTS
    UsedIsSinceReset
    UnbookedClosesAdmission
    ClassesAreStable
    ShownIsDecided
    RawReconciles
    CompleteMeansPriced
PROPERTIES
    ImplementsBudget
