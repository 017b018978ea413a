CONSTANTS
    k1 = k1
    c1 = c1
    c2 = c2
    Instances = {k1}
    Disabled = Disabled
    Kinds = {"downstream_key", "upstream_identity"}
    Subjects = {c1, c2}
    KindOf <- MCKindOf
    Inventories <- MCInventories
    Ids = {1, 2}
    Values = {"x", "y"}
    Gone = Gone
    Any = Any
    NoEdit = NoEdit
    Tables <- MCTables
    Databases <- MCDatabases
    MaxForeign = 1
    MaxLate = 1
    MaxConfiguring = 1
CHECK_DEADLOCK FALSE
SPECIFICATION KeeperSpec
INVARIANTS
    CurrentIsLastRead
PROPERTIES
    RefusedMeansUntouched
    OverwritesWhatItChecked
