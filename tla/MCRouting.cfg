SPECIFICATION Spec
CONSTANTS
    file = file
    config = config
    m = m
    n = n
    pa = pa
    pb = pb
    Models = {m, n}
    Credentials = {file, config}
    AuthFiles = AuthFiles
    AIProviders = AIProviders
    Providers = {pa, pb}
    SelectorOf <- MCSelectorOf
    Hidden = Hidden
    RouteIds = {r1}
    Scopes = {s1}
    Rules <- MCRules
    Pools <- MCPools
    Offers <- MCOffers
    Sessions = {a1}
    NotGrouped = NotGrouped
    GroupRefused = GroupRefused
    KeepScopes = KeepScopes
CHECK_DEADLOCK FALSE
INVARIANTS
    ReferencesResolve
    DenyWins
    AnswerIsPermitted
