-------------------------------- MODULE Routing --------------------------------
(***************************************************************************)
(* Routes, the keys bound to them, the inventory of upstream credentials,  *)
(* and the choice of a credential for a request.                           *)
(*                                                                         *)
(* The routes and bindings are guarded by the store's lock, the inventory  *)
(* by routingMu.  A management request that names credentials reads the    *)
(* old rule, the host's list, the inventory and the store in separate      *)
(* critical sections; so does the choice of a credential.                  *)
(***************************************************************************)
EXTENDS RoutePolicy

CONSTANTS
    RouteIds,     \* ids of routes
    Scopes,       \* hashed API keys
    Rules,        \* rules that administrators write
    Pools,        \* credential pools of resource groups
    Sessions,     \* management requests that may run at the same time
    Offers,       \* sets of candidates that the host may present
    NotGrouped,   \* the key is in legacy mode
    GroupRefused, \* the key's group is disabled or not granted
    KeepScopes    \* an update without a key set

ASSUME RoutingAssumption ==
    /\ \A rule \in Rules : rule \in Rule /\ Normalized(rule)
    /\ EmptyRule \in Rules
    /\ \A rule \in Pools : rule \in Rule /\ PoolRule(rule)
    /\ {NotGrouped, GroupRefused} \intersect Pools = {}
    /\ {"refused", "unhandled"} \intersect Credentials = {}
    /\ \A offer \in Offers : \A c \in offer : c \in Presentations(c.ref)

VARIABLES
    routes,      \* State.Routes, a function from the ids that exist
    live,        \* keys that exist and are not deleted
    bindings,    \* KeyState.RouteBindings
    configured,  \* State.ConfigCredentials
    inventory,   \* App.credentials
    byRawId,     \* App.credentialsByRawID, as the refs it leads to
    session,     \* the management requests in progress
    pick         \* the scheduler call in progress

storeVars == <<routes, live, bindings, configured>>
inventoryVars == <<inventory, byRawId>>
vars == <<storeVars, inventoryVars, session, pick>>

FileBacked == {c \in Credentials : SelectorOf[c].source = AuthFiles}
ConfigBacked == Credentials \ FileBacked

Binding == [routes : SUBSET RouteIds, rule : Rules]

NoRule == [routes |-> {}, rule |-> EmptyRule]
Idle == [phase |-> "idle"]

Init ==
    /\ routes = <<>>
    /\ live = {}
    /\ bindings = [s \in Scopes |-> NoRule]
    /\ configured = {}
    /\ inventory = {}
    /\ byRawId = {}
    /\ session = [a \in Sessions |-> Idle]
    /\ pick = Idle

(* Every publication of the inventory, under routingMu. *)
Publish(credentials, rawIds) ==
    /\ inventory' = credentials
    /\ byRawId' = rawIds

-----------------------------------------------------------------------------
(* Store: one editConfiguration each *)

(* scopes are the keys that carry the route afterwards. *)
Rebind(id, scopes) ==
    bindings' = [s \in Scopes |->
        IF s \in scopes THEN [bindings[s] EXCEPT !.routes = @ \union {id}]
        ELSE [bindings[s] EXCEPT !.routes = @ \ {id}]]

CreateRoute(id, rule, scopes) ==
    /\ id \notin DOMAIN routes
    /\ scopes \subseteq live
    /\ routes' = [r \in DOMAIN routes \union {id} |-> IF r = id THEN rule ELSE routes[r]]
    /\ bindings' = [s \in Scopes |->
          IF s \in scopes THEN [bindings[s] EXCEPT !.routes = @ \union {id}] ELSE bindings[s]]
    /\ UNCHANGED <<live, configured>>

(* A deleted key can only keep or lose a route. *)
UpdateRoute(id, rule, scopes) ==
    /\ id \in DOMAIN routes
    /\ routes' = [routes EXCEPT ![id] = rule]
    /\ IF scopes = KeepScopes THEN UNCHANGED bindings
       ELSE /\ \A s \in scopes : s \in live \/ id \in bindings[s].routes
            /\ Rebind(id, scopes)
    /\ UNCHANGED <<live, configured>>

SetKeyRoutes(s, binding) ==
    /\ s \in live
    /\ binding.routes \subseteq DOMAIN routes
    /\ bindings' = [bindings EXCEPT ![s] = binding]
    /\ UNCHANGED <<routes, live, configured>>

DeleteRouteOfLiveKeys(id) ==
    /\ id \in DOMAIN routes
    /\ routes' = [r \in DOMAIN routes \ {id} |-> routes[r]]
    /\ Rebind(id, {s \in Scopes \ live : id \in bindings[s].routes})
    /\ UNCHANGED <<live, configured, inventoryVars, session, pick>>

(* Deleted keys lose the route too: they may come back. *)
DeleteRoute(id) ==
    /\ id \in DOMAIN routes
    /\ routes' = [r \in DOMAIN routes \ {id} |-> routes[r]]
    /\ Rebind(id, {})
    /\ UNCHANGED <<live, configured, inventoryVars, session, pick>>

(* SyncKeys: bindings outlive their key. *)
SyncKeys(keys) ==
    /\ live' = keys
    /\ UNCHANGED <<routes, bindings, configured, inventoryVars, session, pick>>

-----------------------------------------------------------------------------
(* Management requests that name credentials *)

EditRequests ==
    [op : {"create"}, id : RouteIds, rule : Rules, scopes : SUBSET Scopes] \union
    [op : {"update"}, id : RouteIds, rule : Rules, scopes : SUBSET Scopes \union {KeepScopes}] \union
    [op : {"bind"}, scope : Scopes, binding : Binding]

NamedRefs(req) ==
    IF req.op = "bind" THEN CredentialRefs(req.binding.rule) ELSE CredentialRefs(req.rule)

(* The refs that need no check because the rule to be replaced has them. *)
ExistingRefs(req) ==
    CASE req.op = "create" -> {}
      [] req.op = "update" -> IF req.id \in DOMAIN routes THEN CredentialRefs(routes[req.id]) ELSE {}
      [] req.op = "bind" -> IF req.scope \in live THEN CredentialRefs(bindings[req.scope].rule) ELSE {}

(* createRoute, updateRoute, setKeyRoutes up to validateNewCredentialRefs *)
BeginEdit(a, req) ==
    /\ session[a] = Idle
    /\ LET new == NamedRefs(req) \ ExistingRefs(req)
       IN session' = [session EXCEPT ![a] =
             [phase |-> IF new = {} THEN "save" ELSE "list", req |-> req, new |-> new]]
    /\ UNCHANGED <<storeVars, inventoryVars, pick>>

(* listCredentials refreshes the inventory and edits nothing. *)
BeginList(a) ==
    /\ session[a] = Idle
    /\ session' = [session EXCEPT ![a] = [phase |-> "list", req |-> Idle, new |-> {}]]
    /\ UNCHANGED <<storeVars, inventoryVars, pick>>

(* host.auth.list, outside any lock; it may omit config-backed credentials. *)
ReadHost(a, files) ==
    /\ session[a].phase = "list"
    /\ session' = [session EXCEPT ![a] =
          [phase |-> "publish", req |-> session[a].req, new |-> session[a].new, files |-> files]]
    /\ UNCHANGED <<storeVars, inventoryVars, pick>>

HostUnavailable(a) ==
    /\ session[a].phase = "list"
    /\ session' = [session EXCEPT ![a] = Idle]
    /\ UNCHANGED <<storeVars, inventoryVars, pick>>

(* What refreshCredentialInventory publishes: the list it read, and the *)
(* config-backed credentials known meanwhile. *)
Refreshed(files) == files \union (inventory \intersect ConfigBacked)

PublishList(a) ==
    /\ session[a].phase = "publish"
    /\ LET next == Refreshed(session[a].files)
       IN Publish(next, session[a].files \union (byRawId \intersect next))
    /\ session' = [session EXCEPT ![a] =
          IF session[a].req = Idle THEN Idle
          ELSE [phase |-> "check", req |-> session[a].req, new |-> session[a].new]]
    /\ UNCHANGED <<storeVars, pick>>

(* missingCredentialRef *)
CheckRefs(a) ==
    /\ session[a].phase = "check"
    /\ session' = [session EXCEPT ![a] =
          IF session[a].new \subseteq inventory
          THEN [phase |-> "save", req |-> session[a].req, new |-> session[a].new] ELSE Idle]
    /\ UNCHANGED <<storeVars, inventoryVars, pick>>

StoreEdit(req) ==
    CASE req.op = "create" -> CreateRoute(req.id, req.rule, req.scopes)
      [] req.op = "update" -> UpdateRoute(req.id, req.rule, req.scopes)
      [] req.op = "bind" -> SetKeyRoutes(req.scope, req.binding)

(* The store edit, or its refusal by a check or by the database. *)
Save(a) ==
    /\ session[a].phase = "save"
    /\ StoreEdit(session[a].req) \/ UNCHANGED storeVars
    /\ session' = [session EXCEPT ![a] = Idle]
    /\ UNCHANGED <<inventoryVars, pick>>

-----------------------------------------------------------------------------
(* The inventory *)

(* replaceSyncedCredentials *)
Replaced(next) == (inventory \ configured) \union next

(* syncConfiguredCredentials: routingMu is held across the store edit. *)
SyncConfigured(next) ==
    /\ configured' = next
    /\ Publish(Replaced(next), byRawId \ configured)
    /\ UNCHANGED <<routes, live, bindings, session, pick>>

(* The process ends and starts again: memory is lost, and configure publishes *)
(* the configured credentials of the database it loads. *)
Restart ==
    /\ Publish(configured, {})
    /\ session' = [a \in Sessions |-> Idle]
    /\ pick' = Idle
    /\ UNCHANGED storeVars

-----------------------------------------------------------------------------
(* The choice of a credential *)

(* observeCandidates; a candidate without a source is not recorded. *)
BeginPick(s, candidates) ==
    /\ pick = Idle
    /\ LET shown == {c.ref : c \in {k \in candidates : k.source # Hidden}}
       IN Publish(inventory \union shown, byRawId \union shown)
    /\ pick' = [phase |-> "resolve", scope |-> s, candidates |-> candidates]
    /\ UNCHANGED <<storeVars, session>>

(* ResolveRouting; permitted is history: what the bound rules say of what the *)
(* candidates truly are. *)
ResolveRouting ==
    /\ pick.phase = "resolve"
    /\ LET binding == bindings[pick.scope]
       IN pick' = [phase |-> "policy", scope |-> pick.scope, candidates |-> pick.candidates,
                   decision |-> Merged(routes, binding),
                   misconfigured |-> Misconfigured(routes, binding),
                   permitted |-> {c.ref : c \in {k \in pick.candidates :
                                     PermitsCredential(RulesOf(routes, binding), k.ref)}}]
    /\ UNCHANGED <<storeVars, inventoryVars, session>>

PermittedByPool(p) ==
    {c \in pick.permitted : p = NotGrouped \/ (p # GroupRefused /\ PermitsCredential({p}, c))}

Answered(answer, p) ==
    pick' = [phase |-> "answered", answer |-> answer,
             candidates |-> {c.ref : c \in pick.candidates}, permitted |-> PermittedByPool(p)]

(* A group's pool is a further filter, never a union with the key's rules. *)
AllowedCandidates(p) ==
    {c \in pick.candidates :
       AllowsCandidate(pick.decision, c) /\ (p \in Pools => AllowsCandidate(p, c))}

(* GroupCredentialPolicy, which answers p for the present plan and group of *)
(* the key, the filter and the scheduler. Some allowed candidates may have no *)
(* weight, so the scheduler may find none. *)
Choose(p) ==
    /\ pick.phase = "policy"
    /\ LET refused == p = GroupRefused \/ pick.misconfigured
           unrestricted == p = NotGrouped /\ ~RestrictsCredentials(pick.decision)
           allowed == AllowedCandidates(p)
       IN IF refused THEN Answered("refused", p)
          ELSE IF unrestricted \/ (allowed = pick.candidates /\ allowed # {})
          THEN Answered("unhandled", p)
          ELSE Answered("refused", p) \/ \E c \in allowed : Answered(c.ref, p)
    /\ UNCHANGED <<storeVars, inventoryVars, session>>

EndPick ==
    /\ pick.phase = "answered"
    /\ pick' = Idle
    /\ UNCHANGED <<storeVars, inventoryVars, session>>

Administration ==
    \/ \E id \in RouteIds : DeleteRoute(id)
    \/ \E keys \in SUBSET Scopes : SyncKeys(keys)
    \/ \E next \in SUBSET ConfigBacked : SyncConfigured(next)

Management ==
    \E a \in Sessions :
       \/ \E req \in EditRequests : BeginEdit(a, req)
       \/ BeginList(a)
       \/ \E files \in SUBSET Credentials : ReadHost(a, files)
       \/ HostUnavailable(a)
       \/ PublishList(a)
       \/ CheckRefs(a)
       \/ Save(a)

Picking ==
    \/ \E s \in Scopes, candidates \in Offers : BeginPick(s, candidates)
    \/ ResolveRouting
    \/ \E p \in Pools \union {NotGrouped, GroupRefused} : Choose(p)
    \/ EndPick

Next == Administration \/ Management \/ Picking \/ Restart

Spec == Init /\ [][Next]_vars

-----------------------------------------------------------------------------
(* Properties *)

(* A key never refers to a route that is gone, so no request is refused for a *)
(* configuration error, also after a deleted key has come back. *)
BindingsResolve == \A s \in Scopes : ~Misconfigured(routes, bindings[s])

(* Credentials that the configuration has are always listed, and every raw id *)
(* leads to a listed credential, whichever refreshes, observations and *)
(* synchronisations overlap. *)
InventoryComplete ==
    /\ configured \subseteq inventory
    /\ byRawId \subseteq inventory

(* What is looked up by a reference that is held elsewhere is there: routes by *)
(* the keys bound to them, credentials by configuration entries and raw ids.   *)
ReferencesResolve == BindingsResolve /\ InventoryComplete

(* The merged decision says of every model and every credential what the *)
(* bound rules say one by one: a denial by any of them wins over every *)
(* permission, and a key whose permissions are all denied gets nothing. *)
DenyWins ==
    \A s \in Scopes :
       LET d == Merged(routes, bindings[s])
           rules == RulesOf(routes, bindings[s])
       IN /\ \A m \in Models : AllowsModel(d, m) <=> PermitsModel(rules, m)
          /\ \A c \in Credentials : AllowsCandidate(d, FullCandidate(c)) <=> PermitsCredential(rules, c)

(* A credential that is chosen, and every candidate when the choice is left to *)
(* the host, was permitted by the key's rules as they were when they were read, *)
(* and by its group's pool as it was read after them, for what the credential truly is, *)
(* however little of that the host reported. *)
AnswerIsPermitted ==
    pick.phase = "answered" =>
       /\ pick.answer \in Credentials => pick.answer \in pick.permitted
       /\ pick.answer = "unhandled" => pick.candidates \subseteq pick.permitted

=============================================================================
