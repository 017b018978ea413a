----------------------------- MODULE RoutingProofs -----------------------------
(***************************************************************************)
(* Proofs about route policies, the routes bound to keys, the inventory of *)
(* credentials and the choice of one, and about the scheduler that makes   *)
(* it among those a rule permits.                                          *)
(***************************************************************************)
EXTENDS Routing, SubsetScheduler, TokenAccountingProofs

-----------------------------------------------------------------------------
(* What a decision that merges rules says *)

Merges(d, rules) ==
    /\ d.allow = UNION {r.allow : r \in rules}
    /\ d.deny = UNION {r.deny : r \in rules}

LEMMA MergedMerges ==
    ASSUME NEW r, NEW binding PROVE Merges(Merged(r, binding), RulesOf(r, binding))
  BY DEF Merges, Merged

LEMMA PoolMerges == ASSUME NEW p PROVE Merges(p, {p})
  BY DEF Merges

LEMMA SelectorIsItsParts ==
    ASSUME NEW c \in Credentials
    PROVE  /\ SelectorOf[c] \in Selectors
           /\ SelectorOf[c] = [source |-> SelectorOf[c].source, provider |-> SelectorOf[c].provider]
           /\ SelectorOf[c].source \in Sources /\ SelectorOf[c].source # Hidden
           /\ SelectorOf[c].provider \in Providers /\ SelectorOf[c].provider # Hidden
  BY PolicyAssumption DEF Selectors

(* A selector potentially denies a credential that is completely reported only *)
(* if it is the selector of that credential. *)
LEMMA DeniedIsItsSelector ==
    ASSUME NEW c \in Credentials, NEW denied \in Selectors
    PROVE  DeniesPotentially(denied, FullCandidate(c)) <=> denied = SelectorOf[c]
  <1>1. denied = [source |-> denied.source, provider |-> denied.provider]
    BY DEF Selectors
  <1> QED
    BY <1>1, SelectorIsItsParts DEF DeniesPotentially, FullCandidate

LEMMA ModelsAsPermitted ==
    ASSUME NEW rules, NEW d, Merges(d, rules), NEW m \in Models
    PROVE  AllowsModel(d, m) <=> PermitsModel(rules, m)
  <1>1. m \in d.deny <=> \E r \in rules : m \in r.deny
    BY DEF Merges
  <1>2. m \in d.allow <=> \E r \in rules : m \in r.allow
    BY DEF Merges
  <1>3. d.allow \intersect Models = {} <=> \A r \in rules : r.allow \intersect Models = {}
    BY DEF Merges
  <1> QED
    BY <1>1, <1>2, <1>3 DEF AllowsModel, PermitsModel

(* The merged decision on a credential that is completely reported. *)
LEMMA CredentialsAsPermitted ==
    ASSUME NEW rules, NEW d, Merges(d, rules), NEW c \in Credentials
    PROVE  AllowsCandidate(d, FullCandidate(c)) <=> PermitsCredential(rules, c)
  <1> DEFINE full == FullCandidate(c)
  <1>1. full.ref = c /\ [source |-> full.source, provider |-> full.provider] = SelectorOf[c]
    BY SelectorIsItsParts DEF FullCandidate
  <1>2. \A x : x \in d.deny <=> \E r \in rules : x \in r.deny
    BY DEF Merges
  <1>3. \A x : x \in d.allow <=> \E r \in rules : x \in r.allow
    BY DEF Merges
  <1>4. CredentialItems(d.allow) = {} <=> \A r \in rules : CredentialItems(r.allow) = {}
    BY <1>3 DEF CredentialItems
  <1>5. (\E denied \in d.deny \intersect Selectors : DeniesPotentially(denied, full))
            <=> SelectorOf[c] \in d.deny
    BY DeniedIsItsSelector, SelectorIsItsParts
  <1> HIDE DEF full
  <1>6. AllowsCandidate(d, full) <=>
            /\ c \notin d.deny
            /\ SelectorOf[c] \notin d.deny
            /\ CredentialItems(d.allow) = {} \/ c \in d.allow \/ SelectorOf[c] \in d.allow
    BY <1>1, <1>5 DEF AllowsCandidate
  <1>7. PermitsCredential(rules, c) <=>
            /\ ~\E r \in rules : c \in r.deny
            /\ ~\E r \in rules : SelectorOf[c] \in r.deny
            /\ \/ \A r \in rules : CredentialItems(r.allow) = {}
               \/ \E r \in rules : c \in r.allow
               \/ \E r \in rules : SelectorOf[c] \in r.allow
    BY DEF PermitsCredential, DeniesCredential
  <1> QED
    BY <1>2, <1>3, <1>4, <1>6, <1>7 DEF full

(* Whatever the host leaves out, a candidate that is allowed is allowed for *)
(* what it truly is. *)
LEMMA HidingNeverPermits ==
    ASSUME NEW d, d.allow \subseteq Items, NEW c \in Credentials, NEW k \in Presentations(c),
           AllowsCandidate(d, k)
    PROVE  AllowsCandidate(d, FullCandidate(c))
  <1> DEFINE full == FullCandidate(c)
  <1>1. /\ k \in Candidate /\ k.ref = c
        /\ k.source \in {Hidden, SelectorOf[c].source}
        /\ k.provider \in {Hidden, SelectorOf[c].provider}
    BY DEF Presentations
  <1>2. full.ref = c /\ full.source = SelectorOf[c].source /\ full.provider = SelectorOf[c].provider
    BY DEF FullCandidate
  <1>3. ASSUME NEW denied \in d.deny \intersect Selectors, DeniesPotentially(denied, full)
        PROVE  FALSE
    <2>1. denied = SelectorOf[c]
      BY <1>3, DeniedIsItsSelector
    <2>2. DeniesPotentially(denied, k)
      BY <1>1, <2>1 DEF DeniesPotentially
    <2> QED
      BY <2>2 DEF AllowsCandidate
  <1>4. ASSUME [source |-> k.source, provider |-> k.provider] \in d.allow
        PROVE  [source |-> full.source, provider |-> full.provider] \in d.allow
    <2>1. [source |-> k.source, provider |-> k.provider] \in Metadata
      BY <1>1 DEF Candidate, Metadata
    <2>2. [source |-> k.source, provider |-> k.provider] \in Selectors
      BY <1>4, <2>1, PolicyAssumption DEF Items
    <2>3. k.source # Hidden /\ k.provider # Hidden
      BY <2>2, PolicyAssumption DEF Selectors
    <2> QED
      BY <1>1, <1>2, <1>4, <2>3
  <1>5. c \notin d.deny /\ (CredentialItems(d.allow) = {} \/ c \in d.allow
            \/ [source |-> k.source, provider |-> k.provider] \in d.allow)
    BY <1>1 DEF AllowsCandidate
  <1> HIDE DEF full
  <1>6. AllowsCandidate(d, full)
    BY <1>2, <1>3, <1>4, <1>5 DEF AllowsCandidate
  <1> QED
    BY <1>6 DEF full

(* So what a decision allows of what the host presents, its rules permit. *)
LEMMA AllowedIsPermitted ==
    ASSUME NEW rules, rules \subseteq Rule, NEW d, Merges(d, rules),
           NEW c \in Credentials, NEW k \in Presentations(c), AllowsCandidate(d, k)
    PROVE  PermitsCredential(rules, c)
  <1>1. d.allow \subseteq Items
    BY DEF Merges, Rule
  <1> QED
    BY <1>1, HidingNeverPermits, CredentialsAsPermitted

(* A decision without credential items allows every candidate. *)
LEMMA UnrestrictedAllows ==
    ASSUME NEW d, ~RestrictsCredentials(d), NEW k \in Candidate
    PROVE  AllowsCandidate(d, k)
  <1>1. d.allow \subseteq Models /\ d.deny \subseteq Models
    BY DEF RestrictsCredentials, CredentialItems
  <1>2. Models \intersect Credentials = {} /\ Models \intersect Selectors = {}
    <2>1. Selectors \subseteq Metadata
      BY DEF Selectors, Metadata
    <2> QED
      BY <2>1, PolicyAssumption
  <1>3. k.ref \in Credentials
    BY DEF Candidate
  <1> QED
    BY <1>1, <1>2, <1>3 DEF AllowsCandidate, CredentialItems

-----------------------------------------------------------------------------
(* The inductive invariant *)

StoreTyped ==
    /\ DOMAIN routes \subseteq RouteIds
    /\ \A id \in DOMAIN routes : routes[id] \in Rules
    /\ live \subseteq Scopes
    /\ bindings \in [Scopes -> Binding]
    /\ configured \subseteq ConfigBacked

Phases == {"list", "publish", "check", "save"}

SessionTyped(t) ==
    \/ t = Idle
    \/ t.phase \in Phases /\ t.req \in EditRequests
    \/ t.phase \in {"list", "publish"} /\ t.req = Idle

SessionsTyped ==
    /\ DOMAIN session = Sessions
    /\ \A a \in Sessions : SessionTyped(session[a])

(* From its resolution on, a choice carries a decision under which nothing *)
(* that the host presented is allowed unless the rules permit it. *)
PickSound ==
    /\ pick.phase \in {"idle", "resolve", "policy", "answered"}
    /\ pick.phase = "resolve" => pick.scope \in Scopes /\ pick.candidates \in Offers
    /\ pick.phase = "policy" =>
          /\ pick.candidates \in Offers
          /\ \A k \in pick.candidates : AllowsCandidate(pick.decision, k) => k.ref \in pick.permitted

Inv == StoreTyped /\ SessionsTyped /\ PickSound /\ ReferencesResolve /\ AnswerIsPermitted

LEMMA RulesAreRules == Rules \subseteq Rule /\ Pools \subseteq Rule /\ EmptyRule \in Rules
  BY RoutingAssumption

(* The edits of the store, whichever request carries them. *)
LEMMA RouteEditsResolve ==
    ASSUME StoreTyped, BindingsResolve, NEW req \in EditRequests, StoreEdit(req)
    PROVE  StoreTyped' /\ BindingsResolve'
  <1> USE DEF Misconfigured, BindingsResolve
  <1>0. \A s \in Scopes : /\ bindings[s] \in Binding
                          /\ \A id : [bindings[s] EXCEPT !.routes = @ \ {id}] \in Binding
                          /\ \A id : [bindings[s] EXCEPT !.routes = @ \ {id}].routes = bindings[s].routes \ {id}
                          /\ \A id \in RouteIds : [bindings[s] EXCEPT !.routes = @ \union {id}] \in Binding
                          /\ \A id : [bindings[s] EXCEPT !.routes = @ \union {id}].routes = bindings[s].routes \union {id}
    BY DEF StoreTyped, Binding
  <1>1. CASE req.op = "create"
    <2>1. CreateRoute(req.id, req.rule, req.scopes) /\ req.id \in RouteIds /\ req.rule \in Rules
      BY <1>1 DEF StoreEdit, EditRequests
    <2>2. /\ DOMAIN routes' = DOMAIN routes \union {req.id}
          /\ \A r \in DOMAIN routes' : routes'[r] = IF r = req.id THEN req.rule ELSE routes[r]
      BY <2>1 DEF CreateRoute
    <2>3. /\ bindings' \in [Scopes -> Binding]
          /\ \A s \in Scopes : bindings'[s].routes \subseteq bindings[s].routes \union {req.id}
      BY <1>0, <2>1 DEF CreateRoute
    <2>4. live' = live /\ configured' = configured
      BY <2>1 DEF CreateRoute
    <2> QED
      BY <2>1, <2>2, <2>3, <2>4 DEF StoreTyped
  <1>2. CASE req.op = "update"
    <2>1. UpdateRoute(req.id, req.rule, req.scopes) /\ req.id \in RouteIds /\ req.rule \in Rules
      BY <1>2 DEF StoreEdit, EditRequests
    <2>2. /\ DOMAIN routes' = DOMAIN routes /\ req.id \in DOMAIN routes
          /\ \A r \in DOMAIN routes' : routes'[r] = IF r = req.id THEN req.rule ELSE routes[r]
      BY <2>1 DEF UpdateRoute
    <2>3. /\ bindings' \in [Scopes -> Binding]
          /\ \A s \in Scopes : bindings'[s].routes \subseteq bindings[s].routes \union {req.id}
      <3>1. CASE req.scopes = KeepScopes
        <4>1. bindings' = bindings
          BY <2>1, <3>1 DEF UpdateRoute
        <4> QED
          BY <4>1 DEF StoreTyped
      <3>2. CASE req.scopes # KeepScopes
        <4>1. Rebind(req.id, req.scopes)
          BY <2>1, <3>2 DEF UpdateRoute
        <4>2. bindings' = [s \in Scopes |->
                  IF s \in req.scopes THEN [bindings[s] EXCEPT !.routes = @ \union {req.id}]
                  ELSE [bindings[s] EXCEPT !.routes = @ \ {req.id}]]
          BY <4>1 DEF Rebind
        <4> HIDE DEF BindingsResolve
        <4> QED
          BY <1>0, <2>1, <4>2
      <3> QED
        BY <3>1, <3>2
    <2>4. live' = live /\ configured' = configured
      BY <2>1 DEF UpdateRoute
    <2> QED
      BY <2>1, <2>2, <2>3, <2>4 DEF StoreTyped
  <1>3. CASE req.op = "bind"
    <2>1. SetKeyRoutes(req.scope, req.binding) /\ req.scope \in Scopes /\ req.binding \in Binding
      BY <1>3 DEF StoreEdit, EditRequests
    <2> QED
      BY <2>1 DEF SetKeyRoutes, StoreTyped
  <1> QED
    BY <1>1, <1>2, <1>3 DEF EditRequests

LEMMA DeletedRouteIsUnbound ==
    ASSUME StoreTyped, BindingsResolve, NEW id \in RouteIds, DeleteRoute(id)
    PROVE  StoreTyped' /\ BindingsResolve'
  <1>1. /\ DOMAIN routes' = DOMAIN routes \ {id}
        /\ \A r \in DOMAIN routes' : routes'[r] = routes[r]
        /\ live' = live /\ configured' = configured
    BY DEF DeleteRoute
  <1>2. \A s \in Scopes : /\ bindings[s] \in Binding
                          /\ [bindings[s] EXCEPT !.routes = @ \ {id}] \in Binding
                          /\ [bindings[s] EXCEPT !.routes = @ \ {id}].routes = bindings[s].routes \ {id}
    BY DEF StoreTyped, Binding
  <1>3. /\ bindings' \in [Scopes -> Binding]
        /\ \A s \in Scopes : bindings'[s].routes = bindings[s].routes \ {id}
    BY <1>2 DEF DeleteRoute, Rebind
  <1> QED
    BY <1>1, <1>3 DEF StoreTyped, BindingsResolve, Misconfigured

LEMMA InvInit == Init => Inv
  <1> SUFFICES ASSUME Init PROVE Inv
    OBVIOUS
  <1>1. NoRule \in Binding /\ NoRule.routes = {}
    BY RulesAreRules DEF NoRule, Binding
  <1>2. DOMAIN routes = {}
    BY DEF Init
  <1>3. StoreTyped /\ BindingsResolve
    BY <1>1, <1>2 DEF Init, StoreTyped, BindingsResolve, Misconfigured
  <1>4. SessionsTyped
    BY DEF Init, SessionsTyped, SessionTyped
  <1>5. PickSound /\ AnswerIsPermitted
    BY DEF Init, PickSound, Idle, AnswerIsPermitted
  <1>6. InventoryComplete
    BY DEF Init, InventoryComplete
  <1> QED
    BY <1>3, <1>4, <1>5, <1>6 DEF Inv, ReferencesResolve

-----------------------------------------------------------------------------
(* The steps *)

LEMMA AdministrationKeepsInv == Inv /\ Administration => Inv'
  <1> SUFFICES ASSUME Inv, Administration PROVE Inv'
    OBVIOUS
  <1> USE DEF Inv, ReferencesResolve
  <1>1. ASSUME NEW id \in RouteIds, DeleteRoute(id) PROVE Inv'
    <2>1. StoreTyped' /\ BindingsResolve'
      BY <1>1, DeletedRouteIsUnbound
    <2>2. UNCHANGED <<configured, inventory, byRawId, session, pick>>
      BY <1>1 DEF DeleteRoute, inventoryVars
    <2> QED
      BY <2>1, <2>2 DEF SessionsTyped, PickSound, AnswerIsPermitted, InventoryComplete
  <1>2. ASSUME NEW keys \in SUBSET Scopes, SyncKeys(keys) PROVE Inv'
    <2>1. UNCHANGED <<routes, bindings, configured, inventory, byRawId, session, pick>> /\ live' = keys
      BY <1>2 DEF SyncKeys, inventoryVars
    <2> QED
      BY <2>1 DEF StoreTyped, SessionsTyped, PickSound, AnswerIsPermitted, InventoryComplete,
                  BindingsResolve
  <1>3. ASSUME NEW next \in SUBSET ConfigBacked, SyncConfigured(next) PROVE Inv'
    <2>1. /\ UNCHANGED <<routes, live, bindings, session, pick>> /\ configured' = next
          /\ inventory' = (inventory \ configured) \union next
          /\ byRawId' = byRawId \ configured
      BY <1>3 DEF SyncConfigured, Publish, Replaced
    <2>2. InventoryComplete'
      BY <2>1 DEF InventoryComplete
    <2> QED
      BY <2>1, <2>2 DEF StoreTyped, SessionsTyped, PickSound, AnswerIsPermitted, BindingsResolve
  <1> QED
    BY <1>1, <1>2, <1>3 DEF Administration

LEMMA RestartKeepsInv == Inv /\ Restart => Inv'
  <1> SUFFICES ASSUME Inv, Restart PROVE Inv'
    OBVIOUS
  <1> USE DEF Inv, ReferencesResolve
  <1>1. /\ inventory' = configured /\ byRawId' = {}
        /\ session' = [a \in Sessions |-> Idle] /\ pick' = Idle
        /\ UNCHANGED <<routes, live, bindings, configured>>
    BY DEF Restart, Publish, storeVars
  <1>2. SessionsTyped'
    BY <1>1 DEF SessionsTyped, SessionTyped
  <1>3. (PickSound /\ AnswerIsPermitted)'
    BY <1>1 DEF PickSound, AnswerIsPermitted, Idle
  <1> QED
    BY <1>1, <1>2, <1>3 DEF StoreTyped, InventoryComplete, BindingsResolve

(* A step of one management request that leaves it typed. *)
LEMMA SessionStep ==
    ASSUME SessionsTyped, NEW a \in Sessions, NEW t, SessionTyped(t),
           session' = [session EXCEPT ![a] = t]
    PROVE  SessionsTyped'
  <1>1. \A b \in Sessions : session'[b] = IF b = a THEN t ELSE session[b]
    BY DEF SessionsTyped
  <1>2. \A b \in Sessions : SessionTyped(session'[b])
    BY <1>1 DEF SessionsTyped
  <1>3. DOMAIN session' = Sessions
    BY DEF SessionsTyped
  <1> QED
    BY <1>2, <1>3 DEF SessionsTyped, SessionTyped

LEMMA ManagementKeepsInv == Inv /\ Management => Inv'
  <1> SUFFICES ASSUME Inv, NEW a \in Sessions,
                      \/ \E req \in EditRequests : BeginEdit(a, req)
                      \/ BeginList(a)
                      \/ \E files \in SUBSET Credentials : ReadHost(a, files)
                      \/ HostUnavailable(a)
                      \/ PublishList(a)
                      \/ CheckRefs(a)
                      \/ Save(a)
               PROVE  Inv'
    BY DEF Management
  <1> USE DEF Inv, ReferencesResolve
  <1>0. SessionTyped(session[a])
    BY DEF SessionsTyped
  <1>i. SessionTyped(Idle)
    BY DEF SessionTyped
  <1>q. ASSUME SessionsTyped', UNCHANGED <<storeVars, inventoryVars, pick>> PROVE Inv'
    BY <1>q DEF storeVars, inventoryVars, StoreTyped, PickSound, AnswerIsPermitted,
                InventoryComplete, BindingsResolve
  <1>1. ASSUME NEW req \in EditRequests, BeginEdit(a, req) PROVE Inv'
    <2>1. PICK new : session' = [session EXCEPT ![a] =
              [phase |-> IF new = {} THEN "save" ELSE "list", req |-> req, new |-> new]]
      BY <1>1 DEF BeginEdit
    <2>2. SessionTyped([phase |-> IF new = {} THEN "save" ELSE "list", req |-> req, new |-> new])
      BY DEF SessionTyped, Phases
    <2> QED
      BY <1>1, <1>q, <2>1, <2>2, SessionStep DEF BeginEdit
  <1>2. CASE BeginList(a)
    <2>1. SessionTyped([phase |-> "list", req |-> Idle, new |-> {}])
      BY DEF SessionTyped
    <2> QED
      BY <1>2, <1>q, <2>1, SessionStep DEF BeginList
  <1>3. ASSUME NEW files \in SUBSET Credentials, ReadHost(a, files) PROVE Inv'
    <2> DEFINE t == [phase |-> "publish", req |-> session[a].req, new |-> session[a].new, files |-> files]
    <2>1. session[a].req \in EditRequests \union {Idle}
      BY <1>0, <1>3 DEF ReadHost, SessionTyped, Idle
    <2>2. SessionTyped(t)
      BY <2>1 DEF SessionTyped, Phases
    <2> QED
      BY <1>3, <1>q, <2>2, SessionStep DEF ReadHost
  <1>4. CASE HostUnavailable(a)
    BY <1>4, <1>q, <1>i, SessionStep DEF HostUnavailable
  <1>5. CASE PublishList(a)
    <2> DEFINE next == Refreshed(session[a].files)
               t == IF session[a].req = Idle THEN Idle
                    ELSE [phase |-> "check", req |-> session[a].req, new |-> session[a].new]
    <2>1. /\ inventory' = next /\ byRawId' = session[a].files \union (byRawId \intersect next)
          /\ session' = [session EXCEPT ![a] = t]
          /\ UNCHANGED <<routes, live, bindings, configured, pick>>
      BY <1>5 DEF PublishList, Publish, storeVars
    <2>2. InventoryComplete'
      BY <2>1 DEF InventoryComplete, StoreTyped, Refreshed
    <2>3. SessionTyped(t)
      BY <1>0, <1>5 DEF PublishList, SessionTyped, Phases, Idle
    <2>4. SessionsTyped'
      BY <2>1, <2>3, SessionStep
    <2> QED
      BY <2>1, <2>2, <2>4 DEF StoreTyped, PickSound, AnswerIsPermitted, BindingsResolve
  <1>6. CASE CheckRefs(a)
    <2> DEFINE t == IF session[a].new \subseteq inventory
                    THEN [phase |-> "save", req |-> session[a].req, new |-> session[a].new] ELSE Idle
    <2>1. SessionTyped(t)
      BY <1>0, <1>6 DEF CheckRefs, SessionTyped, Phases, Idle
    <2> QED
      BY <1>6, <1>q, <2>1, SessionStep DEF CheckRefs
  <1>7. CASE Save(a)
    <2>1. session[a].req \in EditRequests
      BY <1>0, <1>7 DEF Save, SessionTyped, Idle
    <2>2. /\ StoreEdit(session[a].req) \/ UNCHANGED storeVars
          /\ UNCHANGED <<inventory, byRawId, pick>>
      BY <1>7 DEF Save, inventoryVars
    <2>3. StoreTyped' /\ BindingsResolve'
      <3>1. CASE StoreEdit(session[a].req)
        BY <2>1, <3>1, RouteEditsResolve
      <3>2. CASE UNCHANGED storeVars
        BY <3>2 DEF storeVars, StoreTyped, BindingsResolve
      <3> QED
        BY <2>2, <3>1, <3>2
    <2>4. configured' = configured
      BY <2>1, <2>2 DEF StoreEdit, CreateRoute, UpdateRoute, SetKeyRoutes, EditRequests, storeVars
    <2>5. SessionsTyped'
      BY <1>7, <1>i, SessionStep DEF Save
    <2> QED
      BY <2>2, <2>3, <2>4, <2>5 DEF PickSound, AnswerIsPermitted, InventoryComplete
  <1> QED
    BY <1>1, <1>2, <1>3, <1>4, <1>5, <1>6, <1>7

(* What the resolution and the group's pool permit, whatever the host left out. *)
LEMMA RulesOfKeyAreRules ==
    ASSUME StoreTyped, NEW s \in Scopes
    PROVE  RulesOf(routes, bindings[s]) \subseteq Rule
  <1>1. bindings[s].rule \in Rules
    BY DEF StoreTyped, Binding
  <1> QED
    BY <1>1, RulesAreRules DEF RulesOf, StoreTyped

LEMMA PickingKeepsInv == Inv /\ Picking => Inv'
  <1> SUFFICES ASSUME Inv, Picking PROVE Inv'
    OBVIOUS
  <1> USE DEF Inv, ReferencesResolve
  <1>q. ASSUME UNCHANGED <<storeVars, session>>, InventoryComplete', (PickSound /\ AnswerIsPermitted)'
        PROVE  Inv'
    BY <1>q DEF storeVars, StoreTyped, SessionsTyped, BindingsResolve
  <1>i. UNCHANGED <<storeVars, inventoryVars>> => InventoryComplete'
    BY DEF storeVars, inventoryVars, InventoryComplete
  <1>1. ASSUME NEW s \in Scopes, NEW candidates \in Offers, BeginPick(s, candidates) PROVE Inv'
    <2>1. PICK shown : inventory' = inventory \union shown /\ byRawId' = byRawId \union shown
      BY <1>1 DEF BeginPick, Publish
    <2>2. InventoryComplete'
      BY <1>1, <2>1 DEF InventoryComplete, BeginPick, storeVars
    <2>3. pick' = [phase |-> "resolve", scope |-> s, candidates |-> candidates]
      BY <1>1 DEF BeginPick
    <2>4. (PickSound /\ AnswerIsPermitted)'
      BY <2>3 DEF PickSound, AnswerIsPermitted
    <2> QED
      BY <1>1, <1>q, <2>2, <2>4 DEF BeginPick
  <1>2. CASE ResolveRouting
    <2>1. PICK s \in Scopes, offer \in Offers : s = pick.scope /\ offer = pick.candidates
      BY <1>2 DEF ResolveRouting, PickSound
    <2> DEFINE rules == RulesOf(routes, bindings[s])
               d == Merged(routes, bindings[s])
               permitted == {c.ref : c \in {k \in offer : PermitsCredential(rules, k.ref)}}
    <2>2. /\ pick'.phase = "policy" /\ pick'.candidates = offer
          /\ pick'.decision = d /\ pick'.permitted = permitted
      BY <1>2, <2>1 DEF ResolveRouting
    <2>3. ASSUME NEW k \in offer, AllowsCandidate(d, k) PROVE k.ref \in permitted
      <3>1. k \in Presentations(k.ref) /\ k.ref \in Credentials
        BY RoutingAssumption DEF Presentations, Candidate
      <3>2. rules \subseteq Rule /\ Merges(d, rules)
        BY RulesOfKeyAreRules, MergedMerges
      <3> HIDE DEF rules, d
      <3>3. PermitsCredential(rules, k.ref)
        BY <2>3, <3>1, <3>2, AllowedIsPermitted
      <3> QED
        BY <3>3
    <2> HIDE DEF d, permitted
    <2>4. (PickSound /\ AnswerIsPermitted)'
      BY <2>2, <2>3 DEF PickSound, AnswerIsPermitted
    <2> QED
      BY <1>2, <1>i, <1>q, <2>4 DEF ResolveRouting
  <1>3. ASSUME NEW p \in Pools \union {NotGrouped, GroupRefused}, Choose(p) PROVE Inv'
    <2> DEFINE offer == pick.candidates
               d == pick.decision
    <2>1. /\ offer \in Offers
          /\ \A k \in offer : AllowsCandidate(d, k) => k.ref \in pick.permitted
          /\ \A k \in offer : k \in Presentations(k.ref) /\ k \in Candidate /\ k.ref \in Credentials
      BY <1>3, RoutingAssumption DEF Choose, PickSound, Presentations, Candidate
    <2>2. ASSUME p # GroupRefused, NEW k \in AllowedCandidates(p) PROVE k.ref \in PermittedByPool(p)
      <3>1. k \in offer /\ AllowsCandidate(d, k) /\ k.ref \in pick.permitted
        BY <2>1, <2>2 DEF AllowedCandidates
      <3>2. CASE p = NotGrouped
        BY <3>1, <3>2 DEF PermittedByPool
      <3>3. CASE p \in Pools
        <4>1. AllowsCandidate(p, k)
          BY <2>2, <3>3 DEF AllowedCandidates
        <4>2. Merges(p, {p}) /\ {p} \subseteq Rule
          BY <3>3, PoolMerges, RulesAreRules
        <4>3. PermitsCredential({p}, k.ref)
          BY <2>1, <3>1, <4>1, <4>2, AllowedIsPermitted
        <4> QED
          BY <2>2, <3>1, <4>3 DEF PermittedByPool
      <3> QED
        BY <2>2, <3>2, <3>3
    <2>3. ASSUME p = NotGrouped, p # GroupRefused, ~RestrictsCredentials(d), NEW k \in offer
          PROVE  k \in AllowedCandidates(p)
      BY <2>1, <2>3, UnrestrictedAllows, RoutingAssumption DEF AllowedCandidates
    <2> DEFINE Says(said) ==
               /\ said \in Credentials => said \in PermittedByPool(p)
               /\ said = "unhandled" => {k.ref : k \in offer} \subseteq PermittedByPool(p)
    <2>4. \E said : Says(said) /\ Answered(said, p)
      <3>r. Says("refused") /\ "unhandled" \notin Credentials
        BY RoutingAssumption
      <3> DEFINE refused == p = GroupRefused \/ pick.misconfigured
                 unrestricted == p = NotGrouped /\ ~RestrictsCredentials(d)
                 allowed == AllowedCandidates(p)
      <3>1. \/ Answered("refused", p)
            \/ /\ ~refused /\ (unrestricted \/ (allowed = offer /\ allowed # {}))
               /\ ~refused /\ Answered("unhandled", p)
            \/ ~refused /\ \E k \in allowed : Answered(k.ref, p)
        BY <1>3 DEF Choose
      <3>2. ASSUME p # GroupRefused, unrestricted \/ allowed = offer PROVE Says("unhandled")
        BY <2>2, <2>3, <3>2, <3>r
      <3>3. ASSUME p # GroupRefused, NEW k \in allowed PROVE Says(k.ref)
        <4>1. k.ref \in PermittedByPool(p) /\ k.ref \in Credentials
          BY <2>1, <2>2, <3>3 DEF AllowedCandidates
        <4> QED
          BY <3>r, <4>1
      <3> HIDE DEF Says, allowed, unrestricted
      <3> QED
        BY <3>1, <3>2, <3>3, <3>r DEF refused
    <2>5. PICK said : Says(said) /\ Answered(said, p)
      BY <2>4
    <2>6. /\ pick'.phase = "answered" /\ pick'.answer = said
          /\ pick'.candidates = {k.ref : k \in offer} /\ pick'.permitted = PermittedByPool(p)
      BY <2>5 DEF Answered
    <2>7. (PickSound /\ AnswerIsPermitted)'
      BY <2>5, <2>6 DEF PickSound, AnswerIsPermitted
    <2> QED
      BY <1>3, <1>i, <1>q, <2>7 DEF Choose
  <1>4. CASE EndPick
    <2>1. (PickSound /\ AnswerIsPermitted)'
      BY <1>4 DEF EndPick, PickSound, AnswerIsPermitted, Idle
    <2> QED
      BY <1>4, <1>i, <1>q, <2>1 DEF EndPick
  <1> QED
    BY <1>1, <1>2, <1>3, <1>4 DEF Picking

LEMMA InvNext == Inv /\ [Next]_vars => Inv'
  <1>1. Inv /\ UNCHANGED vars => Inv'
    BY DEF vars, storeVars, inventoryVars, Inv, StoreTyped, SessionsTyped, PickSound,
           ReferencesResolve, BindingsResolve, InventoryComplete, AnswerIsPermitted
  <1> QED
    BY <1>1, AdministrationKeepsInv, ManagementKeepsInv, PickingKeepsInv, RestartKeepsInv DEF Next

LEMMA InvAlways == Spec => []Inv
  BY InvInit, InvNext, PTL DEF Spec

-----------------------------------------------------------------------------
(* Theorems *)

(* A key never refers to a route that is gone (DeleteRoute takes it from     *)
(* deleted keys too), and the inventory holds every configured credential and *)
(* whatever raw ids lead to, however many refreshes, observations,           *)
(* synchronisations and edits overlap. *)
THEOREM ReferencesAlwaysResolve == Spec => []ReferencesResolve
  <1>1. Inv => ReferencesResolve
    BY DEF Inv
  <1> QED
    BY <1>1, InvAlways, PTL

(* resolveRoutingState merges the bound rules so that AllowsModel and         *)
(* AllowsCredential answer as the rules would one by one; for every set of    *)
(* rules, models and credentials. *)
THEOREM DenialsWin == Spec => []DenyWins
  <1>1. DenyWins
    BY MergedMerges, ModelsAsPermitted, CredentialsAsPermitted DEF DenyWins
  <1> QED
    BY <1>1, PTL

(* pickCredential never answers a credential, and never leaves the choice to  *)
(* the host, against the rules it resolved or the pool it read, although the  *)
(* inventory, the routes, the key and its group change between its steps and  *)
(* the host reports candidates incompletely. *)
THEOREM ChoiceIsPermitted == Spec => []AnswerIsPermitted
  <1>1. Inv => AnswerIsPermitted
    BY DEF Inv
  <1> QED
    BY <1>1, InvAlways, PTL

-----------------------------------------------------------------------------
(* Sums of credits *)

LEMMA SumOfBoth ==
    ASSUME NEW S, IsFiniteSet(S), NEW f, NEW g, NEW h,
           \A x \in S : f[x] \in Int /\ g[x] \in Int /\ h[x] = f[x] + g[x]
    PROVE  SumFunctionOnSet(h, S) = SumFunctionOnSet(f, S) + SumFunctionOnSet(g, S)
  <1> DEFINE F == {T \in SUBSET S :
                     SumFunctionOnSet(h, T) = SumFunctionOnSet(f, T) + SumFunctionOnSet(g, T)}
  <1>1. ASSUME NEW T \in SUBSET S, \A U \in SUBSET T : U # T => U \in F PROVE T \in F
    <2>1. CASE T = {}
      BY <2>1, SumEmpty
    <2>2. CASE T # {}
      <3>1. PICK x \in T : TRUE
        BY <2>2
      <3>2. T \ {x} \in F
        BY <1>1
      <3>3. IsFiniteSet(T) /\ IsFiniteSet(T \ {x})
        BY FS_Subset
      <3>4. \A y \in T : f[y] \in Int /\ g[y] \in Int /\ h[y] \in Int
        OBVIOUS
      <3>5. /\ SumFunctionOnSet(f, T) = f[x] + SumFunctionOnSet(f, T \ {x})
            /\ SumFunctionOnSet(g, T) = g[x] + SumFunctionOnSet(g, T \ {x})
            /\ SumFunctionOnSet(h, T) = h[x] + SumFunctionOnSet(h, T \ {x})
        BY <3>3, <3>4, SumTakesOut
      <3>6. SumFunctionOnSet(f, T \ {x}) \in Int /\ SumFunctionOnSet(g, T \ {x}) \in Int
        BY <3>3, <3>4, SumTakesOut
      <3> QED
        BY <3>2, <3>4, <3>5, <3>6
    <2> QED
      BY <2>1, <2>2
  <1> HIDE DEF F
  <1>2. S \in F
    BY <1>1, SubsetInduction
  <1> QED
    BY <1>2 DEF F

LEMMA SumOfParts ==
    ASSUME NEW S, IsFiniteSet(S), NEW f, \A x \in S : f[x] \in Int, NEW T \in SUBSET S
    PROVE  /\ SumFunctionOnSet(f, S) = SumFunctionOnSet(f, T) + SumFunctionOnSet(f, S \ T)
           /\ SumFunctionOnSet(f, T) \in Int /\ SumFunctionOnSet(f, S \ T) \in Int
  <1> DEFINE inside == [x \in S |-> IF x \in T THEN f[x] ELSE 0]
             outside == [x \in S |-> IF x \in T THEN 0 ELSE f[x]]
  <1>1. SumFunctionOnSet(f, S) = SumFunctionOnSet(inside, S) + SumFunctionOnSet(outside, S)
    BY SumOfBoth
  <1>2. ASSUME NEW g, NEW U \in SUBSET S, \A x \in S : g[x] \in Int,
               \A x \in S \ U : g[x] = 0
        PROVE  SumFunctionOnSet(g, S) = SumFunctionOnSet(g, U)
    <2> DEFINE F == {V \in SUBSET S : SumFunctionOnSet(g, V) = SumFunctionOnSet(g, V \intersect U)}
    <2>1. ASSUME NEW V \in SUBSET S, \A W \in SUBSET V : W # V => W \in F PROVE V \in F
      <3>1. CASE V \subseteq U
        <4>1. V \intersect U = V
          BY <3>1
        <4> QED
          BY <4>1
      <3>2. CASE \E x \in V : x \notin U
        <4>1. PICK x \in V : x \notin U
          BY <3>2
        <4>2. V \ {x} \in F /\ (V \ {x}) \intersect U = V \intersect U
          BY <2>1, <4>1
        <4>3. IsFiniteSet(V) /\ IsFiniteSet(V \ {x}) /\ (\A y \in V : g[y] \in Int) /\ g[x] = 0
          BY <1>2, <4>1, FS_Subset
        <4>4. SumFunctionOnSet(g, V) = g[x] + SumFunctionOnSet(g, V \ {x})
          BY <4>3, SumTakesOut
        <4>5. SumFunctionOnSet(g, V \ {x}) \in Int
          BY <4>3, SumTakesOut
        <4>6. SumFunctionOnSet(g, V \ {x}) = SumFunctionOnSet(g, V \intersect U)
          BY <4>2
        <4>7. SumFunctionOnSet(g, V) = SumFunctionOnSet(g, V \intersect U)
          BY <4>3, <4>4, <4>5, <4>6
        <4> QED
          BY <4>7
      <3> QED
        BY <3>1, <3>2
    <2>2. S \intersect U = U
      OBVIOUS
    <2> HIDE DEF F
    <2>3. S \in F
      BY <2>1, SubsetInduction
    <2> QED
      BY <2>2, <2>3 DEF F
  <1>3. SumFunctionOnSet(inside, S) = SumFunctionOnSet(inside, T)
    BY <1>2
  <1>4. SumFunctionOnSet(outside, S) = SumFunctionOnSet(outside, S \ T)
    BY <1>2
  <1>5. IsFiniteSet(T) /\ IsFiniteSet(S \ T)
    BY FS_Subset
  <1>6. SumFunctionOnSet(inside, T) = SumFunctionOnSet(f, T)
    BY <1>5, SumsAgree
  <1>7. SumFunctionOnSet(outside, S \ T) = SumFunctionOnSet(f, S \ T)
    BY <1>5, SumsAgree
  <1>8. SumFunctionOnSet(f, T) \in Int /\ SumFunctionOnSet(f, S \ T) \in Int
    BY <1>5, SumTakesOut
  <1> QED
    BY <1>1, <1>3, <1>4, <1>6, <1>7, <1>8

LEMMA SumOfNothing ==
    ASSUME NEW S, IsFiniteSet(S), NEW f, \A x \in S : f[x] = 0
    PROVE  SumFunctionOnSet(f, S) = 0
  <1>1. \A x \in S : f[x] \in Int /\ f[x] = f[x] + f[x]
    OBVIOUS
  <1>2. \A n \in Int : n = n + n => n = 0
    OBVIOUS
  <1>3. SumFunctionOnSet(f, S) \in Int
    BY <1>1, SumTakesOut
  <1>4. SumFunctionOnSet(f, S) = SumFunctionOnSet(f, S) + SumFunctionOnSet(f, S)
    BY <1>1, SumOfBoth
  <1> QED
    BY <1>2, <1>3, <1>4

(* What one of the summands loses, the sum loses. *)
LEMMA SumOfPayment ==
    ASSUME NEW S, IsFiniteSet(S), NEW x \in S, NEW w \in Int, NEW f, NEW g,
           \A y \in S : f[y] \in Int /\ g[y] = IF y = x THEN f[y] - w ELSE f[y]
    PROVE  SumFunctionOnSet(g, S) = SumFunctionOnSet(f, S) - w
  <1>1. IsFiniteSet(S \ {x})
    BY FS_Subset
  <1>2. SumFunctionOnSet(g, S \ {x}) = SumFunctionOnSet(f, S \ {x})
    BY <1>1, SumsAgree
  <1>3. \A y \in S : g[y] \in Int
    OBVIOUS
  <1>4. SumFunctionOnSet(g, S) = g[x] + SumFunctionOnSet(g, S \ {x})
    BY <1>3, SumTakesOut
  <1>5. SumFunctionOnSet(f, S) = f[x] + SumFunctionOnSet(f, S \ {x})
    BY SumTakesOut
  <1>6. SumFunctionOnSet(f, S \ {x}) \in Int
    BY <1>1, SumTakesOut
  <1> QED
    BY <1>2, <1>4, <1>5, <1>6

-----------------------------------------------------------------------------
(* The credits of a pool of the scheduler *)

Credits == UNION {[D -> Int] : D \in SUBSET Candidates}

Schedules == [current : Credits, weights : Credits]

PoolTables == UNION {[P -> Schedules] : P \in SUBSET PoolKeys}

SchedulesTyped ==
    /\ pools \in [Keys -> PoolTables]
    /\ dropped \in [Keys -> [PoolKeys -> Int]]

(* A pool that is not kept starts anew. *)
NewPoolsLostNothing ==
    \A s \in Keys : \A p \in PoolKeys \ DOMAIN pools[s] : dropped[s][p] = 0

BalanceInv == SchedulesTyped /\ NewPoolsLostNothing /\ CreditsBalance

LEMMA CreditsFacts ==
    ASSUME NEW f \in Credits
    PROVE  /\ DOMAIN f \in SUBSET Candidates /\ f \in [DOMAIN f -> Int] /\ IsFiniteSet(DOMAIN f)
           /\ SumFunction(f) \in Int /\ SumFunction(f) = SumFunctionOnSet(f, DOMAIN f)
  <1>1. PICK D \in SUBSET Candidates : f \in [D -> Int]
    BY DEF Credits
  <1>2. DOMAIN f = D /\ IsFiniteSet(D)
    BY <1>1, FS_Subset, SchedulerAssumption
  <1>3. SumFunctionOnSet(f, D) \in Int
    BY <1>1, <1>2, SumTakesOut
  <1> QED
    BY <1>1, <1>2, <1>3 DEF SumFunction

LEMMA NoCredits == <<>> \in Credits /\ SumFunction(<<>>) = 0 /\ DOMAIN <<>> = {}
  <1>1. DOMAIN <<>> = {} /\ <<>> = [x \in {} |-> 0]
    OBVIOUS
  <1>2. <<>> \in [{} -> Int]
    BY <1>1
  <1> QED
    BY <1>1, <1>2, SumEmpty DEF Credits, SumFunction

LEMMA OfferFacts ==
    ASSUME NEW offer \in WeightedOffers
    PROVE  /\ offer \in Credits
           /\ Positive(offer) \in SUBSET DOMAIN offer
           /\ Positive(offer) \in SUBSET Candidates
           /\ IsFiniteSet(Positive(offer))
           /\ \A c \in Positive(offer) : offer[c] \in Int
           /\ TotalWeight(offer) \in Int
  <1>1. PICK D \in SUBSET Candidates : offer \in [D -> Weights]
    BY DEF WeightedOffers
  <1>2. offer \in [D -> Int]
    BY <1>1, SchedulerAssumption
  <1>3. /\ Positive(offer) \in SUBSET Candidates
        /\ \A c \in Positive(offer) : offer[c] \in Int
    BY <1>1, <1>2 DEF Positive
  <1>4. IsFiniteSet(Positive(offer))
    BY <1>3, FS_Subset, SchedulerAssumption
  <1>5. TotalWeight(offer) \in Int
    BY <1>3, <1>4, SumTakesOut DEF TotalWeight
  <1> QED
    BY <1>2, <1>3, <1>4, <1>5 DEF Credits, Positive

(* What preparing a pool for an offer does to its credits. *)
LEMMA PreparedBalance ==
    ASSUME NEW state \in Schedules, NEW offer \in WeightedOffers
    PROVE  /\ Prepared(state, offer) \in Schedules
           /\ SumFunction(Prepared(state, offer).current) =
                IF WeightsChanged(state, offer) THEN 0
                ELSE IF Overflows(state, offer) THEN SumFunction(state.current) - Dropped(state, offer)
                ELSE SumFunction(state.current)
           /\ Overflows(state, offer) => Dropped(state, offer) \in Int
  <1> DEFINE P == Positive(offer)
             kept == [c \in P |-> Credit(state, c)]
             old == [c \in P |-> offer[c]]
             merged == [c \in DOMAIN state.weights \union P |->
                          IF c \in P THEN offer[c] ELSE state.weights[c]]
             D == DOMAIN state.current
  <1>1. /\ state.current \in Credits /\ state.weights \in Credits
        /\ D \in SUBSET Candidates /\ state.current \in [D -> Int] /\ IsFiniteSet(D)
        /\ DOMAIN state.weights \in SUBSET Candidates /\ state.weights \in [DOMAIN state.weights -> Int]
    BY CreditsFacts DEF Schedules
  <1>2. P \in SUBSET Candidates /\ IsFiniteSet(P) /\ \A c \in P : offer[c] \in Int
    BY OfferFacts
  <1>3. /\ kept \in [P -> Int] /\ old \in [P -> Int]
        /\ merged \in [DOMAIN state.weights \union P -> Int]
    BY <1>1, <1>2 DEF Credit
  <1>4. kept \in Credits /\ old \in Credits /\ merged \in Credits
    BY <1>1, <1>2, <1>3 DEF Credits
  <1>5. Prepared(state, offer) =
          IF Overflows(state, offer) THEN [current |-> kept, weights |-> old]
          ELSE [current |-> IF WeightsChanged(state, offer) THEN <<>> ELSE state.current,
                weights |-> merged]
    BY DEF Prepared
  <1>6. Overflows(state, offer) => ~WeightsChanged(state, offer)
    BY DEF Overflows
  <1>7. /\ SumFunction(kept) = SumFunction(state.current) - Dropped(state, offer)
        /\ Dropped(state, offer) \in Int
    <2>1. DOMAIN kept = P /\ SumFunction(kept) = SumFunctionOnSet(kept, P)
      BY DEF SumFunction
    <2>2. /\ SumFunctionOnSet(kept, P) =
               SumFunctionOnSet(kept, P \intersect D) + SumFunctionOnSet(kept, P \ (P \intersect D))
          /\ SumFunctionOnSet(kept, P \intersect D) \in Int
      BY <1>2, <1>3, SumOfParts
    <2>3. /\ SumFunctionOnSet(state.current, D) =
               SumFunctionOnSet(state.current, P \intersect D)
               + SumFunctionOnSet(state.current, D \ (P \intersect D))
          /\ SumFunctionOnSet(state.current, P \intersect D) \in Int
          /\ SumFunctionOnSet(state.current, D \ (P \intersect D)) \in Int
      BY <1>1, SumOfParts
    <2>4. SumFunctionOnSet(kept, P \intersect D) = SumFunctionOnSet(state.current, P \intersect D)
      <3>1. IsFiniteSet(P \intersect D)
        BY <1>2, FS_Subset
      <3>2. \A c \in P \intersect D : kept[c] = state.current[c]
        BY DEF Credit
      <3> HIDE DEF kept
      <3> QED
        BY <3>1, <3>2, SumsAgree
    <2>5. SumFunctionOnSet(kept, P \ (P \intersect D)) = 0
      <3>1. \A c \in P \ (P \intersect D) : kept[c] = 0
        BY DEF Credit
      <3>2. IsFiniteSet(P \ (P \intersect D))
        BY <1>2, FS_Subset
      <3> HIDE DEF kept, P, D
      <3> QED
        BY <3>1, <3>2, SumOfNothing
    <2>6. Dropped(state, offer) = SumFunctionOnSet(state.current, D \ (P \intersect D))
      <3>1. D \ P = D \ (P \intersect D)
        OBVIOUS
      <3> QED
        BY <3>1 DEF Dropped
    <2>7. SumFunction(state.current) = SumFunctionOnSet(state.current, D)
      BY DEF SumFunction
    <2> HIDE DEF kept, P, D
    <2> QED
      BY <2>1, <2>2, <2>3, <2>4, <2>5, <2>6, <2>7
  <1> HIDE DEF kept, old, merged, P, D
  <1>8. Prepared(state, offer) \in Schedules
    BY <1>1, <1>4, <1>5, NoCredits DEF Schedules
  <1> QED
    BY <1>5, <1>6, <1>7, <1>8, NoCredits

(* The one that is picked was offered, and none that was has a higher credit. *)
LEMMA SelectedIsOffered ==
    ASSUME NEW state \in Schedules, NEW offer \in WeightedOffers, Positive(offer) # {}
    PROVE  /\ Selected(state, offer) \in Positive(offer)
           /\ \A d \in Positive(offer) :
                 Credited(state, offer)[Selected(state, offer)] >= Credited(state, offer)[d]
           /\ Credited(state, offer) \in [DOMAIN state.current \union Positive(offer) -> Int]
           /\ DOMAIN state.current \union Positive(offer) \in SUBSET Candidates
  <1> DEFINE P == Positive(offer)
             credited == Credited(state, offer)
             best == {c \in P : \A d \in P : credited[c] >= credited[d]}
  <1>1. /\ DOMAIN state.current \in SUBSET Candidates
        /\ state.current \in [DOMAIN state.current -> Int]
    BY CreditsFacts DEF Schedules
  <1>2. P \in SUBSET Candidates /\ IsFiniteSet(P) /\ (\A c \in P : offer[c] \in Int) /\ P \in SUBSET Nat
    BY OfferFacts, SchedulerAssumption
  <1>3. credited \in [DOMAIN state.current \union P -> Int]
    BY <1>1, <1>2 DEF Credited, Credit
  <1> HIDE DEF P, credited
  <1>4. PICK c \in P : \A d \in P : credited[c] >= credited[d]
    <2> DEFINE values == {credited[c] : c \in P}
    <2>1. IsFiniteSet(values)
      <3> DEFINE f == [c \in P |-> credited[c]]
      <3>1. f \in Surjection(P, values)
        BY DEF Surjection
      <3> QED
        BY <1>2, <3>1, FS_Surjection
    <2>2. values \subseteq Int /\ values # {}
      BY <1>3 DEF P
    <2> HIDE DEF values
    <2>3. PICK m \in values : \A n \in values : n <= m
      BY <2>1, <2>2, LargestNumber
    <2>4. PICK c \in P : m = credited[c]
      BY DEF values
    <2>5. \A d \in P : credited[d] \in values /\ credited[d] \in Int
      BY <1>3 DEF values
    <2> QED
      BY <2>3, <2>4, <2>5
  <1>5. best \subseteq Nat /\ best # {}
    BY <1>2, <1>4
  <1>6. PICK m \in best : \A n \in best : m <= n
    BY <1>5, LeastNumber
  <1>7. Min(best) \in best
    BY <1>6 DEF Min
  <1>8. Selected(state, offer) = Min(best)
    BY DEF Selected, P, credited
  <1> QED
    BY <1>1, <1>2, <1>3, <1>7, <1>8 DEF P, credited

(* What is offered gains what is picked pays. *)
LEMMA SettledBalance ==
    ASSUME NEW state \in Schedules, NEW offer \in WeightedOffers, Positive(offer) # {}
    PROVE  /\ Settled(state, offer) \in Credits
           /\ SumFunction(Settled(state, offer)) = SumFunction(state.current)
  <1> DEFINE P == Positive(offer)
             D == DOMAIN state.current
             E == D \union P
             credited == Credited(state, offer)
             before == [c \in E |-> Credit(state, c)]
             gained == [c \in E |-> IF c \in P THEN offer[c] ELSE 0]
             total == TotalWeight(offer)
  <1>1. /\ D \in SUBSET Candidates /\ state.current \in [D -> Int] /\ IsFiniteSet(D)
        /\ SumFunction(state.current) = SumFunctionOnSet(state.current, D)
        /\ SumFunction(state.current) \in Int
    BY CreditsFacts DEF Schedules
  <1>2. IsFiniteSet(P) /\ (\A c \in P : offer[c] \in Int) /\ total \in Int
    BY OfferFacts
  <1>3. credited \in [E -> Int] /\ Selected(state, offer) \in E /\ E \in SUBSET Candidates
    BY SelectedIsOffered
  <1>4. IsFiniteSet(E)
    BY <1>3, FS_Subset, SchedulerAssumption
  <1>5. /\ before \in [E -> Int] /\ gained \in [E -> Int]
        /\ \A c \in E : credited[c] = before[c] + gained[c]
    BY <1>1, <1>2 DEF Credited, Credit
  <1>6. /\ \A c \in D : before[c] = state.current[c]
        /\ \A c \in E \ D : before[c] = 0
        /\ \A c \in P : gained[c] = offer[c]
        /\ \A c \in E \ P : gained[c] = 0
    BY DEF Credit
  <1>7. Settled(state, offer) = [credited EXCEPT ![Selected(state, offer)] = @ - total]
    BY DEF Settled
  <1> HIDE DEF credited, before, gained, total, E
  <1>8. SumFunctionOnSet(credited, E) = SumFunctionOnSet(before, E) + SumFunctionOnSet(gained, E)
    <2>1. \A c \in E : before[c] \in Int /\ gained[c] \in Int
      BY <1>5
    <2> QED
      BY <1>4, <1>5, <2>1, SumOfBoth
  <1>9. ASSUME NEW f \in [E -> Int], NEW T \in SUBSET E, NEW g,
               \A c \in T : f[c] = g[c], \A c \in E \ T : f[c] = 0
        PROVE  SumFunctionOnSet(f, E) = SumFunctionOnSet(g, T)
    <2>1. \A c \in E : f[c] \in Int
      OBVIOUS
    <2>2. /\ SumFunctionOnSet(f, E) = SumFunctionOnSet(f, T) + SumFunctionOnSet(f, E \ T)
          /\ SumFunctionOnSet(f, T) \in Int
      BY <1>4, <2>1, SumOfParts
    <2>3. IsFiniteSet(T) /\ IsFiniteSet(E \ T)
      BY <1>4, FS_Subset
    <2>4. SumFunctionOnSet(f, T) = SumFunctionOnSet(g, T)
      BY <1>9, <2>3, SumsAgree
    <2>5. SumFunctionOnSet(f, E \ T) = 0
      BY <1>9, <2>3, SumOfNothing
    <2> QED
      BY <2>2, <2>4, <2>5
  <1>10. D \in SUBSET E /\ P \in SUBSET E
    BY DEF E
  <1>11. SumFunctionOnSet(before, E) = SumFunctionOnSet(state.current, D)
    BY <1>5, <1>6, <1>9, <1>10
  <1>12. SumFunctionOnSet(gained, E) = SumFunctionOnSet(offer, P)
    BY <1>5, <1>6, <1>9, <1>10
  <1>13. total = SumFunctionOnSet(offer, P)
    BY DEF total, TotalWeight
  <1>14. /\ Settled(state, offer) \in [E -> Int]
         /\ SumFunctionOnSet(Settled(state, offer), E) = SumFunctionOnSet(credited, E) - total
    <2> DEFINE x == Selected(state, offer)
               paid == [credited EXCEPT ![x] = @ - total]
    <2>1. x \in E /\ credited \in [E -> Int] /\ total \in Int
      BY <1>2, <1>3
    <2>2. /\ paid \in [E -> Int]
          /\ \A y \in E : credited[y] \in Int /\ paid[y] = IF y = x THEN credited[y] - total ELSE credited[y]
      BY <2>1
    <2>3. Settled(state, offer) = paid
      BY <1>7
    <2> HIDE DEF x, paid, P, D
    <2>4. SumFunctionOnSet(paid, E) = SumFunctionOnSet(credited, E) - total
      BY <1>4, <2>1, <2>2, SumOfPayment
    <2> QED
      BY <2>2, <2>3, <2>4
  <1>15. Settled(state, offer) \in Credits
    BY <1>3, <1>14 DEF Credits
  <1>16. SumFunction(Settled(state, offer)) = SumFunctionOnSet(Settled(state, offer), E)
    BY <1>14 DEF SumFunction
  <1> QED
    BY <1>1, <1>2, <1>8, <1>11, <1>12, <1>13, <1>14, <1>15, <1>16

LEMMA SchedulesFacts ==
    ASSUME SchedulesTyped, NEW s \in Keys
    PROVE  /\ DOMAIN pools[s] \in SUBSET PoolKeys
           /\ \A p \in DOMAIN pools[s] : pools[s][p] \in Schedules
           /\ dropped[s] \in [PoolKeys -> Int]
  BY DEF SchedulesTyped, PoolTables

LEMMA NoPools == <<>> \in PoolTables
  <1>1. <<>> = [x \in {} |-> 0]
    OBVIOUS
  <1>2. <<>> \in [{} -> Schedules] /\ {} \in SUBSET PoolKeys
    BY <1>1
  <1> QED
    BY <1>2 DEF PoolTables

(* Overflow aside, a pool owes what it is owed. *)
LEMMA PickKeepsBalance ==
    ASSUME BalanceInv, NEW s \in Keys, NEW p \in PoolKeys, NEW offer \in WeightedOffers,
           Pick(s, p, offer)
    PROVE  BalanceInv'
  <1> DEFINE kept == IF Flushes(s, p) THEN {} ELSE DOMAIN pools[s]
             was == StateOf(s, p)
             state == Prepared(was, offer)
             settled == [state EXCEPT !.current = Settled(state, offer)]
             lost == IF WeightsChanged(was, offer) THEN 0
                     ELSE IF Overflows(was, offer) THEN dropped[s][p] + Dropped(was, offer)
                     ELSE dropped[s][p]
             schedules == [q \in kept \union {p} |-> IF q = p THEN settled ELSE pools[s][q]]
             losses == [q \in PoolKeys |->
                          IF q # p THEN IF q \in kept THEN dropped[s][q] ELSE 0 ELSE lost]
  <1>1. /\ DOMAIN pools[s] \in SUBSET PoolKeys
        /\ \A q \in DOMAIN pools[s] : pools[s][q] \in Schedules
        /\ dropped[s] \in [PoolKeys -> Int]
    BY SchedulesFacts DEF BalanceInv
  <1>2. was \in Schedules /\ SumFunction(was.current) + dropped[s][p] = 0
    <2>1. CASE p \in DOMAIN pools[s]
      BY <1>1, <2>1 DEF StateOf, BalanceInv, CreditsBalance
    <2>2. CASE p \notin DOMAIN pools[s]
      <3>1. was = NoState /\ dropped[s][p] = 0
        BY <2>2 DEF StateOf, BalanceInv, NewPoolsLostNothing
      <3>2. NoState \in Schedules /\ SumFunction(NoState.current) = 0
        BY NoCredits DEF NoState, Schedules
      <3> QED
        BY <3>1, <3>2
    <2> QED
      BY <2>1, <2>2
  <1>3. Positive(offer) # {}
    <2>1. Cardinality(Positive(offer)) > 1
      BY DEF Pick
    <2> QED
      BY <2>1, FS_EmptySet
  <1>4. pools' = [pools EXCEPT ![s] = schedules]
    BY DEF Pick
  <1>5. dropped' = [dropped EXCEPT ![s] = losses]
    BY DEF Pick
  <1> HIDE DEF was
  <1>6. /\ state \in Schedules
        /\ SumFunction(state.current) =
             IF WeightsChanged(was, offer) THEN 0
             ELSE IF Overflows(was, offer) THEN SumFunction(was.current) - Dropped(was, offer)
             ELSE SumFunction(was.current)
        /\ Overflows(was, offer) => Dropped(was, offer) \in Int
    BY <1>2, PreparedBalance
  <1>7. SumFunction(was.current) \in Int /\ dropped[s][p] \in Int
    BY <1>1, <1>2, CreditsFacts DEF Schedules
  <1>8. lost \in Int /\ SumFunction(state.current) + lost = 0
    <2>1. CASE WeightsChanged(was, offer)
      BY <1>6, <2>1
    <2>2. CASE ~WeightsChanged(was, offer) /\ Overflows(was, offer)
      BY <1>2, <1>6, <1>7, <2>2
    <2>3. CASE ~WeightsChanged(was, offer) /\ ~Overflows(was, offer)
      BY <1>2, <1>6, <1>7, <2>3
    <2> QED
      BY <2>1, <2>2, <2>3
  <1> HIDE DEF state, lost
  <1>9. settled \in Schedules /\ SumFunction(settled.current) + lost = 0
    <2>1. Settled(state, offer) \in Credits /\ SumFunction(Settled(state, offer)) = SumFunction(state.current)
      BY <1>3, <1>6, SettledBalance
    <2>2. settled \in Schedules /\ settled.current = Settled(state, offer)
      BY <1>6, <2>1 DEF Schedules
    <2> QED
      BY <1>8, <2>1, <2>2
  <1> HIDE DEF settled
  <1>10. /\ kept \in SUBSET DOMAIN pools[s]
         /\ kept \union {p} \in SUBSET PoolKeys
    BY <1>1
  <1> HIDE DEF kept
  <1>11. schedules \in [kept \union {p} -> Schedules]
    BY <1>1, <1>9, <1>10
  <1>12. losses \in [PoolKeys -> Int]
    BY <1>1, <1>8
  <1>13. \A q \in kept \union {p} : SumFunction(schedules[q].current) + losses[q] = 0
    <2> SUFFICES ASSUME NEW q \in kept \union {p} PROVE SumFunction(schedules[q].current) + losses[q] = 0
      OBVIOUS
    <2>1. CASE q = p
      BY <1>9, <2>1
    <2>2. CASE q # p
      BY <1>10, <2>2 DEF BalanceInv, CreditsBalance
    <2> QED
      BY <2>1, <2>2
  <1>14. \A q \in PoolKeys \ (kept \union {p}) : losses[q] = 0
    OBVIOUS
  <1> HIDE DEF schedules, losses
  <1>15. /\ pools'[s] = schedules /\ dropped'[s] = losses
         /\ \A r \in Keys \ {s} : pools'[r] = pools[r] /\ dropped'[r] = dropped[r]
         /\ DOMAIN schedules = kept \union {p}
    BY <1>4, <1>5, <1>11 DEF BalanceInv, SchedulesTyped
  <1>16. SchedulesTyped'
    <2>1. schedules \in PoolTables
      BY <1>10, <1>11 DEF PoolTables
    <2> QED
      BY <1>4, <1>5, <1>12, <2>1 DEF BalanceInv, SchedulesTyped
  <1>17. NewPoolsLostNothing' /\ CreditsBalance'
    BY <1>13, <1>14, <1>15 DEF BalanceInv, NewPoolsLostNothing, CreditsBalance
  <1> QED
    BY <1>16, <1>17 DEF BalanceInv

LEMMA PruneKeepsBalance ==
    ASSUME BalanceInv, NEW scopes \in SUBSET Keys, Prune(scopes)
    PROVE  BalanceInv'
  <1>1. \A s \in Keys : /\ s \in scopes => pools'[s] = pools[s] /\ dropped'[s] = dropped[s]
                        /\ s \notin scopes => pools'[s] = <<>> /\ dropped'[s] = [p \in PoolKeys |-> 0]
    BY DEF Prune
  <1>2. SchedulesTyped'
    <2>2. /\ pools' = [s \in Keys |-> IF s \in scopes THEN pools[s] ELSE <<>>]
          /\ dropped' = [s \in Keys |-> IF s \in scopes THEN dropped[s] ELSE [p \in PoolKeys |-> 0]]
      BY DEF Prune
    <2> QED
      BY <2>2, NoPools DEF BalanceInv, SchedulesTyped
  <1>3. NewPoolsLostNothing' /\ CreditsBalance'
    BY <1>1, NoCredits DEF BalanceInv, NewPoolsLostNothing, CreditsBalance
  <1> QED
    BY <1>2, <1>3 DEF BalanceInv

LEMMA BalanceStarts == ASSUME SchedulerInit PROVE BalanceInv
  <1>1. \A s \in Keys : DOMAIN pools[s] = {} /\ \A p \in PoolKeys : dropped[s][p] = 0
    BY NoCredits DEF SchedulerInit
  <1>2. SchedulesTyped
    BY NoPools DEF SchedulerInit, SchedulesTyped
  <1> QED
    BY <1>1, <1>2 DEF BalanceInv, NewPoolsLostNothing, CreditsBalance

(* The credits of a pool cancel out, whichever subsets are offered and       *)
(* whatever weights change: credits are lost only when the pool holds more   *)
(* than maxCredentialsPerPool credentials, and then those that were not      *)
(* offered (scheduler.go, pick).                                             *)
THEOREM CreditsAlwaysBalance == SchedulerSpec => []CreditsBalance
  <1>1. SchedulerInit => BalanceInv
    BY BalanceStarts
  <1>2. BalanceInv /\ [SchedulerNext]_schedulerVars => BalanceInv'
    <2> SUFFICES ASSUME BalanceInv, [SchedulerNext]_schedulerVars PROVE BalanceInv'
      OBVIOUS
    <2>1. CASE UNCHANGED <<pools, dropped>>
      BY <2>1 DEF BalanceInv, SchedulesTyped, NewPoolsLostNothing, CreditsBalance
    <2>2. CASE SchedulerNext
      BY <2>1, <2>2, PickKeepsBalance, PruneKeepsBalance DEF SchedulerNext, PickDirectly
    <2> QED
      BY <2>1, <2>2 DEF schedulerVars
  <1>3. BalanceInv => CreditsBalance
    BY DEF BalanceInv
  <1> QED
    BY <1>1, <1>2, <1>3, PTL DEF SchedulerSpec

-----------------------------------------------------------------------------
(* How far the credits of a pool can drift apart *)

(* A bound on what any k credentials may be owed together, or may owe, when *)
(* an offer brings at most w credits: it is concave in k, and it grows      *)
(* until k is the number of all candidates.                                 *)
Reach(k, n, w) == w * (k * (2*n - k))

Spread(owed, w) ==
    \A S \in SUBSET Candidates :
       /\ 2 * SumFunctionOnSet(owed, S) <= Reach(Cardinality(S), Cardinality(Candidates), w)
       /\ -2 * SumFunctionOnSet(owed, S) <= Reach(Cardinality(S), Cardinality(Candidates), w)

LEMMA ProductOfNats == ASSUME NEW a \in Nat, NEW b \in Nat PROVE a * b \in Nat
  OBVIOUS

LEMMA ReachGrows ==
    ASSUME NEW j \in Nat, NEW k \in Nat, NEW n \in Nat, NEW w \in Nat, j <= k, k <= n
    PROVE  /\ Reach(j, n, w) \in Nat /\ Reach(k, n, w) \in Nat
           /\ Reach(j, n, w) <= Reach(k, n, w)
  <1>1. k * (2*n - k) - j * (2*n - j) = (k - j) * (2*n - k - j)
    OBVIOUS
  <1>2. j * (2*n - j) \in Nat /\ k * (2*n - k) \in Nat /\ (k - j) * (2*n - k - j) \in Nat
    <2>1. 2*n - j \in Nat /\ 2*n - k \in Nat /\ k - j \in Nat /\ 2*n - k - j \in Nat
      OBVIOUS
    <2> QED
      BY <2>1, ProductOfNats
  <1> DEFINE a == j * (2*n - j)
             b == k * (2*n - k)
             d == (k - j) * (2*n - k - j)
  <1>3. a \in Nat /\ b \in Nat /\ d \in Nat /\ b = a + d
    BY <1>1, <1>2
  <1>4. Reach(j, n, w) = w * a /\ Reach(k, n, w) = w * b
    BY DEF Reach
  <1> HIDE DEF a, b, d
  <1>5. w * a \in Nat /\ w * b \in Nat /\ w * d \in Nat
    BY <1>3, ProductOfNats
  <1>6. w * b = w * a + w * d
    BY <1>3
  <1> QED
    BY <1>4, <1>5, <1>6

(* The chord below the bound: between j and k lies what m credentials that *)
(* stand at most as high as one more can gain. *)
LEMMA ReachBends ==
    ASSUME NEW k \in Int, NEW m \in Int, NEW n \in Int, NEW w \in Int
    PROVE  /\ Reach(k - m, n, w) + m * Reach(k + 1, n, w) = (m + 1) * Reach(k, n, w) - w * (m * (m + 1))
           /\ m * Reach(k - 1, n, w) + Reach(k + m, n, w) = (m + 1) * Reach(k, n, w) - w * (m * (m + 1))
  <1>1. (k - m) * (2*n - (k - m)) + m * ((k + 1) * (2*n - (k + 1)))
            = (m + 1) * (k * (2*n - k)) - m * (m + 1)
    OBVIOUS
  <1>2. m * ((k - 1) * (2*n - (k - 1))) + (k + m) * (2*n - (k + m))
            = (m + 1) * (k * (2*n - k)) - m * (m + 1)
    OBVIOUS
  <1>3. \A a, b, c, d \in Int : a + m * b = (m + 1) * c - d => w * a + m * (w * b) = (m + 1) * (w * c) - w * d
    <2> SUFFICES ASSUME NEW a \in Int, NEW b \in Int, NEW c \in Int, NEW d \in Int, a + m * b = (m + 1) * c - d
                 PROVE  w * a + m * (w * b) = (m + 1) * (w * c) - w * d
      OBVIOUS
    <2>1. w * (a + m * b) = w * ((m + 1) * c - d)
      OBVIOUS
    <2>2. w * (a + m * b) = w * a + m * (w * b)
      OBVIOUS
    <2>3. w * ((m + 1) * c - d) = (m + 1) * (w * c) - w * d
      OBVIOUS
    <2> QED
      BY <2>1, <2>2, <2>3
  <1>4. \A a, b, c, d \in Int : m * b + a = (m + 1) * c - d => m * (w * b) + w * a = (m + 1) * (w * c) - w * d
    <2> SUFFICES ASSUME NEW a \in Int, NEW b \in Int, NEW c \in Int, NEW d \in Int, m * b + a = (m + 1) * c - d
                 PROVE  m * (w * b) + w * a = (m + 1) * (w * c) - w * d
      OBVIOUS
    <2>1. a + m * b = (m + 1) * c - d
      OBVIOUS
    <2>2. w * a + m * (w * b) = (m + 1) * (w * c) - w * d
      BY <1>3, <2>1
    <2> QED
      BY <2>2
  <1> DEFINE f(i) == i * (2*n - i)
  <1>5. \A i \in Int : f(i) \in Int /\ Reach(i, n, w) = w * f(i)
    BY DEF Reach
  <1>6. f(k - m) + m * f(k + 1) = (m + 1) * f(k) - m * (m + 1)
        /\ m * f(k - 1) + f(k + m) = (m + 1) * f(k) - m * (m + 1)
    BY <1>1, <1>2
  <1>7. k - m \in Int /\ k + 1 \in Int /\ k - 1 \in Int /\ k + m \in Int /\ m * (m + 1) \in Int
    OBVIOUS
  <1> HIDE DEF f
  <1>8. w * f(k - m) + m * (w * f(k + 1)) = (m + 1) * (w * f(k)) - w * (m * (m + 1))
    <2>1. PICK a, b, c, d \in Int : a = f(k - m) /\ b = f(k + 1) /\ c = f(k) /\ d = m * (m + 1)
      BY <1>5, <1>7
    <2>2. a + m * b = (m + 1) * c - d
      BY <1>6, <2>1
    <2>3. w * a + m * (w * b) = (m + 1) * (w * c) - w * d
      BY <1>3, <2>2
    <2> QED
      BY <2>1, <2>3
  <1>9. m * (w * f(k - 1)) + w * f(k + m) = (m + 1) * (w * f(k)) - w * (m * (m + 1))
    <2>1. PICK a, b, c, d \in Int : a = f(k + m) /\ b = f(k - 1) /\ c = f(k) /\ d = m * (m + 1)
      BY <1>5, <1>7
    <2>2. m * b + a = (m + 1) * c - d
      BY <1>6, <2>1
    <2>3. m * (w * b) + w * a = (m + 1) * (w * c) - w * d
      BY <1>4, <2>2
    <2> QED
      BY <2>1, <2>3
  <1> QED
    BY <1>5, <1>7, <1>8, <1>9

(* m credentials leave room for what an offer brings. *)
LEMMA RoomBelow ==
    ASSUME NEW z \in Int, NEW r \in Int, NEW w \in Nat, NEW t \in Nat, NEW m \in Nat, m >= 1, t <= w,
           (m + 1) * (2 * z) <= (m + 1) * r - w * (m * (m + 1)) + 2 * (m * t)
    PROVE  2 * z <= r
  <1>1. w - t \in Nat /\ m * (m + 1) \in Nat
    OBVIOUS
  <1>2. (w - t) * (m * (m + 1)) \in Nat
    BY <1>1, ProductOfNats
  <1>3. w * (m * (m + 1)) = (w - t) * (m * (m + 1)) + t * (m * (m + 1))
    OBVIOUS
  <1>4. t * (m * (m + 1)) - 2 * (m * t) = (t * m) * (m - 1)
    OBVIOUS
  <1>5. (t * m) * (m - 1) \in Nat
    <2>1. t * m \in Nat /\ m - 1 \in Nat
      BY ProductOfNats
    <2> QED
      BY <2>1, ProductOfNats
  <1>6. (m + 1) * (2 * z) <= (m + 1) * r
    <2> DEFINE a == (m + 1) * (2 * z)
               b == (m + 1) * r
               c == w * (m * (m + 1))
               d == (w - t) * (m * (m + 1))
               e == t * (m * (m + 1))
               g == m * t
               h == (t * m) * (m - 1)
    <2>1. a \in Int /\ b \in Int /\ c \in Int /\ e \in Int /\ g \in Int
      OBVIOUS
    <2>2. d \in Nat /\ h \in Nat /\ c = d + e /\ e - 2 * g = h /\ a <= b - c + 2 * g
      BY <1>2, <1>3, <1>4, <1>5
    <2>3. a <= b
      <3> HIDE DEF a, b, c, d, e, g, h
      <3> QED
        BY <2>1, <2>2
    <2> QED
      BY <2>3
  <1>7. ASSUME 2 * z > r PROVE FALSE
    <2>1. 2 * z - r - 1 \in Nat /\ m + 1 \in Nat
      BY <1>7
    <2>2. (m + 1) * (2 * z - r - 1) \in Nat
      BY <2>1, ProductOfNats
    <2>3. (m + 1) * (2 * z - r - 1) = (m + 1) * (2 * z) - (m + 1) * r - (m + 1)
      OBVIOUS
    <2> DEFINE a == (m + 1) * (2 * z)
               b == (m + 1) * r
    <2>4. a \in Int /\ b \in Int /\ a <= b /\ a - b - (m + 1) \in Nat
      BY <1>6, <2>2, <2>3
    <2> HIDE DEF a, b
    <2> QED
      BY <2>4
  <1> QED
    BY <1>7

LEMMA SumAtMost ==
    ASSUME NEW S, IsFiniteSet(S), NEW f, NEW b \in Int, \A x \in S : f[x] \in Int /\ f[x] <= b
    PROVE  SumFunctionOnSet(f, S) <= Cardinality(S) * b
  <1> DEFINE F == {T \in SUBSET S : SumFunctionOnSet(f, T) <= Cardinality(T) * b}
  <1>1. ASSUME NEW T \in SUBSET S, \A U \in SUBSET T : U # T => U \in F PROVE T \in F
    <2>1. CASE T = {}
      BY <2>1, SumEmpty, FS_EmptySet
    <2>2. CASE T # {}
      <3>1. PICK x \in T : TRUE
        BY <2>2
      <3>2. SumFunctionOnSet(f, T \ {x}) <= Cardinality(T \ {x}) * b
        BY <1>1
      <3>3. /\ IsFiniteSet(T) /\ IsFiniteSet(T \ {x})
            /\ Cardinality(T) \in Nat /\ Cardinality(T \ {x}) = Cardinality(T) - 1
        BY FS_Subset, FS_RemoveElement, FS_CardinalityType
      <3>4. /\ SumFunctionOnSet(f, T) = f[x] + SumFunctionOnSet(f, T \ {x})
            /\ SumFunctionOnSet(f, T \ {x}) \in Int
            /\ f[x] \in Int /\ f[x] <= b
        BY <3>3, SumTakesOut
      <3> \A n \in Nat : (n - 1) * b = n * b - b /\ n * b \in Int
        OBVIOUS
      <3>5. (Cardinality(T) - 1) * b = Cardinality(T) * b - b /\ Cardinality(T) * b \in Int
        BY <3>3
      <3>6. SumFunctionOnSet(f, T) <= Cardinality(T) * b
        BY <3>2, <3>3, <3>4, <3>5
      <3> QED
        BY <3>6
    <2> QED
      BY <2>1, <2>2
  <1> HIDE DEF F
  <1>2. S \in F
    BY <1>1, SubsetInduction
  <1> QED
    BY <1>2 DEF F

(* Credits that are forgotten, all or some, bring no credentials further apart. *)
LEMMA ForgettingKeepsSpread ==
    ASSUME NEW x \in [Candidates -> Int], NEW w \in Nat, Spread(x, w), NEW P \in SUBSET Candidates,
           NEW y \in [Candidates -> Int],
           \A c \in Candidates : y[c] = IF c \in P THEN x[c] ELSE 0
    PROVE  Spread(y, w)
  <1> SUFFICES ASSUME NEW S \in SUBSET Candidates
               PROVE  LET r == Reach(Cardinality(S), Cardinality(Candidates), w)
                      IN 2 * SumFunctionOnSet(y, S) <= r /\ -2 * SumFunctionOnSet(y, S) <= r
    BY DEF Spread
  <1>1. /\ IsFiniteSet(Candidates) /\ IsFiniteSet(S) /\ IsFiniteSet(S \intersect P)
        /\ IsFiniteSet(S \ (S \intersect P))
    BY FS_Subset, SchedulerAssumption
  <1>2. /\ Cardinality(S \intersect P) \in Nat /\ Cardinality(S) \in Nat /\ Cardinality(Candidates) \in Nat
        /\ Cardinality(S \intersect P) <= Cardinality(S) /\ Cardinality(S) <= Cardinality(Candidates)
    BY <1>1, FS_Subset, FS_CardinalityType
  <1>3. SumFunctionOnSet(y, S) =
            SumFunctionOnSet(y, S \intersect P) + SumFunctionOnSet(y, S \ (S \intersect P))
    BY <1>1, SumOfParts
  <1>4. SumFunctionOnSet(y, S \intersect P) = SumFunctionOnSet(x, S \intersect P)
    BY <1>1, SumsAgree
  <1>5. SumFunctionOnSet(y, S \ (S \intersect P)) = 0
    BY <1>1, SumOfNothing
  <1>6. SumFunctionOnSet(x, S \intersect P) \in Int
    BY <1>1, SumTakesOut
  <1>7. /\ 2 * SumFunctionOnSet(x, S \intersect P)
              <= Reach(Cardinality(S \intersect P), Cardinality(Candidates), w)
        /\ -2 * SumFunctionOnSet(x, S \intersect P)
              <= Reach(Cardinality(S \intersect P), Cardinality(Candidates), w)
    BY DEF Spread
  <1>8. /\ Reach(Cardinality(S \intersect P), Cardinality(Candidates), w)
              <= Reach(Cardinality(S), Cardinality(Candidates), w)
        /\ Reach(Cardinality(S \intersect P), Cardinality(Candidates), w) \in Nat
        /\ Reach(Cardinality(S), Cardinality(Candidates), w) \in Nat
    BY <1>2, ReachGrows
  <1> QED
    BY <1>3, <1>4, <1>5, <1>6, <1>7, <1>8

LEMMA NoneSpread ==
    ASSUME NEW x \in [Candidates -> Int], NEW w \in Nat, \A c \in Candidates : x[c] = 0
    PROVE  Spread(x, w)
  <1> SUFFICES ASSUME NEW S \in SUBSET Candidates
               PROVE  LET r == Reach(Cardinality(S), Cardinality(Candidates), w)
                      IN 2 * SumFunctionOnSet(x, S) <= r /\ -2 * SumFunctionOnSet(x, S) <= r
    BY DEF Spread
  <1>1. IsFiniteSet(Candidates) /\ IsFiniteSet(S)
    BY FS_Subset, SchedulerAssumption
  <1>2. /\ Cardinality(S) \in Nat /\ Cardinality(Candidates) \in Nat
        /\ Cardinality(S) <= Cardinality(Candidates)
    BY <1>1, FS_Subset, FS_CardinalityType
  <1>3. SumFunctionOnSet(x, S) = 0
    BY <1>1, SumOfNothing
  <1>4. Reach(Cardinality(S), Cardinality(Candidates), w) \in Nat
    <2>1. \A k \in Nat : k <= k
      OBVIOUS
    <2> QED
      BY <1>2, <2>1, ReachGrows
  <1> QED
    BY <1>3, <1>4

(* What an offer brings to a set of credentials. *)
LEMMA GainsOfSet ==
    ASSUME NEW P \in SUBSET Candidates, NEW gain \in [Candidates -> Nat],
           \A c \in Candidates \ P : gain[c] = 0, NEW S \in SUBSET Candidates
    PROVE  /\ SumFunctionOnSet(gain, P) \in Nat
           /\ SumFunctionOnSet(gain, S) \in Nat
           /\ SumFunctionOnSet(gain, S) <= SumFunctionOnSet(gain, P)
           /\ P \subseteq S => SumFunctionOnSet(gain, S) = SumFunctionOnSet(gain, P)
           /\ P \intersect S = {} => SumFunctionOnSet(gain, S) = 0
  <1> DEFINE both == S \intersect P
  <1>1. IsFiniteSet(P) /\ IsFiniteSet(S) /\ IsFiniteSet(both) /\ IsFiniteSet(S \ both)
    BY FS_Subset, SchedulerAssumption
  <1>2. /\ \A c \in P : gain[c] \in Nat
        /\ \A c \in S : gain[c] \in Nat /\ gain[c] \in Int
        /\ \A c \in S \ both : gain[c] = 0
        /\ both \in SUBSET S /\ both \in SUBSET P
    OBVIOUS
  <1>3. P \subseteq S => both = P
    OBVIOUS
  <1>4. P \intersect S = {} => both = {}
    OBVIOUS
  <1> HIDE DEF both
  <1>5. SumFunctionOnSet(gain, S) = SumFunctionOnSet(gain, both) + SumFunctionOnSet(gain, S \ both)
    BY <1>1, <1>2, SumOfParts
  <1>6. SumFunctionOnSet(gain, S \ both) = 0
    BY <1>1, <1>2, SumOfNothing
  <1>7. /\ SumFunctionOnSet(gain, both) \in Nat
        /\ SumFunctionOnSet(gain, both) <= SumFunctionOnSet(gain, P)
    BY <1>1, <1>2, SumMonotonic
  <1>8. SumFunctionOnSet(gain, P) \in Nat
    BY <1>1, <1>2, SumMonotonic
  <1>9. SumFunctionOnSet(gain, S) = SumFunctionOnSet(gain, both)
    BY <1>5, <1>6, <1>7
  <1> QED
    BY <1>3, <1>4, <1>7, <1>8, <1>9, SumEmpty

LEMMA ReachIsNumber ==
    ASSUME NEW k \in Int, NEW n \in Int, NEW w \in Int PROVE Reach(k, n, w) \in Int
  BY DEF Reach

(* The two estimates below in numbers: a set of credentials is split into  *)
(* those that were offered (v) and the rest (a); h is the highest credit.  *)
LEMMA SumOfOthers ==
    ASSUME NEW m \in Nat, NEW t \in Nat, NEW a \in Int, NEW b \in Int, NEW s \in Int, NEW v \in Int,
           NEW h \in Int, NEW f \in Int, NEW g \in Int, NEW q \in Int,
           2 * a <= f, 2 * b <= g + 2 * t, b = h + s, s = v + a, v <= m * h, f + m * g = q
    PROVE  (m + 1) * (2 * s) <= q + 2 * (m * t)
  <1>1. m * (g + 2 * t - 2 * b) \in Nat
    <2>1. g + 2 * t - 2 * b \in Nat
      OBVIOUS
    <2> QED
      BY <2>1, ProductOfNats
  <1>2. m * (g + 2 * t - 2 * b) = m * g + 2 * (m * t) - 2 * (m * b)
    OBVIOUS
  <1>3. m * b = m * h + m * s
    OBVIOUS
  <1>4. (m + 1) * (2 * s) = 2 * (m * s) + 2 * s
    OBVIOUS
  <1>5. m * g \in Int /\ m * t \in Int /\ m * b \in Int /\ m * h \in Int /\ m * s \in Int
    OBVIOUS
  <1> QED
    BY <1>1, <1>2, <1>3, <1>4, <1>5

LEMMA SumOfWinners ==
    ASSUME NEW m \in Nat, NEW t \in Nat, NEW a \in Int, NEW b \in Int, NEW s \in Int, NEW v \in Int,
           NEW h \in Int, NEW f \in Int, NEW g \in Int, NEW q \in Int,
           -2 * a <= f, -2 * b <= g - 2 * t, b = s + v, s = h + a, v <= m * h, m * f + g = q
    PROVE  (m + 1) * (2 * (t - s)) <= q + 2 * (m * t)
  <1>1. m * (f + 2 * a) \in Nat
    <2>1. f + 2 * a \in Nat
      OBVIOUS
    <2> QED
      BY <2>1, ProductOfNats
  <1>2. m * (f + 2 * a) = m * f + 2 * (m * a)
    OBVIOUS
  <1>3. m * s = m * h + m * a
    OBVIOUS
  <1>4. (m + 1) * (2 * (t - s)) = 2 * (m * t) + 2 * t - 2 * (m * s) - 2 * s
    OBVIOUS
  <1>5. m * f \in Int /\ m * t \in Int /\ m * a \in Int /\ m * h \in Int /\ m * s \in Int
    OBVIOUS
  <1> QED
    BY <1>1, <1>2, <1>3, <1>4, <1>5

(* An offer as the scheduler settles it: what each credential had before, *)
(* what the offer brought it, and the one whose credit became the highest. *)
WinsOffer(x, gain, y, P, p, w) ==
    /\ x \in [Candidates -> Int] /\ y \in [Candidates -> Int] /\ gain \in [Candidates -> Nat]
    /\ \A c \in Candidates : y[c] = x[c] + gain[c]
    /\ P \in SUBSET Candidates /\ \A c \in Candidates \ P : gain[c] = 0
    /\ p \in P /\ \A c \in P : y[c] <= y[p]
    /\ w \in Nat /\ SumFunctionOnSet(gain, P) <= w
    /\ Spread(x, w)

LEMMA OfferedSums ==
    ASSUME NEW x, NEW gain, NEW y, NEW P, NEW p, NEW w, WinsOffer(x, gain, y, P, p, w),
           NEW S \in SUBSET Candidates
    PROVE  /\ IsFiniteSet(S) /\ Cardinality(S) \in Nat /\ Cardinality(Candidates) \in Nat
           /\ Cardinality(S) <= Cardinality(Candidates)
           /\ SumFunctionOnSet(x, S) \in Int
           /\ SumFunctionOnSet(y, S) = SumFunctionOnSet(x, S) + SumFunctionOnSet(gain, S)
           /\ SumFunctionOnSet(gain, P) \in Nat /\ SumFunctionOnSet(gain, S) \in Nat
           /\ SumFunctionOnSet(gain, S) <= SumFunctionOnSet(gain, P)
           /\ P \subseteq S => SumFunctionOnSet(gain, S) = SumFunctionOnSet(gain, P)
           /\ P \intersect S = {} => SumFunctionOnSet(gain, S) = 0
           /\ 2 * SumFunctionOnSet(x, S) <= Reach(Cardinality(S), Cardinality(Candidates), w)
           /\ -2 * SumFunctionOnSet(x, S) <= Reach(Cardinality(S), Cardinality(Candidates), w)
           /\ Reach(Cardinality(S), Cardinality(Candidates), w) \in Nat
  <1>1. /\ IsFiniteSet(Candidates) /\ IsFiniteSet(S)
        /\ \A c \in S : x[c] \in Int /\ gain[c] \in Int /\ y[c] \in Int /\ y[c] = x[c] + gain[c]
    <2>1. IsFiniteSet(Candidates) /\ IsFiniteSet(S)
      BY FS_Subset, SchedulerAssumption
    <2>2. \A c \in S : x[c] \in Int /\ gain[c] \in Int /\ y[c] \in Int /\ y[c] = x[c] + gain[c]
      BY DEF WinsOffer
    <2> QED
      BY <2>1, <2>2
  <1>2. /\ Cardinality(S) \in Nat /\ Cardinality(Candidates) \in Nat
        /\ Cardinality(S) <= Cardinality(Candidates) /\ Cardinality(S) <= Cardinality(S)
    BY <1>1, FS_Subset, FS_CardinalityType
  <1>3. Reach(Cardinality(S), Cardinality(Candidates), w) \in Nat
    BY <1>2, ReachGrows DEF WinsOffer
  <1>4. SumFunctionOnSet(x, S) \in Int
    BY <1>1, SumTakesOut
  <1>5. SumFunctionOnSet(y, S) = SumFunctionOnSet(x, S) + SumFunctionOnSet(gain, S)
    BY <1>1, SumOfBoth
  <1>6. /\ 2 * SumFunctionOnSet(x, S) <= Reach(Cardinality(S), Cardinality(Candidates), w)
        /\ -2 * SumFunctionOnSet(x, S) <= Reach(Cardinality(S), Cardinality(Candidates), w)
    BY DEF WinsOffer, Spread
  <1>7. /\ P \in SUBSET Candidates /\ gain \in [Candidates -> Nat]
        /\ \A c \in Candidates \ P : gain[c] = 0
    BY DEF WinsOffer
  <1>8. /\ SumFunctionOnSet(gain, P) \in Nat /\ SumFunctionOnSet(gain, S) \in Nat
        /\ SumFunctionOnSet(gain, S) <= SumFunctionOnSet(gain, P)
        /\ P \subseteq S => SumFunctionOnSet(gain, S) = SumFunctionOnSet(gain, P)
        /\ P \intersect S = {} => SumFunctionOnSet(gain, S) = 0
    BY <1>7, GainsOfSet
  <1> QED
    BY <1>1, <1>2, <1>3, <1>4, <1>5, <1>6, <1>8

(* Credentials that the winner of an offer is not among: those of them that *)
(* were offered stand no higher than it does.                               *)
LEMMA OthersStayBelow ==
    ASSUME NEW x, NEW gain, NEW y, NEW P, NEW p, NEW w, WinsOffer(x, gain, y, P, p, w),
           NEW S \in SUBSET Candidates, p \notin S
    PROVE  2 * SumFunctionOnSet(y, S) <= Reach(Cardinality(S), Cardinality(Candidates), w)
  <1> DEFINE M == S \intersect P
             A == S \ M
             B == S \union {p}
             n == Cardinality(Candidates)
             k == Cardinality(S)
             m == Cardinality(M)
             t == SumFunctionOnSet(gain, P)
  <1>1. /\ M \in SUBSET Candidates /\ A \in SUBSET Candidates /\ B \in SUBSET Candidates
        /\ M \in SUBSET S /\ p \in Candidates
    BY DEF WinsOffer
  <1>2. /\ IsFiniteSet(S) /\ IsFiniteSet(M) /\ k \in Nat /\ m \in Nat /\ n \in Nat
    BY <1>1, OfferedSums
  <1>3. /\ w \in Nat /\ t \in Nat /\ t <= w
        /\ SumFunctionOnSet(y, S) \in Int /\ SumFunctionOnSet(x, S) \in Int
    BY OfferedSums DEF WinsOffer
  <1>4. CASE M = {}
    <2>1. P \intersect S = {}
      BY <1>4
    <2>2. SumFunctionOnSet(gain, S) = 0
      BY <2>1, OfferedSums
    <2> QED
      BY <1>3, <2>2, OfferedSums
  <1>5. CASE M # {}
    <2>1. m # 0
      BY <1>2, <1>5, FS_EmptySet
    <2>2. Cardinality(A) = k - m /\ Cardinality(B) = k + 1
      <3>1. Cardinality(A) = k - Cardinality(S \intersect M)
        BY <1>2, FS_Difference
      <3>2. S \intersect M = M
        OBVIOUS
      <3>3. Cardinality(B) = k + 1
        BY <1>2, FS_AddElement
      <3> HIDE DEF M, A, B
      <3> QED
        BY <3>1, <3>2, <3>3
    <2>3. /\ SumFunctionOnSet(y, A) \in Int
          /\ 2 * SumFunctionOnSet(y, A) <= Reach(k - m, n, w)
      <3>1. P \intersect A = {}
        OBVIOUS
      <3> HIDE DEF A, m, k, n
      <3>2. SumFunctionOnSet(gain, A) = 0
        BY <1>1, <3>1, OfferedSums
      <3>3. /\ SumFunctionOnSet(y, A) = SumFunctionOnSet(x, A) + SumFunctionOnSet(gain, A)
            /\ SumFunctionOnSet(x, A) \in Int
            /\ 2 * SumFunctionOnSet(x, A) <= Reach(k - m, n, w)
        BY <1>1, <2>2, OfferedSums DEF n
      <3> QED
        BY <3>2, <3>3
    <2>4. /\ SumFunctionOnSet(y, B) \in Int
          /\ 2 * SumFunctionOnSet(y, B) <= Reach(k + 1, n, w) + 2 * t
          /\ Reach(k + 1, n, w) \in Nat
      <3> HIDE DEF B, k, n, t
      <3>1. /\ SumFunctionOnSet(y, B) = SumFunctionOnSet(x, B) + SumFunctionOnSet(gain, B)
            /\ SumFunctionOnSet(x, B) \in Int
            /\ 2 * SumFunctionOnSet(x, B) <= Reach(k + 1, n, w)
            /\ Reach(k + 1, n, w) \in Nat
            /\ SumFunctionOnSet(gain, B) \in Nat
            /\ SumFunctionOnSet(gain, B) <= t
        BY <1>1, <2>2, OfferedSums DEF n, t
      <3> QED
        BY <1>3, <3>1
    <2>5. y[p] \in Int /\ SumFunctionOnSet(y, B) = y[p] + SumFunctionOnSet(y, S)
      <3>1. \A c \in S \union {p} : y[c] \in Int
        BY <1>1 DEF WinsOffer
      <3> QED
        BY <1>2, <3>1, SumAdds
    <2>6. /\ SumFunctionOnSet(y, S) = SumFunctionOnSet(y, M) + SumFunctionOnSet(y, A)
          /\ SumFunctionOnSet(y, M) \in Int
      <3>1. \A c \in S : y[c] \in Int
        BY DEF WinsOffer
      <3> QED
        BY <1>1, <1>2, <3>1, SumOfParts
    <2>7. SumFunctionOnSet(y, M) <= m * y[p]
      <3>1. \A c \in M : y[c] \in Int /\ y[c] <= y[p]
        BY DEF WinsOffer
      <3> HIDE DEF M
      <3> QED
        BY <1>2, <2>5, <3>1, SumAtMost
    <2> HIDE DEF M, A, B, n, k, m, t
    <2>8. PICK a, b, s, v, h \in Int :
             /\ a = SumFunctionOnSet(y, A) /\ b = SumFunctionOnSet(y, B)
             /\ s = SumFunctionOnSet(y, S) /\ v = SumFunctionOnSet(y, M) /\ h = y[p]
      BY <1>3, <2>3, <2>4, <2>5, <2>6
    <2>9. PICK f, g, r \in Int : f = Reach(k - m, n, w) /\ g = Reach(k + 1, n, w) /\ r = Reach(k, n, w)
      <3>1. k - m \in Int /\ k + 1 \in Int /\ k \in Int /\ n \in Int /\ w \in Int
        BY <1>2, <1>3
      <3>2. Reach(k - m, n, w) \in Int /\ Reach(k + 1, n, w) \in Int /\ Reach(k, n, w) \in Int
        BY <3>1, ReachIsNumber
      <3> QED
        BY <3>2
    <2>10. /\ f + m * g = (m + 1) * r - w * (m * (m + 1))
           /\ 2 * a <= f /\ 2 * b <= g + 2 * t /\ b = h + s /\ s = v + a /\ v <= m * h
      <3>1. k \in Int /\ m \in Int /\ n \in Int /\ w \in Int
        BY <1>2, <1>3
      <3>2. f + m * g = (m + 1) * r - w * (m * (m + 1))
        BY <2>9, <3>1, ReachBends
      <3> QED
        BY <2>3, <2>4, <2>5, <2>6, <2>7, <2>8, <2>9, <3>2
    <2>11. (m + 1) * (2 * s) <= (m + 1) * r - w * (m * (m + 1)) + 2 * (m * t)
      BY <1>2, <1>3, <2>10, SumOfOthers
    <2>12. 2 * s <= r
      BY <1>2, <1>3, <2>1, <2>11, RoomBelow
    <2> QED
      BY <2>8, <2>9, <2>12 DEF k, n
  <1> QED
    BY <1>4, <1>5

(* Credentials that the winner of an offer is among: those that were offered *)
(* too and are not among them stand no higher.                               *)
LEMMA WinnersStayAbove ==
    ASSUME NEW x, NEW gain, NEW y, NEW P, NEW p, NEW w, WinsOffer(x, gain, y, P, p, w),
           NEW S \in SUBSET Candidates, p \in S
    PROVE  2 * (SumFunctionOnSet(gain, P) - SumFunctionOnSet(y, S))
               <= Reach(Cardinality(S), Cardinality(Candidates), w)
  <1> DEFINE Q == P \ S
             A == S \ {p}
             B == S \union Q
             n == Cardinality(Candidates)
             k == Cardinality(S)
             m == Cardinality(Q)
             t == SumFunctionOnSet(gain, P)
  <1>1. /\ Q \in SUBSET Candidates /\ A \in SUBSET Candidates /\ B \in SUBSET Candidates
        /\ S \in SUBSET B /\ B \ S = Q /\ S \intersect Q = {} /\ P \subseteq B
    BY DEF WinsOffer
  <1>2. /\ IsFiniteSet(S) /\ IsFiniteSet(Q) /\ IsFiniteSet(B) /\ k \in Nat /\ m \in Nat /\ n \in Nat
    BY <1>1, OfferedSums
  <1>3. /\ w \in Nat /\ t \in Nat /\ t <= w
        /\ SumFunctionOnSet(y, S) \in Int /\ SumFunctionOnSet(x, S) \in Int
    BY OfferedSums DEF WinsOffer
  <1>4. CASE Q = {}
    <2>1. P \subseteq S
      BY <1>4
    <2>2. SumFunctionOnSet(gain, S) = t
      BY <2>1, OfferedSums
    <2>3. /\ SumFunctionOnSet(y, S) = SumFunctionOnSet(x, S) + SumFunctionOnSet(gain, S)
          /\ -2 * SumFunctionOnSet(x, S) <= Reach(k, n, w) /\ Reach(k, n, w) \in Nat
      BY OfferedSums
    <2> HIDE DEF t, k, n
    <2>4. 2 * (t - SumFunctionOnSet(y, S)) <= Reach(k, n, w)
      BY <1>3, <2>2, <2>3
    <2> QED
      BY <2>4 DEF t, k, n
  <1>5. CASE Q # {}
    <2>1. m # 0
      BY <1>2, <1>5, FS_EmptySet
    <2>2. Cardinality(A) = k - 1 /\ Cardinality(B) = k + m
      <3>1. Cardinality(A) = k - 1
        BY <1>2, FS_RemoveElement
      <3>2. Cardinality(B) = k + m - Cardinality(S \intersect Q)
        BY <1>2, FS_Union
      <3>3. Cardinality(S \intersect Q) = 0
        BY <1>1, FS_EmptySet
      <3> HIDE DEF Q, A, B, k, m
      <3> QED
        BY <1>2, <3>1, <3>2, <3>3
    <2>3. /\ SumFunctionOnSet(y, A) \in Int
          /\ -2 * SumFunctionOnSet(y, A) <= Reach(k - 1, n, w)
          /\ Reach(k - 1, n, w) \in Nat
      <3> HIDE DEF A, k, n
      <3>1. /\ SumFunctionOnSet(y, A) = SumFunctionOnSet(x, A) + SumFunctionOnSet(gain, A)
            /\ SumFunctionOnSet(x, A) \in Int /\ SumFunctionOnSet(gain, A) \in Nat
            /\ -2 * SumFunctionOnSet(x, A) <= Reach(k - 1, n, w)
            /\ Reach(k - 1, n, w) \in Nat
        BY <1>1, <2>2, OfferedSums DEF n
      <3> QED
        BY <3>1
    <2>4. /\ SumFunctionOnSet(y, B) \in Int
          /\ -2 * SumFunctionOnSet(y, B) <= Reach(k + m, n, w) - 2 * t
          /\ Reach(k + m, n, w) \in Nat
      <3> HIDE DEF B, k, m, n, t
      <3>1. /\ SumFunctionOnSet(y, B) = SumFunctionOnSet(x, B) + SumFunctionOnSet(gain, B)
            /\ SumFunctionOnSet(x, B) \in Int
            /\ -2 * SumFunctionOnSet(x, B) <= Reach(k + m, n, w)
            /\ Reach(k + m, n, w) \in Nat
            /\ SumFunctionOnSet(gain, B) = t
        BY <1>1, <2>2, OfferedSums DEF n, t
      <3> QED
        BY <1>3, <3>1
    <2>5. y[p] \in Int /\ SumFunctionOnSet(y, S) = y[p] + SumFunctionOnSet(y, A)
      <3>1. \A c \in S : y[c] \in Int
        BY DEF WinsOffer
      <3> QED
        BY <1>2, <3>1, SumTakesOut
    <2>6. /\ SumFunctionOnSet(y, B) = SumFunctionOnSet(y, S) + SumFunctionOnSet(y, Q)
          /\ SumFunctionOnSet(y, Q) \in Int
      <3>1. \A c \in B : y[c] \in Int
        BY <1>1 DEF WinsOffer
      <3> HIDE DEF B, Q
      <3> QED
        BY <1>1, <1>2, <3>1, SumOfParts
    <2>7. SumFunctionOnSet(y, Q) <= m * y[p]
      <3>1. \A c \in Q : y[c] \in Int /\ y[c] <= y[p]
        BY DEF WinsOffer
      <3> HIDE DEF Q
      <3> QED
        BY <1>2, <2>5, <3>1, SumAtMost
    <2> HIDE DEF Q, A, B, n, k, m, t
    <2>8. PICK a, b, s, v, h \in Int :
             /\ a = SumFunctionOnSet(y, A) /\ b = SumFunctionOnSet(y, B)
             /\ s = SumFunctionOnSet(y, S) /\ v = SumFunctionOnSet(y, Q) /\ h = y[p]
      BY <1>3, <2>3, <2>4, <2>5, <2>6
    <2>9. PICK f, g, r \in Int : f = Reach(k - 1, n, w) /\ g = Reach(k + m, n, w) /\ r = Reach(k, n, w)
      <3>1. k - 1 \in Int /\ k + m \in Int /\ k \in Int /\ n \in Int /\ w \in Int
        BY <1>2, <1>3
      <3>2. Reach(k - 1, n, w) \in Int /\ Reach(k + m, n, w) \in Int /\ Reach(k, n, w) \in Int
        BY <3>1, ReachIsNumber
      <3> QED
        BY <3>2
    <2>10. /\ m * f + g = (m + 1) * r - w * (m * (m + 1))
           /\ -2 * a <= f /\ -2 * b <= g - 2 * t /\ b = s + v /\ s = h + a /\ v <= m * h
      <3>1. k \in Int /\ m \in Int /\ n \in Int /\ w \in Int
        BY <1>2, <1>3
      <3>2. m * f + g = (m + 1) * r - w * (m * (m + 1))
        BY <2>9, <3>1, ReachBends
      <3> QED
        BY <2>3, <2>4, <2>5, <2>6, <2>7, <2>8, <2>9, <3>2
    <2>11. (m + 1) * (2 * (t - s)) <= (m + 1) * r - w * (m * (m + 1)) + 2 * (m * t)
      BY <1>2, <1>3, <2>10, SumOfWinners
    <2>12. t - s \in Int /\ 2 * (t - s) <= r
      BY <1>2, <1>3, <2>1, <2>11, RoomBelow
    <2> QED
      BY <2>8, <2>9, <2>12 DEF k, n, t
  <1> QED
    BY <1>4, <1>5

(* What an offer brings and takes brings no credentials further apart. *)
LEMMA PaymentKeepsSpread ==
    ASSUME NEW x, NEW gain, NEW y, NEW P, NEW p, NEW w, WinsOffer(x, gain, y, P, p, w),
           NEW z \in [Candidates -> Int],
           \A c \in Candidates : z[c] = IF c = p THEN y[c] - SumFunctionOnSet(gain, P) ELSE y[c]
    PROVE  Spread(z, w)
  <1> SUFFICES ASSUME NEW S \in SUBSET Candidates
               PROVE  LET r == Reach(Cardinality(S), Cardinality(Candidates), w)
                      IN 2 * SumFunctionOnSet(z, S) <= r /\ -2 * SumFunctionOnSet(z, S) <= r
    BY DEF Spread
  <1> DEFINE r == Reach(Cardinality(S), Cardinality(Candidates), w)
             t == SumFunctionOnSet(gain, P)
  <1>1. /\ IsFiniteSet(S) /\ SumFunctionOnSet(x, S) \in Int /\ SumFunctionOnSet(gain, S) \in Nat
        /\ SumFunctionOnSet(y, S) = SumFunctionOnSet(x, S) + SumFunctionOnSet(gain, S)
        /\ t \in Nat /\ SumFunctionOnSet(gain, S) <= t /\ r \in Nat
        /\ 2 * SumFunctionOnSet(x, S) <= r /\ -2 * SumFunctionOnSet(x, S) <= r
    BY OfferedSums
  <1>2. CASE p \in S
    <2>1. SumFunctionOnSet(z, S) = SumFunctionOnSet(y, S) - t
      <3>1. \A c \in S : y[c] \in Int /\ z[c] = IF c = p THEN y[c] - t ELSE y[c]
        BY DEF WinsOffer
      <3> HIDE DEF t
      <3> QED
        BY <1>1, <1>2, <3>1, SumOfPayment
    <2>2. 2 * (t - SumFunctionOnSet(y, S)) <= r
      BY <1>2, WinnersStayAbove
    <2> HIDE DEF r, t
    <2>3. 2 * SumFunctionOnSet(z, S) <= r /\ -2 * SumFunctionOnSet(z, S) <= r
      BY <1>1, <2>1, <2>2
    <2> QED
      BY <2>3 DEF r
  <1>3. CASE p \notin S
    <2>1. SumFunctionOnSet(z, S) = SumFunctionOnSet(y, S)
      <3>1. \A c \in S : z[c] = y[c]
        BY <1>3
      <3> QED
        BY <1>1, <3>1, SumsAgree
    <2>2. 2 * SumFunctionOnSet(y, S) <= r
      BY <1>3, OthersStayBelow
    <2> HIDE DEF r, t
    <2>3. 2 * SumFunctionOnSet(z, S) <= r /\ -2 * SumFunctionOnSet(z, S) <= r
      BY <1>1, <2>1, <2>2
    <2> QED
      BY <2>3 DEF r
  <1> QED
    BY <1>2, <1>3

-----------------------------------------------------------------------------
(* Credits of the scheduler stay together, and so nobody waits for long *)

Owed(state) == [c \in Candidates |-> Credit(state, c)]

CreditsTogether(w) == \A s \in Keys : \A p \in DOMAIN pools[s] : Spread(Owed(pools[s][p]), w)

(* Every offer that passed a credential over has left it at least one credit. *)
WaitIsOwed(w) ==
    /\ waited \in [Keys -> [PoolKeys -> [Candidates -> Nat]]]
    /\ \A s \in Keys, p \in PoolKeys, c \in Candidates :
          2 * waited[s][p][c] <=
             2 * Credit(StateOf(s, p), c) + Reach(1, Cardinality(Candidates), w)

FairnessInv(w) == BalanceInv /\ CreditsTogether(w) /\ WaitIsOwed(w)

LEMMA OwedFacts ==
    ASSUME NEW state \in Schedules
    PROVE  /\ Owed(state) \in [Candidates -> Int]
           /\ \A c \in Candidates : Owed(state)[c] = Credit(state, c) /\ Credit(state, c) \in Int
  <1>1. state.current \in [DOMAIN state.current -> Int]
    BY CreditsFacts DEF Schedules
  <1>2. \A c \in Candidates : Credit(state, c) \in Int
    BY <1>1 DEF Credit
  <1> QED
    BY <1>2 DEF Owed

(* No offer brings more than the highest weight times the candidates. *)
LEMMA OfferIsLimited ==
    ASSUME NEW MaxWeight \in Nat, \A v \in Weights : v <= MaxWeight, NEW offer \in WeightedOffers
    PROVE  /\ TotalWeight(offer) <= Cardinality(Candidates) * MaxWeight
           /\ Cardinality(Candidates) * MaxWeight \in Nat
  <1> DEFINE P == Positive(offer)
             n == Cardinality(Candidates)
             k == Cardinality(P)
  <1>1. P \in SUBSET Candidates /\ IsFiniteSet(P) /\ TotalWeight(offer) \in Int
    BY OfferFacts
  <1>2. k \in Nat /\ n \in Nat /\ k <= n
    BY <1>1, FS_Subset, FS_CardinalityType, SchedulerAssumption
  <1>3. \A c \in P : offer[c] \in Int /\ offer[c] <= MaxWeight
    <2>1. PICK D \in SUBSET Candidates : offer \in [D -> Weights]
      BY DEF WeightedOffers
    <2>2. \A c \in P : offer[c] \in Weights
      BY <2>1 DEF Positive
    <2>3. \A c \in P : offer[c] \in Int
      BY OfferFacts
    <2> HIDE DEF P
    <2> QED
      BY <2>2, <2>3
  <1> HIDE DEF P, n, k
  <1>4. TotalWeight(offer) <= k * MaxWeight
    <2>1. SumFunctionOnSet(offer, P) <= k * MaxWeight
      BY <1>1, <1>3, SumAtMost DEF k
    <2> QED
      BY <2>1 DEF TotalWeight, P
  <1>5. k * MaxWeight <= n * MaxWeight /\ n * MaxWeight \in Nat /\ k * MaxWeight \in Nat
    <2>1. (n - k) * MaxWeight \in Nat /\ n * MaxWeight \in Nat /\ k * MaxWeight \in Nat
      <3>1. n - k \in Nat
        BY <1>2
      <3> QED
        BY <1>2, <3>1, ProductOfNats
    <2>2. (n - k) * MaxWeight = n * MaxWeight - k * MaxWeight
      BY <1>2
    <2> QED
      BY <2>1, <2>2
  <1> QED
    BY <1>1, <1>4, <1>5 DEF n

(* What preparing a pool leaves of the credits. *)
LEMMA PreparedCredits ==
    ASSUME NEW state \in Schedules, NEW offer \in WeightedOffers, NEW c \in Candidates
    PROVE  Credit(Prepared(state, offer), c) =
             IF WeightsChanged(state, offer) \/ (Overflows(state, offer) /\ c \notin Positive(offer))
             THEN 0 ELSE Credit(state, c)
  <1>1. CASE WeightsChanged(state, offer)
    <2>1. ~Overflows(state, offer)
      BY <1>1 DEF Overflows
    <2>2. Prepared(state, offer).current = <<>>
      BY <1>1, <2>1 DEF Prepared
    <2> QED
      BY <1>1, <2>2, NoCredits DEF Credit
  <1>2. CASE Overflows(state, offer)
    <2>1. ~WeightsChanged(state, offer)
      BY <1>2 DEF Overflows
    <2>2. Prepared(state, offer).current = [d \in Positive(offer) |-> Credit(state, d)]
      BY <1>2 DEF Prepared
    <2>3. Credit(Prepared(state, offer), c) = IF c \in Positive(offer) THEN Credit(state, c) ELSE 0
      <3> DEFINE kept == [d \in Positive(offer) |-> Credit(state, d)]
      <3>1. DOMAIN kept = Positive(offer) /\ \A d \in Positive(offer) : kept[d] = Credit(state, d)
        OBVIOUS
      <3>2. Prepared(state, offer).current = kept
        BY <2>2
      <3> HIDE DEF kept
      <3>3. Credit(Prepared(state, offer), c) = IF c \in DOMAIN kept THEN kept[c] ELSE 0
        BY <3>2 DEF Credit
      <3> QED
        BY <3>1, <3>3
    <2> QED
      BY <1>2, <2>1, <2>3
  <1>3. CASE ~WeightsChanged(state, offer) /\ ~Overflows(state, offer)
    <2>1. Prepared(state, offer).current = state.current
      BY <1>3 DEF Prepared
    <2> QED
      BY <1>3, <2>1 DEF Credit
  <1> QED
    BY <1>1, <1>2, <1>3

(* What an offer brings a credential. *)
Gain(offer) == [c \in Candidates |-> IF c \in Positive(offer) THEN offer[c] ELSE 0]

LEMMA GainFacts ==
    ASSUME NEW offer \in WeightedOffers
    PROVE  /\ Gain(offer) \in [Candidates -> Nat]
           /\ \A c \in Candidates : Gain(offer)[c] = IF c \in Positive(offer) THEN offer[c] ELSE 0
           /\ \A c \in Positive(offer) : Gain(offer)[c] >= 1
           /\ SumFunctionOnSet(Gain(offer), Positive(offer)) = TotalWeight(offer)
  <1>1. /\ Positive(offer) \in SUBSET Candidates /\ IsFiniteSet(Positive(offer))
        /\ \A c \in Positive(offer) : offer[c] \in Int
    BY OfferFacts
  <1>2. \A c \in Positive(offer) : offer[c] > 0
    BY DEF Positive
  <1>3. \A c \in Candidates : Gain(offer)[c] = IF c \in Positive(offer) THEN offer[c] ELSE 0
    BY DEF Gain
  <1>4. \A c \in Positive(offer) : offer[c] \in Nat /\ offer[c] >= 1
    BY <1>1, <1>2
  <1>5. Gain(offer) \in [Candidates -> Nat]
    BY <1>4 DEF Gain
  <1>6. \A c \in Positive(offer) : Gain(offer)[c] = offer[c]
    BY <1>1, <1>3
  <1>7. SumFunctionOnSet(Gain(offer), Positive(offer)) = TotalWeight(offer)
    BY <1>1, <1>6, SumsAgree DEF TotalWeight
  <1> QED
    BY <1>3, <1>4, <1>5, <1>6, <1>7

(* What settling an offer does to the credits of a pool. *)
LEMMA SettledCredits ==
    ASSUME NEW state \in Schedules, NEW offer \in WeightedOffers, Positive(offer) # {},
           NEW after, after = [state EXCEPT !.current = Settled(state, offer)],
           NEW c \in Candidates
    PROVE  Credit(after, c) = Credit(state, c) + Gain(offer)[c]
                              - (IF c = Selected(state, offer) THEN TotalWeight(offer) ELSE 0)
  <1> DEFINE P == Positive(offer)
             E == DOMAIN state.current \union P
             credited == Credited(state, offer)
             picked == Selected(state, offer)
             total == TotalWeight(offer)
  <1>1. /\ picked \in P /\ credited \in [E -> Int] /\ total \in Int
    BY SelectedIsOffered, OfferFacts
  <1>2. /\ \A d \in P : credited[d] = Credit(state, d) + offer[d]
        /\ \A d \in E \ P : credited[d] = state.current[d]
    BY DEF Credited
  <1>3. Settled(state, offer) = [credited EXCEPT ![picked] = @ - total]
    BY DEF Settled
  <1>4. after.current = Settled(state, offer)
    BY DEF Schedules
  <1>5. Gain(offer)[c] = (IF c \in P THEN offer[c] ELSE 0) /\ Credit(state, c) \in Int
    BY GainFacts, OwedFacts
  <1>6. Credit(state, c) = IF c \in DOMAIN state.current THEN state.current[c] ELSE 0
    BY DEF Credit
  <1>7. \A d \in P : offer[d] \in Int
    BY OfferFacts
  <1>8. c \in E <=> c \in DOMAIN state.current \/ c \in P
    OBVIOUS
  <1>9. picked \in E
    BY <1>1
  <1> HIDE DEF P, E, credited, picked, total
  <1>10. /\ DOMAIN after.current = E
         /\ \A d \in E : after.current[d] = IF d = picked THEN credited[d] - total ELSE credited[d]
    BY <1>1, <1>3, <1>4, <1>9
  <1>11. Credit(after, c) = IF c \in E THEN after.current[c] ELSE 0
    BY <1>10 DEF Credit
  <1>12. CASE c \notin E
    BY <1>1, <1>5, <1>6, <1>8, <1>9, <1>11, <1>12 DEF picked, total
  <1>13. CASE c \in P
    <2>1. credited[c] = Credit(state, c) + offer[c] /\ offer[c] \in Int /\ Gain(offer)[c] = offer[c]
      BY <1>2, <1>5, <1>7, <1>13
    <2>2. Credit(after, c) = IF c = picked THEN credited[c] - total ELSE credited[c]
      BY <1>8, <1>10, <1>11, <1>13
    <2>3. Credit(after, c) = Credit(state, c) + Gain(offer)[c] - (IF c = picked THEN total ELSE 0)
      BY <1>1, <1>5, <2>1, <2>2
    <2> QED
      BY <2>3 DEF picked, total
  <1>14. CASE c \in E /\ c \notin P
    <2>1. c # picked /\ credited[c] = Credit(state, c) /\ Gain(offer)[c] = 0
      BY <1>1, <1>2, <1>5, <1>6, <1>8, <1>14
    <2>2. Credit(after, c) = Credit(state, c)
      BY <1>10, <1>11, <1>14, <2>1
    <2>3. Credit(after, c) = Credit(state, c) + Gain(offer)[c] - (IF c = picked THEN total ELSE 0)
      BY <1>5, <2>1, <2>2
    <2> QED
      BY <2>3 DEF picked, total
  <1> QED
    BY <1>12, <1>13, <1>14

(* A pick brings no credentials of a pool further apart. *)
LEMMA SettledSpread ==
    ASSUME NEW was \in Schedules, NEW offer \in WeightedOffers, Positive(offer) # {},
           NEW w \in Nat, TotalWeight(offer) <= w, Spread(Owed(was), w),
           NEW state, state = Prepared(was, offer),
           NEW after \in Schedules, after = [state EXCEPT !.current = Settled(state, offer)]
    PROVE  Spread(Owed(after), w)
  <1> DEFINE P == Positive(offer)
             x == Owed(state)
             gain == Gain(offer)
             y == [c \in Candidates |-> x[c] + gain[c]]
             p == Selected(state, offer)
             z == Owed(after)
             t == TotalWeight(offer)
  <1>1. state \in Schedules
    BY PreparedBalance
  <1>2. /\ x \in [Candidates -> Int] /\ Owed(was) \in [Candidates -> Int] /\ z \in [Candidates -> Int]
        /\ \A c \in Candidates : x[c] = Credit(state, c) /\ Owed(was)[c] = Credit(was, c)
                                 /\ z[c] = Credit(after, c)
    BY <1>1, OwedFacts
  <1>3. /\ gain \in [Candidates -> Nat] /\ SumFunctionOnSet(gain, P) = t
        /\ \A c \in Candidates : gain[c] = IF c \in P THEN offer[c] ELSE 0
    BY GainFacts
  <1>4. Spread(x, w)
    <2> DEFINE K == IF WeightsChanged(was, offer) THEN {}
                    ELSE IF Overflows(was, offer) THEN P ELSE Candidates
    <2>1. K \in SUBSET Candidates
      BY OfferFacts
    <2>2. \A c \in Candidates : x[c] = IF c \in K THEN Owed(was)[c] ELSE 0
      BY <1>2, PreparedCredits
    <2> HIDE DEF K, x
    <2> QED
      BY <1>2, <2>1, <2>2, ForgettingKeepsSpread
  <1>5. P \in SUBSET Candidates /\ p \in P /\ \A c \in P : y[c] <= y[p]
    <2>1. /\ P \in SUBSET Candidates /\ p \in P
          /\ \A d \in P : Credited(state, offer)[p] >= Credited(state, offer)[d]
          /\ Credited(state, offer) \in [DOMAIN state.current \union P -> Int]
      BY <1>1, SelectedIsOffered, OfferFacts
    <2>2. \A d \in P : Credited(state, offer)[d] = Credit(state, d) + offer[d]
      BY DEF Credited
    <2>3. \A d \in P : y[d] = Credited(state, offer)[d]
      BY <1>2, <1>3, <2>1, <2>2
    <2>4. \A d \in P : Credited(state, offer)[d] \in Int
      BY <2>1
    <2> HIDE DEF P, y, p
    <2> QED
      BY <2>1, <2>3, <2>4
  <1>6. /\ y \in [Candidates -> Int]
        /\ \A c \in Candidates : y[c] = x[c] + gain[c]
    BY <1>2, <1>3
  <1>7. \A c \in Candidates : z[c] = IF c = p THEN y[c] - t ELSE y[c]
    <2> SUFFICES ASSUME NEW c \in Candidates PROVE z[c] = IF c = p THEN y[c] - t ELSE y[c]
      OBVIOUS
    <2>1. z[c] = Credit(state, c) + gain[c] - (IF c = p THEN t ELSE 0)
      BY <1>1, <1>2, SettledCredits
    <2>2. t \in Int
      BY OfferFacts
    <2> HIDE DEF z, y, t, p, gain, x
    <2>3. y[c] \in Int /\ y[c] = Credit(state, c) + gain[c]
      <3>1. y[c] = x[c] + gain[c] /\ y[c] \in Int
        BY <1>6
      <3>2. x[c] = Credit(state, c)
        BY <1>2
      <3> QED
        BY <3>1, <3>2
    <2>4. Credit(state, c) \in Int
      BY <1>1, OwedFacts
    <2>5. gain[c] \in Nat
      BY <1>3
    <2> QED
      BY <2>1, <2>2, <2>3, <2>4, <2>5
  <1>8. \A c \in Candidates \ P : gain[c] = 0
    BY <1>3
  <1>9. t <= w
    OBVIOUS
  <1> HIDE DEF P, x, gain, y, p, z, t
  <1>10. WinsOffer(x, gain, y, P, p, w)
    BY <1>2, <1>3, <1>4, <1>5, <1>6, <1>8, <1>9 DEF WinsOffer
  <1>11. Spread(z, w)
    BY <1>2, <1>3, <1>7, <1>10, PaymentKeepsSpread
  <1> QED
    BY <1>11 DEF z

(* Together, no credential is far from owing and being owed nothing. *)
LEMMA TogetherIsNearZero ==
    ASSUME NEW state \in Schedules, NEW w, Spread(Owed(state), w), NEW c \in Candidates
    PROVE  /\ Credit(state, c) \in Int
           /\ 2 * Credit(state, c) <= Reach(1, Cardinality(Candidates), w)
           /\ -2 * Credit(state, c) <= Reach(1, Cardinality(Candidates), w)
  <1> DEFINE x == Owed(state)
  <1>1. x[c] = Credit(state, c) /\ Credit(state, c) \in Int
    BY OwedFacts
  <1> HIDE DEF x
  <1>2. IsFiniteSet({c}) /\ Cardinality({c}) = 1 /\ {c} \ {c} = {} /\ {c} \in SUBSET Candidates
    BY FS_Singleton
  <1>3. SumFunctionOnSet(x, {c}) = x[c]
    <2>1. \A d \in {c} : x[d] \in Int
      BY <1>1
    <2>2. SumFunctionOnSet(x, {c}) = x[c] + SumFunctionOnSet(x, {c} \ {c})
      BY <1>2, <2>1, SumTakesOut
    <2> QED
      BY <1>1, <1>2, <2>2, SumEmpty
  <1>4. /\ 2 * SumFunctionOnSet(x, {c}) <= Reach(Cardinality({c}), Cardinality(Candidates), w)
        /\ -2 * SumFunctionOnSet(x, {c}) <= Reach(Cardinality({c}), Cardinality(Candidates), w)
    BY <1>2 DEF Spread, x
  <1> QED
    BY <1>1, <1>2, <1>3, <1>4

LEMMA NoStateOwesNothing ==
    /\ NoState \in Schedules
    /\ \A c \in Candidates : Credit(NoState, c) = 0
    /\ \A w \in Nat : Spread(Owed(NoState), w)
  <1>1. NoState \in Schedules
    BY NoCredits DEF NoState, Schedules
  <1>2. \A c \in Candidates : Credit(NoState, c) = 0
    BY NoCredits DEF NoState, Credit
  <1>3. Owed(NoState) \in [Candidates -> Int] /\ \A c \in Candidates : Owed(NoState)[c] = 0
    BY <1>1, <1>2, OwedFacts
  <1> QED
    BY <1>1, <1>2, <1>3, NoneSpread

LEMMA ReachOfOne ==
    ASSUME NEW w \in Nat, NEW c \in Candidates
    PROVE  Reach(1, Cardinality(Candidates), w) \in Nat
  <1>1. Cardinality(Candidates) \in Nat /\ Cardinality(Candidates) # 0
    BY FS_CardinalityType, FS_EmptySet, SchedulerAssumption
  <1>2. 1 <= Cardinality(Candidates) /\ 1 \in Nat /\ 1 <= 1
    BY <1>1
  <1> QED
    BY <1>1, <1>2, ReachGrows

(* A state of a pool that is typed and together, also where there is none yet. *)
LEMMA StateFacts ==
    ASSUME NEW w \in Nat, FairnessInv(w), NEW s \in Keys, NEW p \in PoolKeys
    PROVE  StateOf(s, p) \in Schedules /\ Spread(Owed(StateOf(s, p)), w)
  <1>1. CASE p \in DOMAIN pools[s]
    BY <1>1, SchedulesFacts DEF FairnessInv, BalanceInv, CreditsTogether, StateOf
  <1>2. CASE p \notin DOMAIN pools[s]
    BY <1>2, NoStateOwesNothing DEF StateOf
  <1> QED
    BY <1>1, <1>2

(* What one pick does to the wait of a credential it was made among. *)
LEMMA WaitOfOffered ==
    ASSUME NEW was \in Schedules, NEW offer \in WeightedOffers, Positive(offer) # {},
           NEW w \in Nat, TotalWeight(offer) <= w, Spread(Owed(was), w),
           NEW state, state = Prepared(was, offer),
           NEW after \in Schedules, after = [state EXCEPT !.current = Settled(state, offer)],
           NEW c \in Candidates, NEW old \in Nat,
           2 * old <= 2 * Credit(was, c) + Reach(1, Cardinality(Candidates), w),
           NEW new,
           new = IF c = Selected(state, offer) THEN 0
                 ELSE (IF c \in Positive(offer) THEN 1 ELSE 0) + (IF Resets(was, offer) THEN 0 ELSE old)
    PROVE  new \in Nat /\ 2 * new <= 2 * Credit(after, c) + Reach(1, Cardinality(Candidates), w)
  <1> DEFINE r == Reach(1, Cardinality(Candidates), w)
             P == Positive(offer)
             before == Credit(was, c)
             base == Credit(state, c)
             gain == Gain(offer)[c]
             end == Credit(after, c)
             gone == WeightsChanged(was, offer) \/ (Overflows(was, offer) /\ c \notin P)
  <1>1. state \in Schedules /\ r \in Nat
    BY PreparedBalance, ReachOfOne
  <1>2. before \in Int /\ -2 * before <= r
    BY TogetherIsNearZero
  <1>3. base = IF gone THEN 0 ELSE before
    BY PreparedCredits
  <1>4. gain \in Nat /\ (c \in P => gain >= 1)
    BY GainFacts
  <1>5. end \in Int /\ -2 * end <= r
    <2>1. Spread(Owed(after), w)
      BY SettledSpread
    <2> QED
      BY <2>1, TogetherIsNearZero
  <1>6. c # Selected(state, offer) => end = base + gain
    <2>1. end = base + gain - (IF c = Selected(state, offer) THEN TotalWeight(offer) ELSE 0)
      BY <1>1, SettledCredits
    <2>2. base \in Int
      BY <1>1, OwedFacts
    <2> HIDE DEF end, base, gain
    <2> QED
      BY <1>4, <2>1, <2>2
  <1>7. Resets(was, offer) => gone \/ c \in P
    BY DEF Resets
  <1>8. ~Resets(was, offer) => ~gone
    BY DEF Resets
  <1> HIDE DEF r, before, base, gain, end, gone, P
  <1>9. 2 * old <= 2 * before + r
    BY DEF before, r
  <1>10. CASE c = Selected(state, offer)
    <2>1. new = 0
      BY <1>10
    <2>2. new \in Nat /\ 2 * new <= 2 * end + r
      BY <1>1, <1>5, <2>1
    <2> QED
      BY <2>2 DEF end, r
  <1>11. CASE c # Selected(state, offer)
    <2> DEFINE offered == IF c \in P THEN 1 ELSE 0
               kept == IF Resets(was, offer) THEN 0 ELSE old
    <2>1. new = offered + kept
      BY <1>11 DEF P
    <2>2. offered \in Nat /\ kept \in Nat /\ offered <= gain
      BY <1>4
    <2>3. 2 * kept <= 2 * base + r
      <3>1. CASE ~Resets(was, offer)
        BY <1>3, <1>8, <1>9, <3>1
      <3>2. CASE Resets(was, offer)
        <4>1. base = 0 \/ base = before
          BY <1>3
        <4>2. kept = 0
          BY <3>2
        <4> QED
          BY <1>1, <1>2, <4>1, <4>2
      <3> QED
        BY <3>1, <3>2
    <2>4. end = base + gain /\ base \in Int
      BY <1>2, <1>3, <1>6, <1>11
    <2> HIDE DEF offered, kept
    <2>5. new \in Nat /\ 2 * new <= 2 * end + r
      BY <1>1, <1>4, <2>1, <2>2, <2>3, <2>4
    <2> QED
      BY <2>5 DEF end, r
  <1> QED
    BY <1>10, <1>11

LEMMA PickKeepsFairness ==
    ASSUME NEW w \in Nat, FairnessInv(w), NEW s \in Keys, NEW p \in PoolKeys,
           NEW offer \in WeightedOffers, TotalWeight(offer) <= w, Pick(s, p, offer)
    PROVE  FairnessInv(w)'
  <1> DEFINE kept == IF Flushes(s, p) THEN {} ELSE DOMAIN pools[s]
             was == StateOf(s, p)
             state == Prepared(was, offer)
             after == [state EXCEPT !.current = Settled(state, offer)]
             schedules == [q \in kept \union {p} |-> IF q = p THEN after ELSE pools[s][q]]
             wait == [c \in Candidates |->
                        IF c = Selected(state, offer) THEN 0
                        ELSE (IF c \in Positive(offer) THEN 1 ELSE 0)
                             + (IF Resets(was, offer) THEN 0 ELSE waited[s][p][c])]
             waits == [q \in PoolKeys |->
                         IF q # p THEN IF q \in kept THEN waited[s][q] ELSE [c \in Candidates |-> 0]
                         ELSE wait]
             r == Reach(1, Cardinality(Candidates), w)
  <1>1. BalanceInv'
    BY PickKeepsBalance DEF FairnessInv
  <1>2. was \in Schedules /\ Spread(Owed(was), w)
    BY StateFacts
  <1>3. Positive(offer) # {}
    <2>1. Cardinality(Positive(offer)) > 1
      BY DEF Pick
    <2> QED
      BY <2>1, FS_EmptySet
  <1>4. /\ pools' = [pools EXCEPT ![s] = schedules]
        /\ waited' = [waited EXCEPT ![s] = waits]
    <2>1. pools' = [pools EXCEPT ![s] = schedules]
      BY DEF Pick
    <2>2. waited' = [waited EXCEPT ![s] = waits]
      BY DEF Pick
    <2> QED
      BY <2>1, <2>2
  <1>5. pools \in [Keys -> PoolTables] /\ waited \in [Keys -> [PoolKeys -> [Candidates -> Nat]]]
    BY DEF FairnessInv, BalanceInv, SchedulesTyped, WaitIsOwed
  <1>6. /\ kept \in SUBSET DOMAIN pools[s] /\ DOMAIN pools[s] \in SUBSET PoolKeys
    BY SchedulesFacts DEF FairnessInv, BalanceInv
  <1> HIDE DEF was
  <1>7. state \in Schedules /\ after \in Schedules
    <2>1. state \in Schedules
      BY <1>2, PreparedBalance
    <2> HIDE DEF state
    <2>2. Settled(state, offer) \in Credits
      BY <1>3, <2>1, SettledBalance
    <2> QED
      BY <2>1, <2>2 DEF Schedules
  <1>8. Spread(Owed(after), w)
    <2>1. state = Prepared(was, offer) /\ after = [state EXCEPT !.current = Settled(state, offer)]
      OBVIOUS
    <2> HIDE DEF state, after
    <2> QED
      BY <1>2, <1>3, <1>7, <2>1, SettledSpread
  <1>9. \A c \in Candidates : wait[c] \in Nat /\ 2 * wait[c] <= 2 * Credit(after, c) + r
    <2> SUFFICES ASSUME NEW c \in Candidates PROVE wait[c] \in Nat /\ 2 * wait[c] <= 2 * Credit(after, c) + r
      OBVIOUS
    <2>1. waited[s][p][c] \in Nat /\ 2 * waited[s][p][c] <= 2 * Credit(was, c) + r
      BY <1>5 DEF FairnessInv, WaitIsOwed, was
    <2>2. wait[c] = IF c = Selected(state, offer) THEN 0
                    ELSE (IF c \in Positive(offer) THEN 1 ELSE 0)
                         + (IF Resets(was, offer) THEN 0 ELSE waited[s][p][c])
      OBVIOUS
    <2>3. state = Prepared(was, offer) /\ after = [state EXCEPT !.current = Settled(state, offer)]
      OBVIOUS
    <2> HIDE DEF wait, state, after
    <2> QED
      BY <1>2, <1>3, <1>7, <2>1, <2>2, <2>3, WaitOfOffered
  <1>10. wait \in [Candidates -> Nat]
    <2>1. wait = [c \in Candidates |-> wait[c]]
      OBVIOUS
    <2> HIDE DEF wait
    <2> QED
      BY <1>9, <2>1
  <1>11. /\ DOMAIN schedules = kept \union {p} /\ schedules[p] = after
         /\ \A q \in kept \ {p} : schedules[q] = pools[s][q]
    OBVIOUS
  <1>12. /\ waits[p] = wait
         /\ \A q \in kept \ {p} : waits[q] = waited[s][q]
         /\ \A q \in PoolKeys \ (kept \union {p}) : waits[q] = [c \in Candidates |-> 0]
    BY <1>6
  <1>13. waits \in [PoolKeys -> [Candidates -> Nat]]
    <2>1. \A q \in PoolKeys : waited[s][q] \in [Candidates -> Nat]
      BY <1>5
    <2> HIDE DEF wait
    <2> QED
      BY <1>10, <2>1
  <1> HIDE DEF kept, state, after, schedules, wait, waits
  <1>14. /\ pools'[s] = schedules /\ waited'[s] = waits
         /\ \A t \in Keys \ {s} : pools'[t] = pools[t] /\ waited'[t] = waited[t]
    BY <1>4, <1>5
  <1>15. CreditsTogether(w)'
    <2> SUFFICES ASSUME NEW t \in Keys, NEW q \in DOMAIN pools'[t]
                 PROVE  Spread(Owed(pools'[t][q]), w)
      BY DEF CreditsTogether, Spread, Owed, Credit
    <2>1. CASE t = s /\ q = p
      BY <1>8, <1>11, <1>14, <2>1
    <2>2. CASE t = s /\ q # p
      <3>1. q \in kept /\ q \in DOMAIN pools[s] /\ pools'[t][q] = pools[s][q]
        BY <1>6, <1>11, <1>14, <2>2
      <3> QED
        BY <3>1 DEF FairnessInv, CreditsTogether
    <2>3. CASE t # s
      BY <1>14, <2>3 DEF FairnessInv, CreditsTogether
    <2> QED
      BY <2>1, <2>2, <2>3
  <1>16. WaitIsOwed(w)'
    <2>1. waited' \in [Keys -> [PoolKeys -> [Candidates -> Nat]]]
      BY <1>4, <1>5, <1>13
    <2>2. ASSUME NEW t \in Keys, NEW q \in PoolKeys, NEW c \in Candidates
          PROVE  2 * waited'[t][q][c] <= 2 * Credit(StateOf(t, q)', c) + r
      <3>1. StateOf(t, q)' = IF q \in DOMAIN pools'[t] THEN pools'[t][q] ELSE NoState
        BY DEF StateOf
      <3>2. 2 * waited[t][q][c] <= 2 * Credit(StateOf(t, q), c) + r
        BY DEF FairnessInv, WaitIsOwed
      <3>3. CASE t = s /\ q = p
        BY <1>9, <1>11, <1>12, <1>14, <3>1, <3>3
      <3>4. CASE t = s /\ q # p /\ q \in kept
        <4>1. StateOf(t, q)' = pools[s][q] /\ StateOf(t, q) = pools[s][q]
          BY <1>6, <1>11, <1>14, <3>1, <3>4 DEF StateOf
        <4>2. waited'[t][q] = waited[s][q]
          BY <1>12, <1>14, <3>4
        <4> QED
          BY <3>2, <3>4, <4>1, <4>2
      <3>5. CASE t = s /\ q # p /\ q \notin kept
        <4>1. StateOf(t, q)' = NoState /\ Credit(NoState, c) = 0
          BY <1>11, <1>14, <3>1, <3>5, NoStateOwesNothing
        <4>2. waited'[t][q][c] = 0
          BY <1>12, <1>14, <3>5
        <4>3. r \in Nat
          BY ReachOfOne
        <4> HIDE DEF r
        <4> QED
          BY <4>1, <4>2, <4>3
      <3>6. CASE t # s
        <4>1. StateOf(t, q)' = StateOf(t, q)
          BY <1>14, <3>1, <3>6 DEF StateOf
        <4>2. waited'[t][q][c] = waited[t][q][c]
          BY <1>14, <3>6
        <4> QED
          BY <3>2, <4>1, <4>2
      <3> QED
        BY <3>3, <3>4, <3>5, <3>6
    <2>3. \A t \in Keys, q \in PoolKeys, c \in Candidates :
             Credit(StateOf(t, q), c)' = Credit(StateOf(t, q)', c)
      BY DEF Credit
    <2> QED
      BY <2>1, <2>2, <2>3 DEF WaitIsOwed
  <1> QED
    BY <1>1, <1>15, <1>16 DEF FairnessInv

LEMMA PruneKeepsFairness ==
    ASSUME NEW w \in Nat, FairnessInv(w), NEW scopes \in SUBSET Keys, Prune(scopes)
    PROVE  FairnessInv(w)'
  <1> DEFINE r == Reach(1, Cardinality(Candidates), w)
             zeros == [p \in PoolKeys |-> [c \in Candidates |-> 0]]
  <1>1. BalanceInv'
    BY PruneKeepsBalance DEF FairnessInv
  <1>2. waited \in [Keys -> [PoolKeys -> [Candidates -> Nat]]]
    BY DEF FairnessInv, WaitIsOwed
  <1>3. waited' = [s \in Keys |-> IF s \in scopes THEN waited[s] ELSE zeros]
    BY DEF Prune
  <1>4. \A s \in Keys : /\ s \in scopes => pools'[s] = pools[s]
                        /\ s \notin scopes => pools'[s] = <<>>
    BY DEF Prune
  <1>5. zeros \in [PoolKeys -> [Candidates -> Nat]]
        /\ \A p \in PoolKeys, c \in Candidates : zeros[p][c] = 0
    OBVIOUS
  <1> HIDE DEF zeros
  <1>6. CreditsTogether(w)'
    <2> SUFFICES ASSUME NEW s \in Keys, NEW p \in DOMAIN pools'[s] PROVE Spread(Owed(pools'[s][p]), w)
      BY DEF CreditsTogether, Spread, Owed, Credit
    <2>1. s \in scopes
      BY <1>4, NoCredits
    <2> QED
      BY <1>4, <2>1 DEF FairnessInv, CreditsTogether
  <1>7. WaitIsOwed(w)'
    <2>1. waited' \in [Keys -> [PoolKeys -> [Candidates -> Nat]]]
      BY <1>2, <1>3, <1>5
    <2>2. ASSUME NEW s \in Keys, NEW p \in PoolKeys, NEW c \in Candidates
          PROVE  2 * waited'[s][p][c] <= 2 * Credit(StateOf(s, p)', c) + r
      <3>1. StateOf(s, p)' = IF p \in DOMAIN pools'[s] THEN pools'[s][p] ELSE NoState
        BY DEF StateOf
      <3>2. CASE s \in scopes
        <4>1. StateOf(s, p)' = StateOf(s, p)
          BY <1>4, <3>1, <3>2 DEF StateOf
        <4>2. waited'[s][p][c] = waited[s][p][c]
          BY <1>3, <3>2
        <4>3. 2 * waited[s][p][c] <= 2 * Credit(StateOf(s, p), c) + r
          BY DEF FairnessInv, WaitIsOwed
        <4> QED
          BY <4>1, <4>2, <4>3
      <3>3. CASE s \notin scopes
        <4>1. StateOf(s, p)' = NoState /\ Credit(NoState, c) = 0
          BY <1>4, <3>1, <3>3, NoCredits, NoStateOwesNothing
        <4>2. waited'[s][p][c] = 0
          BY <1>3, <1>5, <3>3
        <4>3. r \in Nat
          BY ReachOfOne
        <4> HIDE DEF r
        <4> QED
          BY <4>1, <4>2, <4>3
      <3> QED
        BY <3>2, <3>3
    <2>3. \A s \in Keys, p \in PoolKeys, c \in Candidates :
             Credit(StateOf(s, p), c)' = Credit(StateOf(s, p)', c)
      BY DEF Credit
    <2> QED
      BY <2>1, <2>2, <2>3 DEF WaitIsOwed
  <1> QED
    BY <1>1, <1>6, <1>7 DEF FairnessInv

LEMMA FairnessStarts == ASSUME NEW w \in Nat, SchedulerInit PROVE FairnessInv(w)
  <1>1. BalanceInv
    BY BalanceStarts
  <1>2. \A s \in Keys : DOMAIN pools[s] = {}
    BY NoCredits DEF SchedulerInit
  <1>3. CreditsTogether(w)
    BY <1>2 DEF CreditsTogether
  <1>4. waited = [s \in Keys |-> [p \in PoolKeys |-> [c \in Candidates |-> 0]]]
    BY DEF SchedulerInit
  <1>5. /\ waited \in [Keys -> [PoolKeys -> [Candidates -> Nat]]]
        /\ \A s \in Keys, p \in PoolKeys, c \in Candidates : waited[s][p][c] = 0
    BY <1>4
  <1>6. WaitIsOwed(w)
    <2> SUFFICES ASSUME NEW s \in Keys, NEW p \in PoolKeys, NEW c \in Candidates
                 PROVE  2 * waited[s][p][c] <=
                           2 * Credit(StateOf(s, p), c) + Reach(1, Cardinality(Candidates), w)
      BY <1>5 DEF WaitIsOwed
    <2>1. StateOf(s, p) = NoState
      BY <1>2 DEF StateOf
    <2>2. Credit(StateOf(s, p), c) = 0 /\ waited[s][p][c] = 0
      BY <1>5, <2>1, NoStateOwesNothing
    <2> QED
      BY <2>2, ReachOfOne
  <1> QED
    BY <1>1, <1>3, <1>6 DEF FairnessInv

(* An offer to n credentials brings at most n times the highest weight; a     *)
(* credit lies at most n - 1/2 such offers from zero, and so a credential     *)
(* that is passed over, from the lowest credit to the highest, cannot wait    *)
(* for longer than twice that.                                                *)
LongestWait(MaxWeight) ==
    (Cardinality(Candidates) * MaxWeight) * (2 * Cardinality(Candidates) - 1)

LEMMA FairnessAlways ==
    ASSUME NEW MaxWeight \in Nat, \A v \in Weights : v <= MaxWeight
    PROVE  SchedulerSpec => []FairnessInv(Cardinality(Candidates) * MaxWeight)
  <1> DEFINE w == Cardinality(Candidates) * MaxWeight
  <1>1. w \in Nat /\ \A offer \in WeightedOffers : TotalWeight(offer) <= w
    <2>1. w \in Nat
      BY ProductOfNats, FS_CardinalityType, SchedulerAssumption
    <2> QED
      BY <2>1, OfferIsLimited
  <1> HIDE DEF w
  <1>2. SchedulerInit => FairnessInv(w)
    BY <1>1, FairnessStarts
  <1>3. FairnessInv(w) /\ [SchedulerNext]_schedulerVars => FairnessInv(w)'
    <2> SUFFICES ASSUME FairnessInv(w), [SchedulerNext]_schedulerVars PROVE FairnessInv(w)'
      OBVIOUS
    <2>1. CASE UNCHANGED <<pools, dropped, waited>>
      <3>1. pools' = pools /\ dropped' = dropped /\ waited' = waited
        BY <2>1
      <3>2. BalanceInv'
        BY <3>1 DEF FairnessInv, BalanceInv, SchedulesTyped, NewPoolsLostNothing, CreditsBalance
      <3>3. CreditsTogether(w)'
        BY <3>1 DEF FairnessInv, CreditsTogether, Spread, Owed, Credit
      <3>4. WaitIsOwed(w)'
        BY <3>1 DEF FairnessInv, WaitIsOwed, StateOf, Credit
      <3> QED
        BY <3>2, <3>3, <3>4 DEF FairnessInv
    <2>2. CASE SchedulerNext
      <3>1. ASSUME NEW offer \in WeightedOffers, PickDirectly(offer) PROVE FairnessInv(w)'
        BY <2>1, <3>1 DEF PickDirectly
      <3>2. ASSUME NEW s \in Keys, NEW p \in PoolKeys, NEW offer \in WeightedOffers, Pick(s, p, offer)
            PROVE  FairnessInv(w)'
        BY <1>1, <3>2, PickKeepsFairness
      <3>3. ASSUME NEW scopes \in SUBSET Keys, Prune(scopes) PROVE FairnessInv(w)'
        BY <1>1, <3>3, PruneKeepsFairness
      <3> QED
        BY <2>2, <3>1, <3>2, <3>3 DEF SchedulerNext
    <2> QED
      BY <2>1, <2>2 DEF schedulerVars
  <1>4. SchedulerSpec => []FairnessInv(w)
    BY <1>2, <1>3, PTL DEF SchedulerSpec
  <1> QED
    BY <1>4 DEF w

LEMMA LongestWaitIsReach ==
    ASSUME NEW MaxWeight \in Nat
    PROVE  /\ Cardinality(Candidates) * MaxWeight \in Nat
           /\ Reach(1, Cardinality(Candidates), Cardinality(Candidates) * MaxWeight) = LongestWait(MaxWeight)
  <1>1. Cardinality(Candidates) \in Nat
    BY FS_CardinalityType, SchedulerAssumption
  <1>2. Cardinality(Candidates) * MaxWeight \in Nat
    BY <1>1, ProductOfNats
  <1>3. 1 * (2 * Cardinality(Candidates) - 1) = 2 * Cardinality(Candidates) - 1
    BY <1>1
  <1> QED
    BY <1>2, <1>3 DEF Reach, LongestWait

CreditsWithin(bound) ==
    \A s \in Keys : \A p \in DOMAIN pools[s] : \A c \in Candidates :
       2 * Credit(pools[s][p], c) \in -bound..bound

(* Whatever is offered next, the sums that a pick computes are no larger. *)
SumsWithin(bound) ==
    \A s \in Keys, p \in PoolKeys, offer \in WeightedOffers :
       Cardinality(Positive(offer)) > 1 =>
          /\ TotalWeight(offer) <= bound
          /\ \A c \in Positive(offer) :
                Credited(Prepared(StateOf(s, p), offer), offer)[c] \in -bound..bound

LEMMA LongestWaitIsLong ==
    ASSUME NEW MaxWeight \in Nat, Cardinality(Candidates) > 1
    PROVE  /\ 2 * MaxWeight <= LongestWait(MaxWeight)
           /\ Cardinality(Candidates) * MaxWeight <= LongestWait(MaxWeight)
           /\ LongestWait(MaxWeight) \in Nat
  <1> DEFINE n == Cardinality(Candidates)
             t == n * MaxWeight
             rest == t * (2 * n - 2)
             others == (n - 2) * MaxWeight
  <1>1. n \in Nat /\ n > 1
    BY FS_CardinalityType, SchedulerAssumption
  <1> HIDE DEF n
  <1>2. t \in Nat /\ others \in Nat /\ rest \in Nat
    <2>1. t \in Nat
      BY <1>1, ProductOfNats
    <2>2. n - 2 \in Nat /\ 2 * n - 2 \in Nat
      BY <1>1
    <2> QED
      BY <2>1, <2>2, ProductOfNats
  <1>3. t = 2 * MaxWeight + others
    BY <1>1
  <1>4. t * (2 * n - 1) = t + rest
    BY <1>1, <1>2
  <1>5. LongestWait(MaxWeight) = t * (2 * n - 1)
    BY DEF LongestWait, n
  <1> HIDE DEF t, rest, others
  <1>6. LongestWait(MaxWeight) = t + rest
    BY <1>4, <1>5
  <1>7. 2 * MaxWeight <= LongestWait(MaxWeight) /\ t <= LongestWait(MaxWeight)
    BY <1>2, <1>3, <1>6
  <1> QED
    BY <1>2, <1>6, <1>7 DEF t, n

LEMMA SumsOfPick ==
    ASSUME NEW MaxWeight \in Nat, \A v \in Weights : v <= MaxWeight,
           FairnessInv(Cardinality(Candidates) * MaxWeight),
           NEW s \in Keys, NEW p \in PoolKeys, NEW offer \in WeightedOffers,
           Cardinality(Positive(offer)) > 1, NEW c \in Positive(offer)
    PROVE  Credited(Prepared(StateOf(s, p), offer), offer)[c]
               \in -LongestWait(MaxWeight)..LongestWait(MaxWeight)
  <1> DEFINE w == Cardinality(Candidates) * MaxWeight
             was == StateOf(s, p)
             state == Prepared(was, offer)
             L == LongestWait(MaxWeight)
  <1>1. w \in Nat /\ Reach(1, Cardinality(Candidates), w) = L
    BY LongestWaitIsReach
  <1>2. was \in Schedules /\ Spread(Owed(was), w)
    BY <1>1, StateFacts
  <1>3. c \in Candidates /\ offer[c] \in Int /\ offer[c] > 0 /\ offer[c] <= MaxWeight
    <2>1. PICK D \in SUBSET Candidates : offer \in [D -> Weights]
      BY DEF WeightedOffers
    <2>2. c \in D /\ offer[c] > 0
      BY <2>1 DEF Positive
    <2>3. c \in Candidates /\ offer[c] \in Weights
      BY <2>1, <2>2
    <2> QED
      BY <2>2, <2>3, SchedulerAssumption
  <1>4. 2 * MaxWeight <= L /\ L \in Nat
    <2>1. Positive(offer) \in SUBSET Candidates /\ IsFiniteSet(Candidates)
      BY OfferFacts, SchedulerAssumption
    <2>2. Cardinality(Positive(offer)) <= Cardinality(Candidates)
          /\ Cardinality(Positive(offer)) \in Nat /\ Cardinality(Candidates) \in Nat
      BY <2>1, FS_Subset, FS_CardinalityType
    <2>3. Cardinality(Candidates) > 1
      BY <2>2
    <2> QED
      BY <2>3, LongestWaitIsLong
  <1> HIDE DEF w, was, L
  <1>5. /\ Credit(was, c) \in Int
        /\ 2 * Credit(was, c) <= L /\ -2 * Credit(was, c) <= L
    BY <1>1, <1>2, <1>3, TogetherIsNearZero
  <1>6. Credit(state, c) = 0 \/ Credit(state, c) = Credit(was, c)
    BY <1>2, <1>3, PreparedCredits
  <1>7. Credited(state, offer)[c] = Credit(state, c) + offer[c]
    BY DEF Credited
  <1> HIDE DEF state
  <1>8. Credited(state, offer)[c] \in -L..L
    BY <1>3, <1>4, <1>5, <1>6, <1>7
  <1> QED
    BY <1>8 DEF state, was, L

(* The credits that a pool keeps never drift away from zero, whichever       *)
(* subsets are offered, weights change or pools overflow: no credential is   *)
(* owed, or owes, more than half of (n * MaxWeight) * (2n - 1), with n the   *)
(* candidates there are. Nor do the sums on the way there exceed that, so    *)
(* that the int64 of the code do not overflow while it is below 2^63         *)
(* (scheduler.go, pick).                                                     *)
THEOREM CreditsStayBounded ==
    ASSUME NEW MaxWeight \in Nat, \A v \in Weights : v <= MaxWeight
    PROVE  SchedulerSpec => [](CreditsWithin(LongestWait(MaxWeight)) /\ SumsWithin(LongestWait(MaxWeight)))
  <1> DEFINE w == Cardinality(Candidates) * MaxWeight
  <1>1. FairnessInv(w) => CreditsWithin(LongestWait(MaxWeight))
    <2> SUFFICES ASSUME FairnessInv(w), NEW s \in Keys, NEW p \in DOMAIN pools[s], NEW c \in Candidates
                 PROVE  2 * Credit(pools[s][p], c) \in -LongestWait(MaxWeight)..LongestWait(MaxWeight)
      BY DEF CreditsWithin
    <2>1. w \in Nat /\ Reach(1, Cardinality(Candidates), w) = LongestWait(MaxWeight)
      BY LongestWaitIsReach
    <2> HIDE DEF w
    <2>2. pools[s][p] \in Schedules /\ Spread(Owed(pools[s][p]), w)
      BY SchedulesFacts DEF FairnessInv, BalanceInv, CreditsTogether
    <2>3. /\ Credit(pools[s][p], c) \in Int
          /\ 2 * Credit(pools[s][p], c) <= LongestWait(MaxWeight)
          /\ -2 * Credit(pools[s][p], c) <= LongestWait(MaxWeight)
      BY <2>1, <2>2, TogetherIsNearZero
    <2>4. LongestWait(MaxWeight) \in Nat
      BY <2>1, ReachOfOne
    <2> QED
      BY <2>3, <2>4
  <1>2. FairnessInv(w) => SumsWithin(LongestWait(MaxWeight))
    <2> SUFFICES ASSUME FairnessInv(w), NEW s \in Keys, NEW p \in PoolKeys, NEW offer \in WeightedOffers,
                        Cardinality(Positive(offer)) > 1
                 PROVE  /\ TotalWeight(offer) <= LongestWait(MaxWeight)
                        /\ \A c \in Positive(offer) :
                              Credited(Prepared(StateOf(s, p), offer), offer)[c]
                                 \in -LongestWait(MaxWeight)..LongestWait(MaxWeight)
      BY DEF SumsWithin
    <2>1. TotalWeight(offer) <= w /\ w \in Nat /\ TotalWeight(offer) \in Int
      BY OfferIsLimited, OfferFacts
    <2>2. Cardinality(Candidates) > 1
      <3>1. Positive(offer) \in SUBSET Candidates /\ IsFiniteSet(Candidates) /\ IsFiniteSet(Positive(offer))
        BY OfferFacts, SchedulerAssumption
      <3>2. Cardinality(Positive(offer)) <= Cardinality(Candidates)
            /\ Cardinality(Positive(offer)) \in Nat /\ Cardinality(Candidates) \in Nat
        BY <3>1, FS_Subset, FS_CardinalityType
      <3> QED
        BY <3>2
    <2>3. w <= LongestWait(MaxWeight) /\ LongestWait(MaxWeight) \in Nat
      BY <2>2, LongestWaitIsLong
    <2>4. \A c \in Positive(offer) :
             Credited(Prepared(StateOf(s, p), offer), offer)[c]
                \in -LongestWait(MaxWeight)..LongestWait(MaxWeight)
      BY SumsOfPick
    <2> HIDE DEF w
    <2> QED
      BY <2>1, <2>3, <2>4
  <1> QED
    BY <1>1, <1>2, FairnessAlways, PTL

WaitsWithin(bound) ==
    \A s \in Keys, p \in PoolKeys, c \in Candidates : waited[s][p][c] <= bound

LEMMA NobodyWaitsLong ==
    ASSUME NEW MaxWeight \in Nat, \A v \in Weights : v <= MaxWeight
    PROVE  SchedulerSpec => [](WaitsWithin(LongestWait(MaxWeight)) /\ CreditsBalance)
  <1> DEFINE w == Cardinality(Candidates) * MaxWeight
  <1>1. FairnessInv(w) => WaitsWithin(LongestWait(MaxWeight)) /\ CreditsBalance
    <2> SUFFICES ASSUME FairnessInv(w), NEW s \in Keys, NEW p \in PoolKeys, NEW c \in Candidates
                 PROVE  waited[s][p][c] <= LongestWait(MaxWeight)
      BY DEF WaitsWithin, FairnessInv, BalanceInv
    <2>1. w \in Nat /\ Reach(1, Cardinality(Candidates), w) = LongestWait(MaxWeight)
      BY LongestWaitIsReach
    <2> HIDE DEF w
    <2>2. StateOf(s, p) \in Schedules /\ Spread(Owed(StateOf(s, p)), w)
      BY <2>1, StateFacts
    <2>3. /\ Credit(StateOf(s, p), c) \in Int
          /\ 2 * Credit(StateOf(s, p), c) <= LongestWait(MaxWeight)
      BY <2>1, <2>2, TogetherIsNearZero
    <2>4. waited[s][p][c] \in Nat
          /\ 2 * waited[s][p][c] <= 2 * Credit(StateOf(s, p), c) + LongestWait(MaxWeight)
      BY <2>1 DEF FairnessInv, WaitIsOwed
    <2>5. LongestWait(MaxWeight) \in Nat
      BY <2>1, ReachOfOne
    <2> QED
      BY <2>3, <2>4, <2>5
  <1> QED
    BY <1>1, FairnessAlways, PTL

(* No starvation: since a credential of n candidates, of weights up to        *)
(* MaxWeight, was picked or its pool forgot the credits, no more than         *)
(* (n * MaxWeight) * (2n - 1) of its offers have passed it over, whichever    *)
(* subsets the others are offered in, and every bound that is at least that   *)
(* is kept (scheduler.go, pick).                                              *)
THEOREM NobodyStarves ==
    ASSUME NEW MaxWeight \in Nat, \A v \in Weights : v <= MaxWeight,
           WaitBound \in Int, WaitBound >= LongestWait(MaxWeight)
    PROVE  SchedulerSpec => []NoneStarves
  <1> DEFINE w == Cardinality(Candidates) * MaxWeight
  <1>1. FairnessInv(w) /\ WaitsWithin(LongestWait(MaxWeight)) /\ CreditsBalance => NoneStarves
    <2> SUFFICES ASSUME FairnessInv(w), WaitsWithin(LongestWait(MaxWeight)),
                        NEW s \in Keys, NEW p \in PoolKeys, NEW c \in Candidates
                 PROVE  waited[s][p][c] <= WaitBound
      BY DEF NoneStarves, BoundedWait, FairnessInv, BalanceInv
    <2>1. waited[s][p][c] \in Nat /\ waited[s][p][c] <= LongestWait(MaxWeight)
      BY DEF FairnessInv, WaitIsOwed, WaitsWithin
    <2>2. LongestWait(MaxWeight) \in Nat
      BY LongestWaitIsReach, ReachOfOne
    <2> QED
      BY <2>1, <2>2
  <1> QED
    BY <1>1, FairnessAlways, NobodyWaitsLong, PTL

=============================================================================
