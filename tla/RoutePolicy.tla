------------------------------ MODULE RoutePolicy ------------------------------
(***************************************************************************)
(* Allow and deny rules over models and upstream credentials, how the rules *)
(* bound to a key are merged, and which credentials a merged decision       *)
(* permits when the host reports them incompletely.                        *)
(***************************************************************************)
EXTENDS Naturals, FiniteSets

CONSTANTS
    Models,       \* model names, case folded
    Credentials,  \* fingerprints of upstream credentials
    AuthFiles,    \* the two sources of credentials
    AIProviders,
    Providers,    \* provider ids
    SelectorOf,   \* what each credential truly is: its source and provider
    Hidden        \* metadata that the host leaves out

Sources == {AuthFiles, AIProviders}

(* CredentialProviderSelector: all credentials of a provider from a source. *)
Selectors == [source : Sources, provider : Providers]

Items == Models \union Credentials \union Selectors

(* What the host may say of a credential: a selector, or less. *)
Metadata == [source : Sources \union {Hidden}, provider : Providers \union {Hidden}]

ASSUME PolicyAssumption ==
    /\ SelectorOf \in [Credentials -> Selectors]
    /\ Models \intersect (Credentials \union Metadata) = {}
    /\ Credentials \intersect Metadata = {}
    /\ Hidden \notin Sources \union Providers

Rule == [allow : SUBSET Items, deny : SUBSET Items]

(* A candidate of the host: a credential with the metadata it comes with. *)
Candidate == [ref : Credentials, source : Sources \union {Hidden},
              provider : Providers \union {Hidden}]

-----------------------------------------------------------------------------

(* NormalizeRouteRule: within one rule each item has exactly one state. *)
Normalized(rule) == rule.allow \intersect rule.deny = {}

EmptyRule == [allow |-> {}, deny |-> {}]

(* A pool that inherits has no allow list, one that selects has one; neither *)
(* knows models. *)
PoolRule(rule) ==
    /\ Normalized(rule)
    /\ (rule.allow \union rule.deny) \intersect Models = {}

CredentialItems(items) == items \ Models

CredentialRefs(rule) == (rule.allow \union rule.deny) \intersect Credentials

(* The rules that speak about a key: its bound routes and its own. *)
RulesOf(routes, binding) ==
    {routes[id] : id \in binding.routes \intersect DOMAIN routes} \union {binding.rule}

(* ConfigurationError: a bound route that no longer exists. *)
Misconfigured(routes, binding) == ~(binding.routes \subseteq DOMAIN routes)

MergedSubtracting(routes, binding) ==
    LET rules == RulesOf(routes, binding)
        deny == UNION {r.deny : r \in rules}
    IN [allow |-> UNION {r.allow : r \in rules} \ deny, deny |-> deny]

(* Each dimension is merged on its own. Denied items stay in the allow list: *)
(* an empty allow list means unrestricted, not nothing. *)
Merged(routes, binding) ==
    LET rules == RulesOf(routes, binding)
    IN [allow |-> UNION {r.allow : r \in rules}, deny |-> UNION {r.deny : r \in rules}]

RestrictsCredentials(d) == CredentialItems(d.allow \union d.deny) # {}

AllowsModel(d, m) ==
    /\ m \notin d.deny
    /\ d.allow \intersect Models = {} \/ m \in d.allow

DeniesExactly(denied, c) == c.source = denied.source /\ c.provider = denied.provider

(* Incomplete metadata cannot prove that a candidate is outside a selector. *)
DeniesPotentially(denied, c) ==
    /\ c.source \in {Hidden, denied.source}
    /\ c.provider \in {Hidden, denied.provider}

(* AllowsCredential of a decision without configuration error *)
AllowsCandidate(d, c) ==
    /\ c.ref \notin d.deny
    /\ ~\E denied \in d.deny \intersect Selectors : DeniesPotentially(denied, c)
    /\ \/ CredentialItems(d.allow) = {}
       \/ c.ref \in d.allow
       \/ [source |-> c.source, provider |-> c.provider] \in d.allow

-----------------------------------------------------------------------------
(* What the rules mean for what a credential truly is, rule by rule *)

DeniesCredential(rule, c) == c \in rule.deny \/ SelectorOf[c] \in rule.deny

(* No rule denies it, and if any rule allows credentials then one allows this. *)
PermitsCredential(rules, c) ==
    /\ \A r \in rules : ~DeniesCredential(r, c)
    /\ \/ \A r \in rules : CredentialItems(r.allow) = {}
       \/ \E r \in rules : c \in r.allow \/ SelectorOf[c] \in r.allow

PermitsModel(rules, m) ==
    /\ \A r \in rules : m \notin r.deny
    /\ \/ \A r \in rules : r.allow \intersect Models = {}
       \/ \E r \in rules : m \in r.allow

FullCandidate(c) ==
    [ref |-> c, source |-> SelectorOf[c].source, provider |-> SelectorOf[c].provider]

(* How the host may present a credential. *)
Presentations(c) ==
    {cand \in Candidate :
       /\ cand.ref = c
       /\ cand.source \in {Hidden, SelectorOf[c].source}
       /\ cand.provider \in {Hidden, SelectorOf[c].provider}}

=============================================================================
