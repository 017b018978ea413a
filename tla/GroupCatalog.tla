----------------------------- MODULE GroupCatalog -----------------------------
(***************************************************************************)
(* Resource groups and the plans that grant them: who owns a model, in      *)
(* memory and in the database.  Administrators edit from pages they loaded  *)
(* earlier; the wall clock may be set back between two edits.               *)
(*                                                                         *)
(* Every edit is one editConfiguration: the database takes the whole new    *)
(* configuration in one transaction or none of it, and memory follows.      *)
(* Names, descriptions, pools, limits and the edits that are refused before *)
(* the database is asked are left out: they change nothing here.  So are    *)
(* the revisions of plans, which work like those of groups.                 *)
(***************************************************************************)
EXTENDS Naturals

CONSTANTS
    Groups,      \* group ids
    Models,      \* model names, lower case and trimmed
    Base,        \* ModelWithoutThinkingSuffix of each model
    Plans,       \* plan ids
    Admins,
    Instants,    \* what Store.Now() may return
    NotYet,      \* no publication time
    NoPage,      \* no page is open
    MaxRevision  \* bound on revisions, for TLC

ASSUME CatalogAssumption ==
    /\ Instants \subseteq Nat /\ NotYet \notin Nat
    /\ Base \in [Models -> Models]
    /\ MaxRevision \in Nat \ {0}

VARIABLES
    clock,   \* Store.Now()
    groups,  \* GroupState.Groups
    plans,   \* GroupState.Plans: the groups of each plan's policies
    tables,  \* gb_groups, gb_group_models, gb_model_owners, gb_plan_groups
    page     \* the group an administrator has open, as it was loaded

vars == <<clock, groups, plans, tables, page>>

Group == [status : {"draft", "published", "archived"}, enabled : BOOLEAN,
          models : SUBSET Models \ {{}}, publishedAt : Instants \union {NotYet},
          revision : 1..MaxRevision]

With(f, x, y) == [z \in DOMAIN f \union {x} |-> IF z = x THEN y ELSE f[z]]

Init ==
    /\ clock \in Instants
    /\ groups = <<>>
    /\ plans = <<>>
    /\ tables = [groups |-> <<>>, models |-> <<>>, owners |-> <<>>, plans |-> <<>>]
    /\ page = [a \in Admins |-> NoPage]

-----------------------------------------------------------------------------
(* Owners *)

OwnersNow(m, at) ==
    {id \in DOMAIN groups :
        /\ groups[id].status = "published"
        /\ groups[id].publishedAt <= at
        /\ m \in groups[id].models}

(* modelOwner: an archived group keeps its models. *)
Owners(m, at) ==
    {id \in DOMAIN groups :
        /\ groups[id].status # "draft"
        /\ groups[id].publishedAt <= at
        /\ m \in groups[id].models}

(* requestModelOwner: a model named with a thinking option is looked up as it *)
(* is written first. *)
RequestOwners(m, at) == IF Owners(m, at) # {} THEN Owners(m, at) ELSE Owners(Base[m], at)

-----------------------------------------------------------------------------
(* Database *)

(* saveGroupedConfig leaves the models of a published group alone. *)
StoredModels(gs) ==
    [id \in DOMAIN gs |->
        IF id \in DOMAIN tables.groups /\ tables.groups[id].status # "draft"
        THEN tables.models[id] ELSE gs[id].models]

Claims(gs, m) == {id \in DOMAIN gs : gs[id].status # "draft" /\ m \in gs[id].models}

Owner(gs, m) == CHOOSE id \in Claims(gs, m) : TRUE

OwnersUnchecked(gs) == TRUE

(* gb_model_owners: one owner per model for ever, and only of its own models. *)
OwnersAccepted(gs) ==
    \A m \in Models : \A id \in Claims(gs, m) :
        /\ Claims(gs, m) = {id}
        /\ m \in DOMAIN tables.owners => tables.owners[m] = id
        /\ m \in StoredModels(gs)[id]

(* gb_groups_no_reopen *)
LifecycleAccepted(gs) ==
    \A id \in DOMAIN tables.groups \intersect DOMAIN gs :
        /\ tables.groups[id].status = "published" => gs[id].status # "draft"
        /\ tables.groups[id].status = "archived" => gs[id].status = "archived"

Stored(gs, ps) ==
    [groups |-> [id \in DOMAIN gs |->
        [status |-> gs[id].status, enabled |-> gs[id].enabled,
         publishedAt |-> gs[id].publishedAt, revision |-> gs[id].revision]],
     models |-> StoredModels(gs),
     owners |-> [m \in DOMAIN tables.owners \union {n \in Models : Claims(gs, n) # {}} |->
        IF m \in DOMAIN tables.owners THEN tables.owners[m] ELSE Owner(gs, m)],
     plans |-> ps]

(* loadGroupedState *)
LoadedGroups ==
    [id \in DOMAIN tables.groups |->
        [status |-> tables.groups[id].status, enabled |-> tables.groups[id].enabled,
         models |-> tables.models[id], publishedAt |-> tables.groups[id].publishedAt,
         revision |-> tables.groups[id].revision]]

(* editConfiguration; a refused or failing transaction changes nothing. *)
EditConfiguration(gs, ps) ==
    /\ OwnersAccepted(gs)
    /\ LifecycleAccepted(gs)
    /\ tables' = Stored(gs, ps)
    /\ groups' = gs
    /\ plans' = ps
    /\ UNCHANGED <<clock, page>>

-----------------------------------------------------------------------------
(* Actions *)

SetClock ==
    /\ clock' \in Instants \ {clock}
    /\ UNCHANGED <<groups, plans, tables, page>>

OpenPage(a, id) ==
    /\ id \in DOMAIN groups
    /\ page' = [page EXCEPT ![a] = [id |-> id, group |-> groups[id]]]
    /\ UNCHANGED <<clock, groups, plans, tables>>

CreateResourceGroup(id, models) ==
    /\ id \notin DOMAIN groups
    /\ EditConfiguration(
          With(groups, id, [status |-> "draft", enabled |-> TRUE, models |-> models,
                            publishedAt |-> NotYet, revision |-> 1]),
          plans)

OnAnyPage(a, id) ==
    /\ page[a] # NoPage
    /\ page[a].id = id
    /\ groups[id].revision < MaxRevision

(* groupRevision: an edit from a page that is no longer true is refused. *)
OnCurrentPage(a, id) ==
    /\ page[a] # NoPage
    /\ page[a].id = id
    /\ page[a].group.revision = groups[id].revision
    /\ groups[id].revision < MaxRevision

Revised(id, g) == With(groups, id, [g EXCEPT !.revision = @ + 1])

UpdateAnyGroup(a, id, enabled, models) ==
    /\ id \in DOMAIN groups
    /\ OnCurrentPage(a, id)
    /\ EditConfiguration(
          Revised(id, [groups[id] EXCEPT !.enabled = enabled, !.models = models]), plans)

(* The models of a group are fixed once it was published. *)
UpdateResourceGroup(a, id, enabled, models) ==
    /\ id \in DOMAIN groups
    /\ OnCurrentPage(a, id)
    /\ models # groups[id].models => groups[id].status = "draft"
    /\ EditConfiguration(
          Revised(id, [groups[id] EXCEPT !.enabled = enabled, !.models = models]), plans)

(* PublishResourceGroup: a model that another group owns now is refused; one *)
(* whose owner was published after now is left to the database. *)
Publish(a, id) ==
    /\ id \in DOMAIN groups
    /\ OnCurrentPage(a, id)
    /\ groups[id].status = "draft"
    /\ \A m \in groups[id].models : Owners(m, clock) = {}
    /\ EditConfiguration(
          Revised(id, [groups[id] EXCEPT !.status = "published", !.publishedAt = clock]), plans)

Archive(a, id) ==
    /\ id \in DOMAIN groups
    /\ OnCurrentPage(a, id)
    /\ groups[id].status = "published"
    /\ EditConfiguration(
          Revised(id, [groups[id] EXCEPT !.status = "archived", !.enabled = FALSE]), plans)

(* SaveGroupPlan: every group that a plan grants is published when it is saved. *)
SaveGroupPlan(p, policies) ==
    /\ policies # {}
    /\ \A id \in policies : id \in DOMAIN groups /\ groups[id].status = "published"
    /\ EditConfiguration(groups, With(plans, p, policies))

Next ==
    \/ SetClock
    \/ \E a \in Admins, id \in Groups : OpenPage(a, id)
    \/ \E id \in Groups, models \in SUBSET Models \ {{}} : CreateResourceGroup(id, models)
    \/ \E a \in Admins, id \in Groups, enabled \in BOOLEAN, models \in SUBSET Models \ {{}} :
          UpdateResourceGroup(a, id, enabled, models)
    \/ \E a \in Admins, id \in Groups : Publish(a, id)
    \/ \E a \in Admins, id \in Groups : Archive(a, id)
    \/ \E p \in Plans, policies \in SUBSET Groups : SaveGroupPlan(p, policies)

Spec == Init /\ [][Next]_vars

-----------------------------------------------------------------------------
(* Properties *)

TypeOK ==
    /\ clock \in Instants
    /\ DOMAIN groups \subseteq Groups /\ groups \in [DOMAIN groups -> Group]
    /\ DOMAIN plans \subseteq Plans /\ plans \in [DOMAIN plans -> SUBSET Groups]
    /\ DOMAIN tables.owners \subseteq Models
    /\ tables.owners \in [DOMAIN tables.owners -> Groups]

(* A model has at most one owner, even where the clock was set back between *)
(* the publications of two groups that list it: what the check in memory *)
(* overlooks the database refuses. *)
OneOwner ==
    \A m \in Models : \A x, y \in {id \in DOMAIN groups : groups[id].status # "draft"} :
        m \in groups[x].models \intersect groups[y].models => x = y

(* The past does not change hands: no edit, publication or archival changes *)
(* the group that a request of an earlier instant is charged to, whichever *)
(* way the model was written. *)
PastOwnersFixed ==
    [][\A m \in Models, at \in Instants :
          at < clock => RequestOwners(m, at)' = RequestOwners(m, at)]_vars

(* Models are published for good, so what is published is what the *)
(* administrator who published it had seen. *)
PublishedAsSeen ==
    [][\A id \in DOMAIN groups :
          groups[id].status = "draft" /\ groups'[id].status = "published"
              => \E a \in Admins : page[a] # NoPage
                    /\ page[a].id = id
                    /\ page[a].group.models = groups'[id].models]_vars

(* A restart finds the groups, owners and plans that were there before. *)
RestartRestores ==
    /\ LoadedGroups = groups
    /\ tables.plans = plans
    /\ \A m \in Models : Claims(groups, m) =
          IF m \in DOMAIN tables.owners THEN {tables.owners[m]} ELSE {}

=============================================================================
