--------------------------- MODULE GroupStateProofs ---------------------------
(***************************************************************************)
(* Proofs about the two things an administrator reads, edits and writes     *)
(* back while others do the same: resource groups with their owners, where  *)
(* memory and tables are shown to agree and what the database refuses then  *)
(* binds memory too, and the labels shared with the Keeper, where a call    *)
(* under way is shown to know what it relies on.                            *)
(***************************************************************************)
EXTENDS GroupCatalog, KeeperLabels, Integers, TLAPS

-----------------------------------------------------------------------------
(* Resource groups and their owners: what a page shows *)

Pages == [id : Groups, group : Group]

(* A page shows the group as it is, or an older revision of it. *)
PageShowsRevision(a) ==
    page[a] # NoPage =>
        /\ page[a] \in Pages
        /\ page[a].id \in DOMAIN groups
        /\ page[a].group.revision <= groups[page[a].id].revision
        /\ page[a].group.revision = groups[page[a].id].revision =>
              page[a].group = groups[page[a].id]

GroupsTyped ==
    /\ clock \in Instants
    /\ DOMAIN groups \subseteq Groups
    /\ groups \in [DOMAIN groups -> Group]

Inv ==
    /\ GroupsTyped
    /\ page \in [Admins -> Pages \union {NoPage}]
    /\ \A a \in Admins : PageShowsRevision(a)

-----------------------------------------------------------------------------
(* What a step does to the groups *)

Follows(g, old) ==
    /\ g.revision = old.revision + 1
    /\ old.status # "draft" => /\ g.status # "draft"
                               /\ g.models = old.models
                               /\ g.publishedAt = old.publishedAt

SeenBySomeone(id, g) ==
    /\ g.publishedAt = clock
    /\ \E a \in Admins : /\ page[a] # NoPage
                         /\ page[a].id = id
                         /\ page[a].group.models = g.models

Edited(id, g) ==
    /\ id \in Groups /\ g \in Group
    /\ id \notin DOMAIN groups => g.status = "draft"
    /\ id \in DOMAIN groups => Follows(g, groups[id])
    /\ id \in DOMAIN groups /\ groups[id].status = "draft" /\ g.status # "draft"
          => SeenBySomeone(id, g)
    /\ EditConfiguration(With(groups, id, g), plans)

LEMMA WithValue ==
    ASSUME NEW f, NEW x, NEW y, NEW z \in DOMAIN f \union {x}
    PROVE  /\ DOMAIN With(f, x, y) = DOMAIN f \union {x}
           /\ With(f, x, y)[z] = IF z = x THEN y ELSE f[z]
  BY DEF With

LEMMA CreatedIsEdited ==
    ASSUME Inv, NEW id \in Groups, NEW models \in SUBSET Models \ {{}},
           CreateResourceGroup(id, models)
    PROVE  \E g \in Group : Edited(id, g)
  <1> DEFINE g == [status |-> "draft", enabled |-> TRUE, models |-> models,
                   publishedAt |-> NotYet, revision |-> 1]
  <1>1. g \in Group
    BY CatalogAssumption DEF Group
  <1>2. Edited(id, g)
    BY <1>1 DEF CreateResourceGroup, Edited
  <1> QED
    BY <1>1, <1>2

LEMMA NextRevision ==
    ASSUME GroupsTyped, NEW id \in DOMAIN groups, groups[id].revision < MaxRevision
    PROVE  /\ groups[id] \in Group
           /\ groups[id].revision + 1 \in 1..MaxRevision
  BY CatalogAssumption DEF GroupsTyped, Group

LEMMA UpdatedIsEdited ==
    ASSUME Inv, NEW a \in Admins, NEW id \in Groups, NEW enabled \in BOOLEAN,
           NEW models \in SUBSET Models \ {{}}, UpdateResourceGroup(a, id, enabled, models)
    PROVE  \E g \in Group : Edited(id, g)
  <1> DEFINE g == [groups[id] EXCEPT !.enabled = enabled, !.models = models,
                                     !.revision = @ + 1]
  <1>1. id \in DOMAIN groups /\ groups[id].revision < MaxRevision
    BY DEF UpdateResourceGroup, OnCurrentPage
  <1>2. groups[id] \in Group /\ groups[id].revision + 1 \in 1..MaxRevision
    BY <1>1, NextRevision DEF Inv
  <1>3. g \in Group
    BY <1>2 DEF Group
  <1>4. Follows(g, groups[id])
    BY <1>2 DEF Follows, UpdateResourceGroup, Group
  <1>5. g.status = groups[id].status
    BY <1>2 DEF Group
  <1>6. EditConfiguration(With(groups, id, g), plans)
    BY <1>2 DEF UpdateResourceGroup, Revised, Group
  <1> HIDE DEF g
  <1>7. Edited(id, g)
    BY <1>1, <1>3, <1>4, <1>5, <1>6 DEF Edited
  <1> QED
    BY <1>3, <1>7

LEMMA PublishedIsEdited ==
    ASSUME Inv, NEW a \in Admins, NEW id \in Groups, Publish(a, id)
    PROVE  \E g \in Group : Edited(id, g)
  <1> DEFINE g == [groups[id] EXCEPT !.status = "published", !.publishedAt = clock,
                                     !.revision = @ + 1]
  <1>1. id \in DOMAIN groups /\ groups[id].revision < MaxRevision
    BY DEF Publish, OnCurrentPage
  <1>2. groups[id] \in Group /\ groups[id].revision + 1 \in 1..MaxRevision
    BY <1>1, NextRevision DEF Inv
  <1>3. g \in Group
    BY <1>2 DEF Group, Inv, GroupsTyped
  <1>4. Follows(g, groups[id])
    BY <1>2 DEF Follows, Publish, Group
  <1>5. page[a].group = groups[id]
    BY DEF Publish, OnCurrentPage, Inv, PageShowsRevision
  <1>6. SeenBySomeone(id, g)
    BY <1>2, <1>5 DEF SeenBySomeone, Publish, OnCurrentPage, Group
  <1>7. EditConfiguration(With(groups, id, g), plans)
    BY <1>2 DEF Publish, Revised, Group
  <1> HIDE DEF g
  <1>8. Edited(id, g)
    BY <1>1, <1>3, <1>4, <1>6, <1>7 DEF Edited
  <1> QED
    BY <1>3, <1>8

LEMMA ArchivedIsEdited ==
    ASSUME Inv, NEW a \in Admins, NEW id \in Groups, Archive(a, id)
    PROVE  \E g \in Group : Edited(id, g)
  <1> DEFINE g == [groups[id] EXCEPT !.status = "archived", !.enabled = FALSE,
                                     !.revision = @ + 1]
  <1>1. id \in DOMAIN groups /\ groups[id].revision < MaxRevision
    BY DEF Archive, OnCurrentPage
  <1>2. groups[id] \in Group /\ groups[id].revision + 1 \in 1..MaxRevision
    BY <1>1, NextRevision DEF Inv
  <1>3. g \in Group
    BY <1>2 DEF Group
  <1>4. Follows(g, groups[id])
    BY <1>2 DEF Follows, Archive, Group
  <1>5. EditConfiguration(With(groups, id, g), plans)
    BY <1>2 DEF Archive, Revised, Group
  <1>6. groups[id].status = "published"
    BY DEF Archive
  <1> HIDE DEF g
  <1>7. Edited(id, g)
    BY <1>1, <1>3, <1>4, <1>5, <1>6 DEF Edited
  <1> QED
    BY <1>3, <1>7

Untouched == groups' = groups /\ plans' = plans /\ tables' = tables /\ clock' \in Instants

LEMMA StepShapes ==
    ASSUME Inv, [Next]_vars
    PROVE  \/ Untouched
           \/ \E id \in Groups, g \in Group : Edited(id, g)
           \/ \E p \in Plans, policies \in SUBSET Groups : SaveGroupPlan(p, policies)
  <1>1. CASE SetClock
    BY <1>1 DEF SetClock, Untouched
  <1>2. CASE \E a \in Admins, id \in Groups : OpenPage(a, id)
    BY <1>2 DEF OpenPage, Untouched, Inv, GroupsTyped
  <1>3. CASE \E id \in Groups, models \in SUBSET Models \ {{}} : CreateResourceGroup(id, models)
    BY <1>3, CreatedIsEdited
  <1>4. CASE \E a \in Admins, id \in Groups, enabled \in BOOLEAN, models \in SUBSET Models \ {{}} :
                UpdateResourceGroup(a, id, enabled, models)
    BY <1>4, UpdatedIsEdited
  <1>5. CASE \E a \in Admins, id \in Groups : Publish(a, id)
    BY <1>5, PublishedIsEdited
  <1>6. CASE \E a \in Admins, id \in Groups : Archive(a, id)
    BY <1>6, ArchivedIsEdited
  <1>7. CASE \E p \in Plans, policies \in SUBSET Groups : SaveGroupPlan(p, policies)
    BY <1>7
  <1>8. CASE UNCHANGED vars
    BY <1>8 DEF vars, Untouched, Inv, GroupsTyped
  <1> QED
    BY <1>1, <1>2, <1>3, <1>4, <1>5, <1>6, <1>7, <1>8 DEF Next

-----------------------------------------------------------------------------
(* Types and pages *)

LEMMA InvInit == Init => Inv
  BY DEF Init, Inv, GroupsTyped, PageShowsRevision

(* An edit moves one group on to its next revision. *)
LEMMA EditKeepsInv ==
    ASSUME Inv, NEW id \in Groups, NEW g \in Group, Edited(id, g)
    PROVE  Inv'
  <1>1. groups' = With(groups, id, g) /\ clock' = clock /\ page' = page
    BY DEF Edited, EditConfiguration
  <1>2. DOMAIN groups' = DOMAIN groups \union {id}
    BY <1>1 DEF With
  <1>3. \A x \in DOMAIN groups' : groups'[x] = IF x = id THEN g ELSE groups[x]
    BY <1>1 DEF With
  <1>4. GroupsTyped'
    <2>1. groups' = [x \in DOMAIN groups' |-> groups'[x]]
      BY <1>1 DEF With
    <2>2. \A x \in DOMAIN groups' : groups'[x] \in Group
      BY <1>2, <1>3 DEF Inv, GroupsTyped
    <2>3. groups' \in [DOMAIN groups' -> Group]
      BY <2>1, <2>2
    <2>4. DOMAIN groups' \subseteq Groups /\ clock' \in Instants
      BY <1>1, <1>2 DEF Inv, GroupsTyped
    <2> QED
      BY <2>3, <2>4 DEF GroupsTyped
  <1>5. ASSUME NEW a \in Admins PROVE PageShowsRevision(a)'
    <2> SUFFICES ASSUME page[a] # NoPage
                 PROVE  /\ page[a] \in Pages
                        /\ page[a].id \in DOMAIN groups'
                        /\ page[a].group.revision <= groups'[page[a].id].revision
                        /\ page[a].group.revision = groups'[page[a].id].revision =>
                              page[a].group = groups'[page[a].id]
      BY <1>1 DEF PageShowsRevision
    <2>1. /\ page[a] \in Pages
          /\ page[a].id \in DOMAIN groups
          /\ page[a].group.revision <= groups[page[a].id].revision
          /\ page[a].group.revision = groups[page[a].id].revision =>
                page[a].group = groups[page[a].id]
      BY DEF Inv, PageShowsRevision
    <2>2. page[a].group.revision \in Int /\ groups[page[a].id].revision \in Int
      BY <2>1, CatalogAssumption DEF Pages, Group, Inv, GroupsTyped
    <2>3. CASE page[a].id # id
      BY <1>2, <1>3, <2>1, <2>3
    <2>4. CASE page[a].id = id
      <3>1. groups'[id] = g /\ g.revision = groups[id].revision + 1
        BY <1>2, <1>3, <2>1, <2>4 DEF Edited, Follows
      <3> QED
        BY <1>2, <2>1, <2>2, <2>4, <3>1
    <2> QED
      BY <2>3, <2>4
  <1> QED
    BY <1>1, <1>4, <1>5 DEF Inv

LEMMA InvNext == Inv /\ [Next]_vars => Inv'
  <1> SUFFICES ASSUME Inv, [Next]_vars PROVE Inv'
    OBVIOUS
  <1>1. CASE \E id \in Groups, g \in Group : Edited(id, g)
    BY <1>1, EditKeepsInv
  <1>2. CASE \E p \in Plans, policies \in SUBSET Groups : SaveGroupPlan(p, policies)
    BY <1>2 DEF SaveGroupPlan, EditConfiguration, Inv, GroupsTyped, PageShowsRevision
  <1>3. CASE Untouched
    <2>1. CASE \E a \in Admins, id \in Groups : OpenPage(a, id)
      <3>1. PICK b \in Admins, id \in Groups : OpenPage(b, id)
        BY <2>1
      <3>2. [id |-> id, group |-> groups[id]] \in Pages
        BY <3>1 DEF OpenPage, Pages, Inv, GroupsTyped
      <3>3. page' \in [Admins -> Pages \union {NoPage}]
        BY <3>1, <3>2 DEF OpenPage, Inv
      <3>4. groups[id].revision <= groups[id].revision
        BY <3>1, CatalogAssumption DEF OpenPage, Group, Inv, GroupsTyped
      <3>5. ASSUME NEW a \in Admins PROVE PageShowsRevision(a)'
        <4>1. CASE a = b
          <5>1. page'[a] = [id |-> id, group |-> groups[id]] /\ groups' = groups
            BY <3>1, <4>1 DEF OpenPage, Inv
          <5> QED
            BY <3>1, <3>2, <3>4, <5>1 DEF PageShowsRevision, OpenPage
        <4>2. CASE a # b
          <5>1. page'[a] = page[a] /\ groups' = groups
            BY <3>1, <4>2 DEF OpenPage, Inv
          <5> QED
            BY <5>1 DEF PageShowsRevision, Inv
        <4> QED
          BY <4>1, <4>2
      <3>6. GroupsTyped'
        BY <1>3 DEF Untouched, Inv, GroupsTyped
      <3> QED
        BY <3>3, <3>5, <3>6 DEF Inv
    <2>2. CASE page' = page
      BY <1>3, <2>2 DEF Untouched, Inv, GroupsTyped, PageShowsRevision
    <2>3. page' = page \/ \E a \in Admins, id \in Groups : OpenPage(a, id)
      BY DEF Next, vars, SetClock, CreateResourceGroup, UpdateResourceGroup, Publish, Archive,
             SaveGroupPlan, EditConfiguration
    <2> QED
      BY <2>1, <2>2, <2>3
  <1> QED
    BY <1>1, <1>2, <1>3, StepShapes

(* Groups have their types, and a page never shows anything but a revision    *)
(* its group has had: what groupRevision (group_config.go) relies on when it  *)
(* compares revisions instead of contents.                                    *)
THEOREM PagesShowRevisions == Spec => []Inv
  BY InvInit, InvNext, PTL DEF Spec

(* What is published was seen: publication and membership edits of the same   *)
(* draft by several administrators (group_config.go:133) never publish models *)
(* their administrator had not loaded.                                        *)
THEOREM PublishedWasSeen == Spec => PublishedAsSeen
  <1>1. Inv /\ [Next]_vars =>
          [\A id \in DOMAIN groups :
             groups[id].status = "draft" /\ groups'[id].status = "published"
               => \E a \in Admins : page[a] # NoPage
                     /\ page[a].id = id
                     /\ page[a].group.models = groups'[id].models]_vars
    <2> SUFFICES ASSUME Inv, [Next]_vars, NEW id \in DOMAIN groups,
                        groups[id].status = "draft", groups'[id].status = "published"
                 PROVE  \E a \in Admins : page[a] # NoPage
                           /\ page[a].id = id
                           /\ page[a].group.models = groups'[id].models
      OBVIOUS
    <2>1. PICK x \in Groups, g \in Group : Edited(x, g)
      BY StepShapes DEF Untouched, SaveGroupPlan, EditConfiguration
    <2>2. groups'[id] = IF id = x THEN g ELSE groups[id]
      BY <2>1 DEF Edited, EditConfiguration, With
    <2>3. id = x /\ groups'[id] = g
      BY <2>2
    <2>4. SeenBySomeone(id, g)
      BY <2>1, <2>3 DEF Edited
    <2> QED
      BY <2>3, <2>4 DEF SeenBySomeone
  <1> QED
    BY <1>1, PagesShowRevisions, PTL DEF Spec, PublishedAsSeen

-----------------------------------------------------------------------------
(* Owners *)

SoleClaims(gs) == \A m \in Models : \A x, y \in Claims(gs, m) : x = y

LEMMA AcceptedMeansSole ==
    ASSUME NEW gs, OwnersAccepted(gs)
    PROVE  SoleClaims(gs)
  <1> SUFFICES ASSUME NEW m \in Models, NEW x \in Claims(gs, m), NEW y \in Claims(gs, m)
               PROVE  x = y
    BY DEF SoleClaims
  <1>1. Claims(gs, m) = {x}
    BY DEF OwnersAccepted
  <1> QED
    BY <1>1

LEMMA SoleMeansOneOwner == SoleClaims(groups) => OneOwner
  <1> SUFFICES ASSUME SoleClaims(groups), NEW m \in Models,
                      NEW x \in {id \in DOMAIN groups : groups[id].status # "draft"},
                      NEW y \in {id \in DOMAIN groups : groups[id].status # "draft"},
                      m \in groups[x].models \intersect groups[y].models
               PROVE  x = y
    BY DEF OneOwner
  <1>1. x \in Claims(groups, m) /\ y \in Claims(groups, m)
    BY DEF Claims
  <1> QED
    BY <1>1 DEF SoleClaims

(* A model has at most one owner, whatever the clock did between two          *)
(* publications: every edit of the configuration is refused by the tables     *)
(* otherwise (group_schema.sql, gb_model_owners).                             *)
THEOREM ModelHasOneOwner == Spec => []OneOwner
  <1>1. Init => SoleClaims(groups)
    BY DEF Init, SoleClaims, Claims
  <1>2. Inv /\ SoleClaims(groups) /\ [Next]_vars => SoleClaims(groups')
    <2> SUFFICES ASSUME Inv, SoleClaims(groups), [Next]_vars PROVE SoleClaims(groups')
      OBVIOUS
    <2>1. groups' = groups \/ OwnersAccepted(groups')
      BY StepShapes DEF Untouched, Edited, SaveGroupPlan, EditConfiguration
    <2> QED
      BY <2>1, AcceptedMeansSole
  <1> DEFINE Sole == SoleClaims(groups)
  <1>3. Sole' <=> SoleClaims(groups')
    BY DEF SoleClaims, Claims
  <1>4. Inv /\ Sole /\ [Next]_vars => Sole'
    BY <1>2, <1>3
  <1>5. Init => Sole
    BY <1>1
  <1>6. Sole => OneOwner
    BY SoleMeansOneOwner
  <1> HIDE DEF Sole
  <1> QED
    BY <1>4, <1>5, <1>6, PagesShowRevisions, PTL DEF Spec

(* The owners that a request is charged by, as a function of the groups. *)
LEMMA PastOwnersKept ==
    ASSUME Inv, [Next]_vars, NEW m \in Models, NEW at \in Instants, at < clock
    PROVE  Owners(m, at)' = Owners(m, at)
  <1>1. CASE groups' = groups
    BY <1>1 DEF Owners
  <1>2. CASE \E id \in Groups, g \in Group : Edited(id, g)
    <2>1. PICK id \in Groups, g \in Group : Edited(id, g)
      BY <1>2
    <2>2. DOMAIN groups' = DOMAIN groups \union {id}
      BY <2>1 DEF Edited, EditConfiguration, With
    <2>3. \A x \in DOMAIN groups' : groups'[x] = IF x = id THEN g ELSE groups[x]
      BY <2>1 DEF Edited, EditConfiguration, With
    <2> DEFINE Owns(x) == /\ groups[x].status # "draft"
                          /\ groups[x].publishedAt <= at
                          /\ m \in groups[x].models
               OwnsThen(x) == /\ groups'[x].status # "draft"
                              /\ groups'[x].publishedAt <= at
                              /\ m \in groups'[x].models
    <2>4. CASE id \notin DOMAIN groups
      <3>1. g.status = "draft"
        BY <2>1, <2>4 DEF Edited
      <3>2. \A x \in DOMAIN groups' : OwnsThen(x) => x \in DOMAIN groups /\ Owns(x)
        BY <2>2, <2>3, <3>1
      <3>3. \A x \in DOMAIN groups : Owns(x) => OwnsThen(x)
        BY <2>2, <2>3, <2>4
      <3> QED
        BY <2>2, <3>2, <3>3 DEF Owners
    <2>5. CASE id \in DOMAIN groups /\ groups[id].status = "draft"
      <3>1. g.status = "draft" \/ g.publishedAt = clock
        BY <2>1, <2>5 DEF Edited, SeenBySomeone
      <3>2. at \in Nat /\ clock \in Nat
        BY CatalogAssumption DEF Inv, GroupsTyped
      <3>3. ~OwnsThen(id)
        BY <2>2, <2>3, <3>1, <3>2
      <3>4. ~Owns(id)
        BY <2>5
      <3>5. \A x \in DOMAIN groups : Owns(x) <=> OwnsThen(x)
        BY <2>2, <2>3, <3>3, <3>4
      <3>6. DOMAIN groups' = DOMAIN groups
        BY <2>2, <2>5
      <3> QED
        BY <3>5, <3>6 DEF Owners
    <2>6. CASE id \in DOMAIN groups /\ groups[id].status # "draft"
      <3>1. /\ g.status # "draft" /\ g.models = groups[id].models
            /\ g.publishedAt = groups[id].publishedAt
        BY <2>1, <2>6 DEF Edited, Follows
      <3>2. \A x \in DOMAIN groups : Owns(x) <=> OwnsThen(x)
        BY <2>2, <2>3, <2>6, <3>1
      <3>3. DOMAIN groups' = DOMAIN groups
        BY <2>2, <2>6
      <3> QED
        BY <3>2, <3>3 DEF Owners
    <2> QED
      BY <2>4, <2>5, <2>6
  <1> QED
    BY <1>1, <1>2, StepShapes DEF Untouched, SaveGroupPlan, EditConfiguration

(* Usage that arrives late is charged to the group that owned the model when  *)
(* its request began: publication, archival and clock changes since then do   *)
(* not matter (group_types.go, modelOwner).                                   *)
THEOREM PastOwnersStay == Spec => PastOwnersFixed
  <1>1. Inv /\ [Next]_vars =>
          [\A m \in Models, at \in Instants :
             at < clock => RequestOwners(m, at)' = RequestOwners(m, at)]_vars
    <2> SUFFICES ASSUME Inv, [Next]_vars, NEW m \in Models, NEW at \in Instants, at < clock
                 PROVE  RequestOwners(m, at)' = RequestOwners(m, at)
      OBVIOUS
    <2>1. Base[m] \in Models
      BY CatalogAssumption
    <2>2. Owners(m, at)' = Owners(m, at) /\ Owners(Base[m], at)' = Owners(Base[m], at)
      BY <2>1, PastOwnersKept
    <2> QED
      BY <2>2 DEF RequestOwners
  <1> QED
    BY <1>1, PagesShowRevisions, PTL DEF Spec, PastOwnersFixed

-----------------------------------------------------------------------------
(* Memory and tables *)

Mirrored == RestartRestores /\ DOMAIN tables.owners \subseteq Models

(* The models of a group that the tables will not change again do not change  *)
(* in memory either.                                                          *)
Grows(gs) ==
    /\ gs \in [DOMAIN gs -> Group]
    /\ DOMAIN groups \subseteq DOMAIN gs
    /\ \A id \in DOMAIN groups : groups[id].status # "draft" =>
          gs[id].status # "draft" /\ gs[id].models = groups[id].models

LEMMA EditsGrow ==
    ASSUME Inv, NEW id \in Groups, NEW g \in Group, Edited(id, g)
    PROVE  Grows(With(groups, id, g))
  <1> DEFINE gs == With(groups, id, g)
  <1>1. DOMAIN gs = DOMAIN groups \union {id}
    BY DEF With
  <1>2. \A x \in DOMAIN gs : gs[x] = IF x = id THEN g ELSE groups[x]
    BY DEF With
  <1>3. gs = [x \in DOMAIN gs |-> gs[x]]
    BY DEF With
  <1> HIDE DEF gs
  <1>4. \A x \in DOMAIN gs : gs[x] \in Group
    BY <1>1, <1>2 DEF Inv, GroupsTyped
  <1>5. gs \in [DOMAIN gs -> Group]
    BY <1>3, <1>4
  <1>6. \A x \in DOMAIN groups : groups[x].status # "draft" =>
          gs[x].status # "draft" /\ gs[x].models = groups[x].models
    BY <1>1, <1>2 DEF Edited, Follows
  <1>7. Grows(gs)
    BY <1>1, <1>5, <1>6 DEF Grows
  <1> QED
    BY <1>7 DEF gs

(* saveGroupedConfig followed by loadGroupedState gives back what was saved. *)
LEMMA SavedIsLoaded ==
    ASSUME Inv, Mirrored, NEW gs, NEW ps, EditConfiguration(gs, ps), Grows(gs)
    PROVE  Mirrored'
  <1>1. /\ DOMAIN tables.groups = DOMAIN groups
        /\ \A id \in DOMAIN groups : /\ tables.groups[id].status = groups[id].status
                                     /\ tables.models[id] = groups[id].models
    <2>1. LoadedGroups = groups
      BY DEF Mirrored, RestartRestores
    <2> QED
      BY <2>1 DEF LoadedGroups
  <1>2. tables' = Stored(gs, ps) /\ groups' = gs /\ plans' = ps /\ OwnersAccepted(gs)
    BY DEF EditConfiguration
  <1>3. \A id \in DOMAIN gs : StoredModels(gs)[id] = gs[id].models
    BY <1>1 DEF StoredModels, Grows
  <1>4. (LoadedGroups = groups)'
    <2>1. tables'.groups = [id \in DOMAIN gs |->
             [status |-> gs[id].status, enabled |-> gs[id].enabled,
              publishedAt |-> gs[id].publishedAt, revision |-> gs[id].revision]]
          /\ tables'.models = StoredModels(gs)
      BY <1>2 DEF Stored
    <2>2. LoadedGroups' = [id \in DOMAIN gs |->
             [status |-> gs[id].status, enabled |-> gs[id].enabled, models |-> gs[id].models,
              publishedAt |-> gs[id].publishedAt, revision |-> gs[id].revision]]
      BY <1>3, <2>1 DEF LoadedGroups
    <2>3. \A id \in DOMAIN gs : gs[id] =
             [status |-> gs[id].status, enabled |-> gs[id].enabled, models |-> gs[id].models,
              publishedAt |-> gs[id].publishedAt, revision |-> gs[id].revision]
      BY DEF Grows, Group
    <2>4. gs = [id \in DOMAIN gs |-> gs[id]]
      BY DEF Grows
    <2> QED
      BY <1>2, <2>2, <2>3, <2>4
  <1>5. (tables.plans = plans)'
    BY <1>2 DEF Stored
  <1> DEFINE owners == tables'.owners
  <1>6. /\ DOMAIN owners = DOMAIN tables.owners \union {n \in Models : Claims(gs, n) # {}}
        /\ \A m \in DOMAIN owners :
              owners[m] = IF m \in DOMAIN tables.owners THEN tables.owners[m] ELSE Owner(gs, m)
    BY <1>2 DEF Stored
  <1>7. ASSUME NEW m \in Models
        PROVE  Claims(gs, m) = IF m \in DOMAIN owners THEN {owners[m]} ELSE {}
    <2>1. CASE m \in DOMAIN tables.owners
      <3>1. Claims(groups, m) = {tables.owners[m]}
        BY <2>1 DEF Mirrored, RestartRestores
      <3>2. tables.owners[m] \in Claims(gs, m)
        BY <3>1 DEF Claims, Grows
      <3>3. Claims(gs, m) = {tables.owners[m]}
        BY <1>2, <3>2 DEF OwnersAccepted
      <3> QED
        BY <1>6, <2>1, <3>3
    <2>2. CASE m \notin DOMAIN tables.owners /\ Claims(gs, m) # {}
      <3>1. Owner(gs, m) \in Claims(gs, m)
        BY <2>2 DEF Owner
      <3>2. Claims(gs, m) = {Owner(gs, m)}
        BY <1>2, <3>1 DEF OwnersAccepted
      <3> QED
        BY <1>6, <2>2, <3>2
    <2>3. CASE m \notin DOMAIN tables.owners /\ Claims(gs, m) = {}
      BY <1>6, <2>3
    <2> QED
      BY <2>1, <2>2, <2>3
  <1>8. DOMAIN owners \subseteq Models
    BY <1>6 DEF Mirrored
  <1> QED
    BY <1>2, <1>4, <1>5, <1>7, <1>8 DEF Mirrored, RestartRestores, Claims

LEMMA MirroredNext == Inv /\ Mirrored /\ [Next]_vars => Mirrored'
  <1> SUFFICES ASSUME Inv, Mirrored, [Next]_vars PROVE Mirrored'
    OBVIOUS
  <1>1. CASE Untouched
    BY <1>1 DEF Untouched, Mirrored, RestartRestores, LoadedGroups, Claims
  <1>2. CASE \E id \in Groups, g \in Group : Edited(id, g)
    BY <1>2, EditsGrow, SavedIsLoaded DEF Edited
  <1>3. CASE \E p \in Plans, policies \in SUBSET Groups : SaveGroupPlan(p, policies)
    <2>1. Grows(groups)
      BY DEF Grows, Inv, GroupsTyped
    <2> QED
      BY <1>3, <2>1, SavedIsLoaded DEF SaveGroupPlan
  <1> QED
    BY <1>1, <1>2, <1>3, StepShapes

(* A restart finds the groups, owners and plans that memory held, although    *)
(* saveGroupedConfig (sqlite/groups.go:247) leaves the models of published    *)
(* groups and the owners it has alone.                                        *)
THEOREM RestartChangesNothing == Spec => []RestartRestores
  <1>1. Init => Mirrored
    BY DEF Init, Mirrored, RestartRestores, LoadedGroups, Claims
  <1>2. Mirrored => RestartRestores
    BY DEF Mirrored
  <1> QED
    BY <1>1, <1>2, MirroredNext, PagesShowRevisions, PTL DEF Spec

-----------------------------------------------------------------------------
(* Shared labels: what a call that is under way can rely on *)

CallSteps == {"idle", "inventory", "keys", "credentials", "select", "patch", "save"}

Calls == [step : CallSteps, edit : Edits \union {NoEdit}, known : SUBSET Subjects,
          labels : SUBSET Label, row : SUBSET Label]

RowIsOfKind(k, kind, id) ==
    remote[k][kind][id] # Gone => KindOf[remote[k][kind][id].subject] = kind

(* What the Keeper holds and what a call has collected of it. *)
LabelsTyped ==
    /\ remote \in [Instances -> [Kinds -> [Ids -> Row \union {Gone}]]]
    /\ \A k \in Instances, kind \in Kinds, id \in Ids : RowIsOfKind(k, kind, id)
    /\ late \subseteq [instance : Instances, kind : Kinds, id : Ids, value : Values]
    /\ keeper \in Instances \union {Disabled}
    /\ call \in Calls
    /\ call.step = "idle" => call = Idle
    /\ call.step # "idle" => keeper \in Instances
    /\ call.step \in {"select", "patch"} => call.edit \in Edits

(* A write that was answered belongs to the reading back that follows it. *)
TouchedWhileReadingBack ==
    touched => call.step \in {"keys", "credentials", "save"} /\ call.row # {}

(* A call under way has no answer yet. *)
AnswerIsOpen == call.step # "idle" => answer = "none"

(* The row of a label that an edit read is as it was read. *)
RowIs(l) ==
    remote[keeper][KindOf[call.edit.subject]][l.id] = [subject |-> call.edit.subject, value |-> l.value]

HasReadItsLabel ==
    \/ call.step = "select"
    \/ /\ call.step = "credentials" /\ call.row = {} /\ call.edit \in Edits
       /\ KindOf[call.edit.subject] = "downstream_key"

CheckIsFresh ==
    /\ call.step \in {"idle", "inventory", "keys"} => call.labels = {}
    /\ call.step = "credentials" => \A l \in call.labels : KindOf[l.subject] = "downstream_key"
    /\ HasReadItsLabel /\ ~disturbed =>
          \A l \in call.labels : l.subject = call.edit.subject => RowIs(l)
    /\ call.step = "patch" => \A l \in call.row :
          /\ call.edit.expected \in {Any, l.value}
          /\ ~disturbed => RowIs(l)

(* Until a call has asked the Keeper, or configure opened a database, what is *)
(* shown is what was shown. *)
ShownIsLastRead ==
    (/\ call.step = "idle" \/ (call.step = "inventory" /\ call.edit # NoEdit)
     /\ keeper # Disabled /\ ~Stale /\ ~unsaved /\ configuring = {})
       => current

KeeperInv == LabelsTyped /\ TouchedWhileReadingBack /\ AnswerIsOpen /\ CheckIsFresh /\ ShownIsLastRead

LEMMA KindsAreTwo ==
    /\ Kinds = {"downstream_key", "upstream_identity"} /\ Disabled \notin Instances
    /\ Gone \notin Row
    /\ \A s \in Subjects : KindOf[s] \in Kinds
  BY KeeperAssumption DEF Row

LEMMA IdleIsCall ==
    /\ Idle \in Calls
    /\ Idle.step = "idle" /\ Idle.edit = NoEdit /\ Idle.labels = {} /\ Idle.row = {}
  BY DEF Idle, Calls, CallSteps

LEMMA KeeperInvInit == KeeperInit => KeeperInv
  <1> SUFFICES ASSUME KeeperInit PROVE KeeperInv
    OBVIOUS
  <1>1. call = Idle /\ call.step = "idle" /\ call.labels = {} /\ call.row = {}
    BY DEF KeeperInit, Idle
  <1>2. remote \in [Instances -> [Kinds -> [Ids -> Row \union {Gone}]]]
    BY KeeperAssumption DEF KeeperInit, Row
  <1>3. \A k \in Instances, kind \in Kinds, id \in Ids : RowIsOfKind(k, kind, id)
    BY KeeperAssumption DEF KeeperInit, RowIsOfKind
  <1>4. LabelsTyped
    BY IdleIsCall, <1>1, <1>2, <1>3 DEF LabelsTyped, KeeperInit
  <1>5. TouchedWhileReadingBack /\ AnswerIsOpen /\ CheckIsFresh /\ ShownIsLastRead
    BY <1>1 DEF KeeperInit, TouchedWhileReadingBack, AnswerIsOpen, CheckIsFresh, HasReadItsLabel, ShownIsLastRead, Stale
  <1> QED
    BY <1>4, <1>5 DEF KeeperInv

-----------------------------------------------------------------------------
(* Steps of the Keeper and of the world around a call *)

(* Whoever changes the Keeper during a call disturbs it. *)
LEMMA KeeperChanges ==
    ASSUME KeeperInv,
           remote' \in [Instances -> [Kinds -> [Ids -> Row \union {Gone}]]],
           \A k \in Instances, kind \in Kinds, id \in Ids : RowIsOfKind(k, kind, id)',
           late' \subseteq [instance : Instances, kind : Kinds, id : Ids, value : Values],
           call # Idle => disturbed',
           UNCHANGED <<keeper, age, failed, configuring, call, answer, current, unsaved, touched>>
    PROVE  KeeperInv'
  <1>1. LabelsTyped'
    BY DEF KeeperInv, LabelsTyped
  <1>2. TouchedWhileReadingBack' /\ AnswerIsOpen' /\ ShownIsLastRead'
    BY DEF KeeperInv, TouchedWhileReadingBack, AnswerIsOpen, ShownIsLastRead, Stale
  <1>3. CheckIsFresh'
    <2>1. call.step # "idle" => disturbed'
      BY IdleIsCall
    <2> QED
      BY <2>1 DEF KeeperInv, CheckIsFresh, HasReadItsLabel
  <1> QED
    BY <1>1, <1>2, <1>3 DEF KeeperInv

(* What a write does to the rows: it changes the value of one that is there. *)
LEMMA WrittenIsTyped ==
    ASSUME KeeperInv,
           NEW w \in [instance : Instances, kind : Kinds, id : Ids, value : Values],
           remote' = Written(w)
    PROVE  /\ remote' \in [Instances -> [Kinds -> [Ids -> Row \union {Gone}]]]
           /\ \A k \in Instances, kind \in Kinds, id \in Ids : RowIsOfKind(k, kind, id)'
  <1> DEFINE old == remote[w.instance][w.kind][w.id]
             new == [old EXCEPT !.value = w.value]
  <1>1. /\ remote \in [Instances -> [Kinds -> [Ids -> Row \union {Gone}]]]
        /\ \A k \in Instances, kind \in Kinds, id \in Ids : RowIsOfKind(k, kind, id)
    BY DEF KeeperInv, LabelsTyped
  <1>2. CASE old = Gone
    BY <1>1, <1>2 DEF Written, RowIsOfKind
  <1>3. CASE old # Gone
    <2>1. old \in Row /\ w.value \in Values
      BY <1>1, <1>3
    <2>2. new \in Row /\ new.subject = old.subject
      BY <2>1 DEF Row
    <2>3. remote' = [remote EXCEPT ![w.instance][w.kind][w.id] = new]
      BY <1>1, <1>3 DEF Written
    <2> HIDE DEF new
    <2>4. remote' \in [Instances -> [Kinds -> [Ids -> Row \union {Gone}]]]
      BY <1>1, <2>2, <2>3
    <2>5. ASSUME NEW k \in Instances, NEW kind \in Kinds, NEW id \in Ids
          PROVE  RowIsOfKind(k, kind, id)'
      <3>1. remote'[k][kind][id] =
               IF k = w.instance /\ kind = w.kind /\ id = w.id THEN new ELSE remote[k][kind][id]
        BY <1>1, <2>3
      <3> QED
        BY <1>1, <1>3, <2>2, <3>1 DEF RowIsOfKind
    <2> QED
      BY <2>4, <2>5
  <1> QED
    BY <1>2, <1>3

LEMMA ForeignKeepsInv ==
    ASSUME KeeperInv, NEW k \in Instances, NEW kind \in Kinds, NEW id \in Ids,
           NEW row \in Row \union {Gone}, ForeignChange(k, kind, id, row)
    PROVE  KeeperInv'
  <1>1. /\ remote' = [remote EXCEPT ![k][kind][id] = row]
        /\ row # Gone => KindOf[row.subject] = kind
        /\ call # Idle => disturbed'
        /\ UNCHANGED <<late, keeper, age, failed, configuring, call, answer, current, unsaved, touched>>
    BY DEF ForeignChange, app
  <1>2. /\ remote \in [Instances -> [Kinds -> [Ids -> Row \union {Gone}]]]
        /\ \A j \in Instances, t \in Kinds, i \in Ids : RowIsOfKind(j, t, i)
        /\ late \subseteq [instance : Instances, kind : Kinds, id : Ids, value : Values]
    BY DEF KeeperInv, LabelsTyped
  <1>3. remote' \in [Instances -> [Kinds -> [Ids -> Row \union {Gone}]]]
    BY <1>1, <1>2
  <1>4. ASSUME NEW j \in Instances, NEW t \in Kinds, NEW i \in Ids PROVE RowIsOfKind(j, t, i)'
    <2>1. remote'[j][t][i] = IF j = k /\ t = kind /\ i = id THEN row ELSE remote[j][t][i]
      BY <1>1, <1>2
    <2> QED
      BY <1>1, <1>2, <2>1 DEF RowIsOfKind
  <1> QED
    BY <1>1, <1>2, <1>3, <1>4, KeeperChanges

LEMMA LateKeepsInv ==
    ASSUME KeeperInv, NEW w \in late, LateWrite(w) PROVE KeeperInv'
  <1>1. w \in [instance : Instances, kind : Kinds, id : Ids, value : Values]
    BY DEF KeeperInv, LabelsTyped
  <1>2. /\ remote' = Written(w) /\ late' = late \ {w}
        /\ call # Idle => disturbed'
        /\ UNCHANGED <<keeper, age, failed, configuring, call, answer, current, unsaved, touched>>
    BY DEF LateWrite, app
  <1>3. late' \subseteq [instance : Instances, kind : Kinds, id : Ids, value : Values]
    BY <1>2 DEF KeeperInv, LabelsTyped
  <1> QED
    BY <1>1, <1>2, <1>3, WrittenIsTyped, KeeperChanges

(* A call that ends marks what it leaves: as stale, as read, or as unsaved. *)
LEMMA EndKeepsInv ==
    ASSUME KeeperInv,
           remote' \in [Instances -> [Kinds -> [Ids -> Row \union {Gone}]]],
           \A k \in Instances, kind \in Kinds, id \in Ids : RowIsOfKind(k, kind, id)',
           late' \subseteq [instance : Instances, kind : Kinds, id : Ids, value : Values],
           keeper' \in Instances \union {Disabled},
           call' = Idle, ~touched', ShownIsLastRead'
    PROVE  KeeperInv'
  <1>1. call' \in Calls /\ call'.step = "idle" /\ call'.labels = {} /\ call'.row = {}
    BY IdleIsCall
  <1>2. LabelsTyped'
    BY <1>1 DEF LabelsTyped
  <1>3. TouchedWhileReadingBack' /\ AnswerIsOpen' /\ CheckIsFresh'
    BY <1>1 DEF TouchedWhileReadingBack, AnswerIsOpen, CheckIsFresh, HasReadItsLabel
  <1> QED
    BY <1>2, <1>3 DEF KeeperInv

LEMMA QuietEndKeepsInv ==
    ASSUME KeeperInv, UNCHANGED <<remote, late>>, keeper' \in Instances \union {Disabled},
           call' = Idle, ~touched', ShownIsLastRead'
    PROVE  KeeperInv'
  <1>1. /\ remote' \in [Instances -> [Kinds -> [Ids -> Row \union {Gone}]]]
        /\ late' \subseteq [instance : Instances, kind : Kinds, id : Ids, value : Values]
        /\ \A k \in Instances, kind \in Kinds, id \in Ids : RowIsOfKind(k, kind, id)'
    BY DEF KeeperInv, LabelsTyped, RowIsOfKind
  <1> QED
    BY <1>1, EndKeepsInv

LEMMA WorldKeepsInv ==
    ASSUME KeeperInv,
           \/ Tick
           \/ \E k \in Instances \union {Disabled} : Configure(k) \/ Reconnect(k) \/ Restart(k)
    PROVE  KeeperInv'
  <1>1. CASE Tick
    <2>1. /\ age < 2 /\ age' = age + 1
          /\ UNCHANGED <<remote, late, keeper, failed, configuring, call, answer, current, unsaved, touched,
                         disturbed>>
      BY <1>1 DEF Tick, history
    <2>2. LabelsTyped'
      BY <2>1 DEF KeeperInv, LabelsTyped, RowIsOfKind
    <2>3. TouchedWhileReadingBack' /\ AnswerIsOpen' /\ CheckIsFresh'
      BY <2>1 DEF KeeperInv, TouchedWhileReadingBack, AnswerIsOpen, CheckIsFresh, HasReadItsLabel, RowIs
    <2>4. age # 2
      BY <2>1
    <2>5. ShownIsLastRead'
      BY <2>1, <2>4 DEF KeeperInv, ShownIsLastRead, Stale
    <2> QED
      BY <2>2, <2>3, <2>5 DEF KeeperInv
  <1>2. ASSUME NEW k \in Instances \union {Disabled}, Configure(k) PROVE KeeperInv'
    <2>1. /\ configuring' # {}
          /\ UNCHANGED <<remote, late, keeper, call, answer, touched, disturbed>>
      BY <1>2 DEF Configure, app
    <2>2. LabelsTyped'
      BY <2>1 DEF KeeperInv, LabelsTyped, RowIsOfKind
    <2>3. TouchedWhileReadingBack' /\ AnswerIsOpen' /\ CheckIsFresh'
      BY <2>1 DEF KeeperInv, TouchedWhileReadingBack, AnswerIsOpen, CheckIsFresh, HasReadItsLabel, RowIs
    <2>4. ShownIsLastRead'
      BY <2>1 DEF ShownIsLastRead
    <2> QED
      BY <2>2, <2>3, <2>4 DEF KeeperInv
  <1>3. ASSUME NEW k \in Instances \union {Disabled}, Reconnect(k) \/ Restart(k) PROVE KeeperInv'
    <2>1. /\ keeper' = k /\ age' = 2 /\ UNCHANGED <<remote, late>>
          /\ Reconnect(k) => call = Idle /\ UNCHANGED <<call, touched>>
          /\ Restart(k) => call' = Idle /\ ~touched'
      BY <1>3 DEF Reconnect, Restart, Connected, Returned
    <2>2. call' = Idle /\ ~touched'
      <3>1. call = Idle => ~touched
        BY DEF KeeperInv, TouchedWhileReadingBack, Idle
      <3> QED
        BY <1>3, <2>1, <3>1
    <2>3. ShownIsLastRead'
      BY <2>1 DEF ShownIsLastRead, Stale
    <2> QED
      BY <2>1, <2>2, <2>3, QuietEndKeepsInv
  <1> QED
    BY <1>1, <1>2, <1>3

-----------------------------------------------------------------------------
(* Steps of a call *)

LEMMA BeginKeepsInv ==
    ASSUME KeeperInv, (\E force \in BOOLEAN : Refresh(force)) \/ (\E edit \in Edits : Update(edit))
    PROVE  KeeperInv'
  <1>0. call = Idle
    BY DEF Refresh, Update
  <1>1. call = Idle /\ call.step = "idle" /\ call.row = {} /\ ~touched
    BY <1>0, IdleIsCall DEF KeeperInv, TouchedWhileReadingBack, AnswerIsOpen
  <1>2. UNCHANGED <<remote, late, keeper, failed, configuring, current, unsaved, touched, disturbed>>
    BY DEF Refresh, Update, history, app
  <1>3. CASE \E force \in BOOLEAN : Refresh(force)
    <2>1. /\ call' = [Idle EXCEPT !.step = "inventory"] /\ keeper # Disabled /\ answer' = "none"
      BY <1>3 DEF Refresh
    <2>2. /\ call' \in Calls
          /\ call'.step = "inventory" /\ call'.edit = NoEdit /\ call'.labels = {} /\ call'.row = {}
      BY <2>1 DEF Idle, Calls, CallSteps
    <2>3. LabelsTyped'
      BY <1>2, <2>1, <2>2 DEF KeeperInv, LabelsTyped, RowIsOfKind
    <2>4. TouchedWhileReadingBack' /\ AnswerIsOpen' /\ CheckIsFresh' /\ ShownIsLastRead'
      BY <1>1, <1>2, <2>1, <2>2 DEF TouchedWhileReadingBack, AnswerIsOpen, CheckIsFresh, HasReadItsLabel, ShownIsLastRead
    <2> QED
      BY <2>3, <2>4 DEF KeeperInv
  <1>4. ASSUME NEW edit \in Edits, Update(edit) PROVE KeeperInv'
    <2>1. CASE keeper = Disabled
      <3>1. call' = call /\ keeper' = Disabled
        BY <1>2, <1>4, <2>1 DEF Update
      <3>2. ShownIsLastRead'
        BY <3>1 DEF ShownIsLastRead
      <3> QED
        BY <1>1, <1>2, <2>1, <3>1, <3>2, QuietEndKeepsInv
    <2>2. CASE keeper # Disabled
      <3>1. call' = [Idle EXCEPT !.step = "inventory", !.edit = edit] /\ age' = age /\ answer' = "none"
        BY <1>4, <2>2 DEF Update, app
      <3>2. call' \in Calls /\ call'.step = "inventory" /\ call'.labels = {} /\ call'.row = {}
        BY <3>1 DEF Idle, Calls, CallSteps
      <3>3. LabelsTyped'
        BY <1>2, <2>2, <3>2 DEF KeeperInv, LabelsTyped, RowIsOfKind
      <3>4. TouchedWhileReadingBack' /\ AnswerIsOpen' /\ CheckIsFresh'
        BY <1>1, <1>2, <3>1, <3>2 DEF TouchedWhileReadingBack, AnswerIsOpen, CheckIsFresh, HasReadItsLabel
      <3>5. ShownIsLastRead'
        BY <1>1, <1>2, <3>1, <3>2 DEF KeeperInv, ShownIsLastRead, Stale
      <3> QED
        BY <3>3, <3>4, <3>5 DEF KeeperInv
    <2> QED
      BY <2>1, <2>2
  <1> QED
    BY <1>3, <1>4

LEMMA FailureKeepsInv ==
    ASSUME KeeperInv, NEW result, Failed(result), UNCHANGED <<remote, late, current>>
    PROVE  KeeperInv'
  <1>1. call' = Idle /\ touched' = FALSE /\ failed' /\ keeper' = keeper
    BY DEF Failed, Ended, Returned
  <1>2. ShownIsLastRead'
    BY <1>1 DEF ShownIsLastRead, Stale
  <1>3. keeper \in Instances \union {Disabled}
    BY DEF KeeperInv, LabelsTyped
  <1> QED
    BY <1>1, <1>2, <1>3, QuietEndKeepsInv

LEMMA InventoryKeepsInv ==
    ASSUME KeeperInv, NEW known \in Inventories, RefreshInventory(known) PROVE KeeperInv'
  <1> DEFINE all == known \union {s \in Subjects : KindOf[s] = "downstream_key"}
  <1>1. /\ call.step = "inventory" /\ UNCHANGED <<remote, late, configuring, current>> /\ call.labels = {}
        /\ ~touched /\ answer = "none"
    BY DEF RefreshInventory, KeeperInv, CheckIsFresh, TouchedWhileReadingBack, AnswerIsOpen
  <1>2. CASE Ended("refused") /\ failed' = IF call.edit = NoEdit THEN TRUE ELSE failed
    <2>1. /\ call' = Idle /\ ~touched' /\ UNCHANGED <<keeper, age, unsaved>>
      BY <1>2 DEF Ended, Returned
    <2>2. keeper \in Instances \union {Disabled}
      BY DEF KeeperInv, LabelsTyped
    <2>3. ShownIsLastRead'
      BY <1>1, <1>2, <2>1 DEF KeeperInv, ShownIsLastRead, Stale
    <2> QED
      BY <1>1, <2>1, <2>2, <2>3, QuietEndKeepsInv
  <1>3. CASE /\ call' = [call EXCEPT !.step = "keys", !.known = all]
             /\ UNCHANGED <<app, cached, answer, unsaved, touched, disturbed, foreign>>
    <2>1. UNCHANGED <<keeper, age, failed, answer, unsaved, touched, disturbed>>
      BY <1>3 DEF app
    <2>2. all \subseteq Subjects /\ call \in Calls
      BY KeeperAssumption DEF KeeperInv, LabelsTyped
    <2> HIDE DEF all
    <2>3. /\ call' \in Calls /\ call'.step = "keys" /\ call'.edit = call.edit
          /\ call'.labels = call.labels /\ call'.row = call.row
      BY <1>3, <2>2 DEF Calls, CallSteps
    <2>4. LabelsTyped'
      BY <1>1, <2>1, <2>3 DEF KeeperInv, LabelsTyped, RowIsOfKind
    <2>5. TouchedWhileReadingBack' /\ AnswerIsOpen' /\ CheckIsFresh' /\ ShownIsLastRead'
      BY <1>1, <2>1, <2>3 DEF TouchedWhileReadingBack, AnswerIsOpen, CheckIsFresh, HasReadItsLabel, ShownIsLastRead
    <2> QED
      BY <2>4, <2>5 DEF KeeperInv
  <1> QED
    BY <1>1, <1>2, <1>3 DEF RefreshInventory

(* What a GET returns: labels of the kind, as the rows of the Keeper are. *)
LEMMA RowsAreLabels ==
    ASSUME KeeperInv, keeper \in Instances, NEW kind \in Kinds, NEW l \in Rows(remote[keeper], kind)
    PROVE  /\ l \in Label /\ KindOf[l.subject] = kind
           /\ remote[keeper][kind][l.id] = [subject |-> l.subject, value |-> l.value]
  <1> DEFINE table == remote[keeper]
  <1>1. table \in [Kinds -> [Ids -> Row \union {Gone}]]
    BY DEF KeeperInv, LabelsTyped
  <1>2. \A id \in Ids : RowIsOfKind(keeper, kind, id)
    BY DEF KeeperInv, LabelsTyped
  <1>3. PICK id \in Ids : /\ table[kind][id] # Gone
                          /\ l = [subject |-> table[kind][id].subject, id |-> id,
                                  value |-> table[kind][id].value]
    BY DEF Rows
  <1>4. table[kind][id] \in Row
    BY <1>1, <1>3
  <1> QED
    BY <1>2, <1>3, <1>4 DEF Row, Label, RowIsOfKind

LEMMA GetKeysKeepsInv == ASSUME KeeperInv, GetKeys PROVE KeeperInv'
  <1> DEFINE found == {l \in Rows(remote[keeper], "downstream_key") : l.subject \in call.known}
             labels == call.labels \union found
  <1>1. /\ call.step = "keys" /\ call.labels = {} /\ UNCHANGED <<remote, late>> /\ keeper \in Instances
        /\ call \in Calls /\ "downstream_key" \in Kinds
    BY KindsAreTwo DEF GetKeys, Get, KeeperInv, LabelsTyped, CheckIsFresh
  <1>2. \A l \in labels : /\ l \in Label /\ KindOf[l.subject] = "downstream_key"
                          /\ remote[keeper]["downstream_key"][l.id] = [subject |-> l.subject, value |-> l.value]
    BY <1>1, RowsAreLabels
  <1>3. CASE ReadingFailed /\ UNCHANGED current
    BY <1>1, <1>3, FailureKeepsInv DEF ReadingFailed
  <1>4. CASE /\ call' = [call EXCEPT !.labels = labels, !.step = "credentials"]
             /\ UNCHANGED current
             /\ disturbed' = (disturbed /\ ~ReadForCheck("downstream_key"))
             /\ UNCHANGED <<app, cached, answer, unsaved, touched, foreign>>
    <2> HIDE DEF labels
    <2>1. /\ call' \in Calls /\ call'.step = "credentials" /\ call'.edit = call.edit
          /\ call'.labels = labels /\ call'.row = call.row
      BY <1>1, <1>2, <1>4 DEF Calls, CallSteps
    <2>2. UNCHANGED <<keeper, age, failed, answer, unsaved, touched>>
      BY <1>4 DEF app
    <2>3. LabelsTyped'
      BY <1>1, <2>1, <2>2 DEF KeeperInv, LabelsTyped, RowIsOfKind
    <2>4. TouchedWhileReadingBack' /\ AnswerIsOpen' /\ ShownIsLastRead'
      BY <1>1, <2>1, <2>2 DEF KeeperInv, TouchedWhileReadingBack, AnswerIsOpen, ShownIsLastRead
    <2>5. CheckIsFresh'
      BY <1>1, <1>2, <2>1, <2>2 DEF CheckIsFresh, HasReadItsLabel, RowIs
    <2> QED
      BY <2>3, <2>4, <2>5 DEF KeeperInv
  <1> QED
    BY <1>3, <1>4 DEF GetKeys, Get

LEMMA GetCredentialsKeepsInv == ASSUME KeeperInv, GetCredentials PROVE KeeperInv'
  <1> DEFINE found == {l \in Rows(remote[keeper], "upstream_identity") : l.subject \in call.known}
             labels == call.labels \union found
             next == IF call.edit # NoEdit /\ call.row = {} THEN "select" ELSE "save"
  <1>1. /\ call.step = "credentials" /\ UNCHANGED <<remote, late>> /\ keeper \in Instances
        /\ call \in Calls /\ "upstream_identity" \in Kinds
        /\ call.labels \subseteq Label
        /\ \A l \in call.labels : KindOf[l.subject] = "downstream_key"
    BY KindsAreTwo DEF GetCredentials, Get, KeeperInv, LabelsTyped, CheckIsFresh, Calls
  <1>2. \A l \in found : /\ l \in Label /\ KindOf[l.subject] = "upstream_identity"
                         /\ remote[keeper]["upstream_identity"][l.id] = [subject |-> l.subject, value |-> l.value]
    BY <1>1, RowsAreLabels
  <1>3. CASE ReadingFailed /\ UNCHANGED current
    BY <1>1, <1>3, FailureKeepsInv DEF ReadingFailed
  <1>4. CASE /\ call' = [call EXCEPT !.labels = labels, !.step = next]
             /\ disturbed' = (disturbed /\ ~ReadForCheck("upstream_identity"))
             /\ UNCHANGED <<app, cached, answer, unsaved, touched, foreign>>
    <2>0. labels \subseteq Label /\ next \in {"select", "save"}
      BY <1>1, <1>2
    <2>1. /\ call' \in Calls /\ call'.step = next /\ call'.edit = call.edit
          /\ call'.labels = labels /\ call'.row = call.row
      <3> HIDE DEF labels, next
      <3> QED
        BY <1>1, <1>4, <2>0 DEF Calls, CallSteps
    <2>2. UNCHANGED <<keeper, age, failed, answer, unsaved, touched>>
      BY <1>4 DEF app
    <2>3. next = "select" => call.edit \in Edits /\ call.row = {}
      BY <1>1 DEF Calls
    <2>4. LabelsTyped'
      BY <1>1, <2>0, <2>1, <2>2, <2>3 DEF KeeperInv, LabelsTyped, RowIsOfKind
    <2>5. TouchedWhileReadingBack' /\ AnswerIsOpen'
      BY <1>1, <2>0, <2>1, <2>2, <2>3 DEF KeeperInv, TouchedWhileReadingBack, AnswerIsOpen
    <2>6. ShownIsLastRead'
      BY <2>0, <2>1 DEF ShownIsLastRead
    <2>7. ASSUME next = "select", ~disturbed', NEW l \in labels, l.subject = call.edit.subject
          PROVE  RowIs(l)
      <3>1. call.edit \in Edits /\ call.row = {} /\ call.edit.subject \in Subjects
        BY <2>3, <2>7 DEF Edits
      <3>2. CASE KindOf[call.edit.subject] = "downstream_key"
        <4>1. l \in call.labels
          BY <1>2, <2>7, <3>2
        <4>2. ~disturbed
          BY <1>4, <2>7, <3>2 DEF ReadForCheck
        <4>3. HasReadItsLabel
          BY <1>1, <3>1, <3>2 DEF HasReadItsLabel
        <4> QED
          BY <2>7, <4>1, <4>2, <4>3 DEF KeeperInv, CheckIsFresh
      <3>3. CASE KindOf[call.edit.subject] # "downstream_key"
        <4>1. KindOf[call.edit.subject] = "upstream_identity"
          BY <3>1, <3>3, KindsAreTwo
        <4>2. l \in found
          BY <1>1, <2>7, <3>3
        <4> QED
          BY <1>2, <2>7, <4>1, <4>2 DEF RowIs
      <3> QED
        BY <3>2, <3>3
    <2>8. CheckIsFresh'
      <3> HIDE DEF labels, next
      <3> QED
        BY <1>1, <2>0, <2>1, <2>2, <2>7 DEF CheckIsFresh, HasReadItsLabel, RowIs
    <2> QED
      BY <2>4, <2>5, <2>6, <2>8 DEF KeeperInv
  <1> QED
    BY <1>3, <1>4 DEF GetCredentials, Get

LEMMA SelectKeepsInv == ASSUME KeeperInv, Select PROVE KeeperInv'
  <1>1. /\ call.step = "select" /\ UNCHANGED <<remote, late, current>> /\ keeper \in Instances
        /\ call \in Calls /\ call.edit \in Edits
    BY DEF Select, KeeperInv, LabelsTyped
  <1>2. CASE Failed("refused")
    BY <1>1, <1>2, FailureKeepsInv
  <1>3. ASSUME NEW l \in call.labels, l.subject = call.edit.subject,
               call.edit.expected \in {Any, l.value},
               call' = [call EXCEPT !.step = "patch", !.row = {l}],
               UNCHANGED <<app, cached, answer, unsaved, touched, disturbed, foreign>>
        PROVE  KeeperInv'
    <2>1. l \in Label
      BY <1>1 DEF Calls
    <2>2. /\ call' \in Calls /\ call'.step = "patch" /\ call'.edit = call.edit
          /\ call'.labels = call.labels /\ call'.row = {l}
      BY <1>1, <1>3, <2>1 DEF Calls, CallSteps
    <2>3. UNCHANGED <<keeper, age, failed, answer, unsaved, touched, disturbed>>
      BY <1>3 DEF app
    <2>4. ~disturbed => RowIs(l)
      BY <1>1, <1>3 DEF KeeperInv, CheckIsFresh, HasReadItsLabel
    <2>5. LabelsTyped'
      BY <1>1, <2>2, <2>3 DEF KeeperInv, LabelsTyped, RowIsOfKind
    <2>6. TouchedWhileReadingBack' /\ AnswerIsOpen' /\ ShownIsLastRead'
      BY <1>1, <2>2, <2>3 DEF KeeperInv, TouchedWhileReadingBack, AnswerIsOpen, ShownIsLastRead
    <2>7. CheckIsFresh'
      BY <1>1, <1>3, <2>2, <2>3, <2>4 DEF CheckIsFresh, HasReadItsLabel, RowIs
    <2> QED
      BY <2>5, <2>6, <2>7 DEF KeeperInv
  <1> QED
    BY <1>2, <1>3 DEF Select

LEMMA PatchKeepsInv == ASSUME KeeperInv, Patch PROVE KeeperInv'
  <1>1. PICK l \in call.row :
           LET w == [instance |-> keeper, kind |-> KindOf[l.subject], id |-> l.id,
                     value |-> call.edit.value] IN
           \/ Failed("refused") /\ UNCHANGED <<remote, late>>
           \/ /\ Failed("write_outcome_unknown")
              /\ \/ remote' = Written(w) /\ UNCHANGED late
                 \/ late' = late \union {w} /\ UNCHANGED remote
                 \/ UNCHANGED <<late, remote>>
           \/ /\ remote' = Written(w) /\ touched'
              /\ call' = [call EXCEPT !.step = "keys", !.labels = {}]
              /\ UNCHANGED <<late, app, answer, unsaved>>
    BY DEF Patch
  <1> DEFINE w == [instance |-> keeper, kind |-> KindOf[l.subject], id |-> l.id,
                   value |-> call.edit.value]
  <1>2. /\ call.step = "patch" /\ UNCHANGED current /\ keeper \in Instances
        /\ call \in Calls /\ call.edit \in Edits
        /\ late \subseteq [instance : Instances, kind : Kinds, id : Ids, value : Values]
    BY DEF Patch, KeeperInv, LabelsTyped
  <1>3. w \in [instance : Instances, kind : Kinds, id : Ids, value : Values]
    <2>1. l \in Label /\ KindOf[l.subject] \in Kinds
      BY <1>2, KindsAreTwo DEF Calls, Label
    <2> QED
      BY <1>2, <2>1 DEF Edits, Label
  <1> HIDE DEF w
  <1>4. remote' = Written(w) =>
          /\ remote' \in [Instances -> [Kinds -> [Ids -> Row \union {Gone}]]]
          /\ \A k \in Instances, kind \in Kinds, id \in Ids : RowIsOfKind(k, kind, id)'
    BY <1>3, WrittenIsTyped
  <1>5. remote' = remote =>
          /\ remote' \in [Instances -> [Kinds -> [Ids -> Row \union {Gone}]]]
          /\ \A k \in Instances, kind \in Kinds, id \in Ids : RowIsOfKind(k, kind, id)'
    BY DEF KeeperInv, LabelsTyped, RowIsOfKind
  <1>6. ASSUME NEW result, Failed(result), remote' \in {remote, Written(w)},
               late' \in {late, late \union {w}}
        PROVE  KeeperInv'
    <2>1. call' = Idle /\ ~touched' /\ failed' /\ keeper' = keeper
      BY <1>6 DEF Failed, Ended, Returned
    <2>2. ShownIsLastRead'
      BY <2>1 DEF ShownIsLastRead, Stale
    <2>3. late' \subseteq [instance : Instances, kind : Kinds, id : Ids, value : Values]
      BY <1>2, <1>3, <1>6
    <2> QED
      BY <1>2, <1>4, <1>5, <1>6, <2>1, <2>2, <2>3, EndKeepsInv
  <1>7. CASE /\ remote' = Written(w) /\ touched'
             /\ call' = [call EXCEPT !.step = "keys", !.labels = {}]
             /\ UNCHANGED <<late, app, answer, unsaved>>
    <2>1. /\ call' \in Calls /\ call'.step = "keys" /\ call'.edit = call.edit
          /\ call'.labels = {} /\ call'.row = call.row
      BY <1>2, <1>7 DEF Calls, CallSteps
    <2>2. UNCHANGED <<late, keeper, age, failed, unsaved>> /\ call'.row # {} /\ answer' = "none"
      BY <1>2, <1>7, <2>1 DEF app, KeeperInv, TouchedWhileReadingBack, AnswerIsOpen
    <2>3. LabelsTyped'
      BY <1>2, <1>4, <1>7, <2>1, <2>2 DEF LabelsTyped
    <2>4. TouchedWhileReadingBack' /\ AnswerIsOpen' /\ CheckIsFresh' /\ ShownIsLastRead'
      BY <2>1, <2>2 DEF TouchedWhileReadingBack, AnswerIsOpen, CheckIsFresh, HasReadItsLabel, ShownIsLastRead
    <2> QED
      BY <2>3, <2>4 DEF KeeperInv
  <1> QED
    BY <1>1, <1>6, <1>7 DEF w

LEMMA SaveKeepsInv == ASSUME KeeperInv, Save PROVE KeeperInv'
  <1>1. call.step = "save" /\ UNCHANGED <<remote, late>> /\ keeper \in Instances \union {Disabled}
    BY DEF Save, KeeperInv, LabelsTyped
  <1>2. ASSUME NEW result, Failed(result), UNCHANGED current PROVE KeeperInv'
    BY <1>1, <1>2, FailureKeepsInv
  <1>3. CASE Saved
    <2>1. call' = Idle /\ ~touched' /\ current' /\ keeper' = keeper
      BY <1>3 DEF Saved, Returned
    <2>2. ShownIsLastRead'
      BY <2>1 DEF ShownIsLastRead
    <2> QED
      BY <1>1, <2>1, <2>2, QuietEndKeepsInv
  <1>4. CASE Returned /\ unsaved' = TRUE /\ UNCHANGED app
    <2>1. call' = Idle /\ ~touched' /\ unsaved' /\ keeper' = keeper
      BY <1>4 DEF Returned, app
    <2>2. ShownIsLastRead'
      BY <2>1 DEF ShownIsLastRead
    <2> QED
      BY <1>1, <2>1, <2>2, QuietEndKeepsInv
  <1> QED
    BY <1>2, <1>3, <1>4 DEF Save

-----------------------------------------------------------------------------
(* Shared labels: every step, and what follows *)

LEMMA KeeperInvNext == KeeperInv /\ [KeeperNext]_keeperVars => KeeperInv'
  <1> SUFFICES ASSUME KeeperInv, [KeeperNext]_keeperVars PROVE KeeperInv'
    OBVIOUS
  <1>1. CASE UNCHANGED keeperVars
    <2>1. UNCHANGED <<remote, late, keeper, age, failed, cached, configuring, call, answer, current, unsaved,
                      touched, disturbed>>
      BY <1>1 DEF keeperVars, app, history
    <2>2. LabelsTyped'
      BY <2>1 DEF KeeperInv, LabelsTyped, RowIsOfKind
    <2>3. TouchedWhileReadingBack' /\ AnswerIsOpen' /\ CheckIsFresh' /\ ShownIsLastRead'
      BY <2>1 DEF KeeperInv, TouchedWhileReadingBack, AnswerIsOpen, CheckIsFresh, HasReadItsLabel, RowIs,
                  ShownIsLastRead, Stale
    <2> QED
      BY <2>2, <2>3 DEF KeeperInv
  <1>2. CASE KeeperNext
    BY <1>2, ForeignKeepsInv, LateKeepsInv, WorldKeepsInv, BeginKeepsInv, InventoryKeepsInv,
       GetKeysKeepsInv, GetCredentialsKeepsInv, SelectKeepsInv, PatchKeepsInv, SaveKeepsInv
    DEF KeeperNext
  <1> QED
    BY <1>1, <1>2

LEMMA KeeperInvAlways == KeeperSpec => []KeeperInv
  BY KeeperInvInit, KeeperInvNext, PTL DEF KeeperSpec

(* What the cache of labels holds, and how old the client's state is. *)
CacheTyped ==
    /\ age \in 0..2 /\ cached \in [Instances -> SUBSET Label]
    /\ configuring \subseteq Instances \union {Disabled}

LEMMA DatabasesAreTyped == Databases \subseteq [Instances -> SUBSET Label]
  BY KeeperAssumption DEF Label

LEMMA CacheTypedNext ==
    ASSUME KeeperInv, CacheTyped, [KeeperNext]_keeperVars
    PROVE  CacheTyped'
  <1>1. call.labels \in SUBSET Label
    BY DEF KeeperInv, LabelsTyped, Calls
  <1>2. age' \in 0..2
    <2>0. age \in 0..2
      BY DEF CacheTyped
    <2>1. CASE Select \/ GetKeys \/ GetCredentials
      BY <2>0, <2>1 DEF GetKeys, GetCredentials, Get, ReadingFailed, Select, Failed, Ended, app
    <2>2. CASE Patch
      BY <2>0, <2>2 DEF Patch, Failed, Ended, app
    <2>3. CASE Save
      <3>1. CASE Failed("refused") \/ Failed("write_outcome_unknown") \/ UNCHANGED app
        BY <2>0, <3>1 DEF Failed, Ended, app
      <3>2. CASE UNCHANGED age \/ age' = 0
        BY <2>0, <3>2
      <3> QED
        BY <2>3, <3>1, <3>2 DEF Save
    <2>4. CASE \E k \in Instances \union {Disabled} : Configure(k) \/ Reconnect(k) \/ Restart(k)
      BY <2>0, <2>4 DEF Configure, Reconnect, Restart, Connected, app
    <2>5. CASE Tick \/ \E force \in BOOLEAN : Refresh(force)
      BY <2>0, <2>5 DEF Tick, Refresh
    <2>6. CASE UNCHANGED age
      BY <2>0, <2>6
    <2>7. CASE \E known \in Inventories : RefreshInventory(known)
      BY <2>0, <2>7 DEF RefreshInventory, Ended, app
    <2> QED
      BY <2>1, <2>2, <2>3, <2>4, <2>5, <2>6, <2>7
      DEF KeeperNext, keeperVars, app, ForeignChange, LateWrite, Update
  <1>3. cached' = [cached EXCEPT ![keeper] = call.labels] \/ UNCHANGED cached \/ cached' \in Databases
    <2>1. CASE Select \/ GetKeys \/ GetCredentials
      BY <2>1 DEF GetKeys, GetCredentials, Get, ReadingFailed, Select, Failed, Ended
    <2>2. CASE Patch \/ Save
      BY <2>2 DEF Patch, Save, Saved, Failed, Ended
    <2>3. CASE \E k \in Instances \union {Disabled} : Configure(k) \/ Reconnect(k) \/ Restart(k)
      BY <2>3 DEF Configure, Reconnect, Restart, Connected
    <2>4. CASE UNCHANGED cached
      BY <2>4
    <2> QED
      BY <2>1, <2>2, <2>3, <2>4 DEF KeeperNext, keeperVars, ForeignChange, LateWrite, Tick, Refresh, Update,
         RefreshInventory, Ended
  <1>4. configuring' \subseteq Instances \union {Disabled}
    <2>0. configuring \subseteq Instances \union {Disabled}
      BY DEF CacheTyped
    <2>1. CASE \E k \in Instances \union {Disabled} : Configure(k) \/ Reconnect(k) \/ Restart(k)
      BY <2>0, <2>1 DEF Configure, Reconnect, Restart
    <2>2. CASE UNCHANGED configuring
      BY <2>0, <2>2
    <2> QED
      BY <2>1, <2>2 DEF KeeperNext, keeperVars, ForeignChange, LateWrite, Tick, Refresh, Update,
         RefreshInventory, GetKeys, GetCredentials, Get, Select, Patch, Save
  <1> QED
    BY <1>1, <1>2, <1>3, <1>4, DatabasesAreTyped DEF CacheTyped

(* Whatever a call has collected when it fails, restarts or saves, the       *)
(* Keeper holds rows and the cache (CacheSharedLabels) holds labels.         *)
THEOREM LabelsKeepTheirTypes == KeeperSpec => []KeeperTypeOK
  <1>1. KeeperInit => CacheTyped
    BY DatabasesAreTyped DEF KeeperInit, CacheTyped
  <1>2. KeeperInv /\ CacheTyped => KeeperTypeOK
    BY DEF KeeperInv, LabelsTyped, Calls, CacheTyped, KeeperTypeOK
  <1> QED
    BY <1>1, <1>2, CacheTypedNext, KeeperInvAlways, PTL DEF KeeperSpec

(* Labels that sharedLabels lists as current are those of the last whole   *)
(* reading of the configured Keeper, whatever calls, failures, restarts,   *)
(* databases and other clients came in between: but for labels that an     *)
(* edit read back and the database refused, and while configure has opened *)
(* a database and not yet connected anew.                                  *)
THEOREM ShownLabelsAreLastRead == KeeperSpec => []CurrentIsLastRead
  <1>1. KeeperInv => CurrentIsLastRead
    BY DEF KeeperInv, ShownIsLastRead, CurrentIsLastRead, Idle
  <1> QED
    BY <1>1, KeeperInvAlways, PTL

(* Only a write that is certain not to have been carried out, and not to   *)
(* be carried out later, is answered as refused.                           *)
THEOREM RefusedEditsAreUntouched == KeeperSpec => RefusedMeansUntouched
  <1>1. ASSUME KeeperInv, [KeeperNext]_keeperVars, call # Idle, call' = Idle, answer' = "refused"
        PROVE  ~touched /\ UNCHANGED <<remote, late>>
    <2>1. CASE \/ \E k \in Instances, kind \in Kinds, id \in Ids, row \in Row \union {Gone} :
                    ForeignChange(k, kind, id, row)
               \/ \E w \in late : LateWrite(w)
               \/ Tick
               \/ \E k \in Instances \union {Disabled} : Configure(k) \/ Reconnect(k) \/ Restart(k)
               \/ UNCHANGED keeperVars
      BY <1>1, <2>1 DEF ForeignChange, LateWrite, Tick, Configure, Reconnect, Restart, keeperVars
    <2>2. CASE (\E force \in BOOLEAN : Refresh(force)) \/ (\E edit \in Edits : Update(edit))
      BY <1>1, <2>2 DEF Refresh, Update
    <2>3. CASE \E known \in Inventories : RefreshInventory(known)
      BY <1>1, <2>3 DEF RefreshInventory, KeeperInv, TouchedWhileReadingBack, AnswerIsOpen
    <2>4. CASE GetKeys \/ GetCredentials
      <3>1. UNCHANGED <<remote, late>>
        BY <2>4 DEF GetKeys, GetCredentials, Get
      <3>2. CASE ReadingFailed
        BY <1>1, <3>1, <3>2 DEF ReadingFailed, Failed, Ended, KeeperInv, TouchedWhileReadingBack, AnswerIsOpen
      <3>3. CASE ~ReadingFailed
        <4>1. call'.step \in {"credentials", "select", "save"}
          BY <1>1, <2>4, <3>3 DEF GetKeys, GetCredentials, Get, KeeperInv, LabelsTyped, Calls
        <4> QED
          BY <1>1, <4>1 DEF Idle
      <3> QED
        BY <3>2, <3>3
    <2>5. CASE Select
      BY <1>1, <2>5 DEF Select, KeeperInv, TouchedWhileReadingBack, AnswerIsOpen
    <2>6. CASE Patch
      <3>0. call.step = "patch"
        BY <2>6 DEF Patch
      <3>1. ~touched
        BY <1>1, <3>0 DEF KeeperInv, TouchedWhileReadingBack, AnswerIsOpen
      <3>2. CASE Failed("write_outcome_unknown")
        BY <1>1, <3>2 DEF Failed, Ended
      <3>3. CASE call' = [call EXCEPT !.step = "keys", !.labels = {}]
        <4>1. call'.step = "keys"
          BY <1>1, <3>3 DEF KeeperInv, LabelsTyped, Calls
        <4> QED
          BY <1>1, <4>1 DEF Idle
      <3> QED
        BY <2>6, <3>1, <3>2, <3>3 DEF Patch
    <2>7. CASE Save
      <3>0. answer = "none"
        BY <1>1, <2>7 DEF Save, KeeperInv, TouchedWhileReadingBack, AnswerIsOpen
      <3>1. answer' # "refused"
        BY <3>0, <2>7 DEF Save, Failed, Ended
      <3> QED
        BY <1>1, <3>1
    <2> QED
      BY <1>1, <2>1, <2>2, <2>3, <2>4, <2>5, <2>6, <2>7 DEF KeeperNext
  <1>2. KeeperInv /\ [KeeperNext]_keeperVars =>
          [call # Idle /\ call' = Idle /\ answer' = "refused"
             => ~touched /\ UNCHANGED <<remote, late>>]_keeperVars
    BY <1>1
  <1> QED
    BY <1>2, KeeperInvAlways, PTL DEF KeeperSpec, RefusedMeansUntouched

(* The row that an edit overwrites, unless another client was faster, is   *)
(* its subject's, and holds the value that the edit expected and read.     *)
THEOREM EditsOverwriteWhatTheyChecked == KeeperSpec => OverwritesWhatItChecked
  <1>1. ASSUME KeeperInv, [KeeperNext]_keeperVars, NEW l \in call.row, call.step = "patch",
               call'.step # "patch", remote' # remote, ~disturbed
        PROVE  /\ remote[keeper][KindOf[call.edit.subject]][l.id]
                      = [subject |-> call.edit.subject, value |-> l.value]
               /\ call.edit.expected \in {Any, l.value}
    BY <1>1 DEF KeeperInv, CheckIsFresh, RowIs
  <1>2. KeeperInv /\ [KeeperNext]_keeperVars =>
          [\A l \in call.row :
              (/\ call.step = "patch" /\ call'.step # "patch" /\ remote' # remote /\ ~disturbed)
                 => /\ remote[keeper][KindOf[call.edit.subject]][l.id]
                          = [subject |-> call.edit.subject, value |-> l.value]
                    /\ call.edit.expected \in {Any, l.value}]_keeperVars
    BY <1>1
  <1> QED
    BY <1>2, KeeperInvAlways, PTL DEF KeeperSpec, OverwritesWhatItChecked

=============================================================================
