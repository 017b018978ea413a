------------------------------ MODULE MCKeyQuota ------------------------------
(* Instances of KeyQuota for TLC. *)
EXTENDS KeyQuota

MCDraft(period, anchor, limit) ==
    [period |-> period, anchor |-> anchor, limit |-> [m \in Metrics |-> limit]]

MCDrafts == {MCDraft(2, NoTime, 1), MCDraft(2, NoTime, 2), MCDraft(3, NoTime, 1),
             MCDraft(2, 2, 1), MCDraft(2, 3, 1), MCDraft(2, 4, 2), MCDraft(3, 3, 1)}
MCUsages == {[m \in Metrics |-> 1]}
Symmetry == Permutations(PlanIds) \union Permutations(WindowIds)

=============================================================================
