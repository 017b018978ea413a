--------------------------- MODULE MCGroupCatalog ---------------------------
(* Two groups over a model and its variant with a thinking option. *)
EXTENDS GroupCatalog, TLC

CONSTANTS plain, thinking

MCBase == [m \in Models |-> plain]

Symmetry == Permutations(Groups) \union Permutations(Admins)

=============================================================================
