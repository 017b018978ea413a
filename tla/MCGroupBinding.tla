---------------------------- MODULE MCGroupBinding ----------------------------
(* Instances of GroupBinding for TLC: days of two instants. *)
EXTENDS GroupBinding, TLC

MCInstants == 0..5
MCNextMidnight == [t \in MCInstants |-> 2 * (t \div 2) + 2]
Symmetry == Permutations(Plans) \union Permutations(Admins)

=============================================================================
