--------------------------- MODULE MCStoreWriteBack ---------------------------
(* Instances of StoreWriteBack for TLC. *)
EXTENDS StoreWriteBack, TLC

Symmetry == Permutations(Callers) \union Permutations(Parts) \union Permutations(Usage)
                \union Permutations(Other) \union Permutations(Files)

================================================================================
