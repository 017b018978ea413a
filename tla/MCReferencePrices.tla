--------------------------- MODULE MCReferencePrices ---------------------------
(* Two host calls, two databases, one price a catalogue may give the model. *)
EXTENDS ReferencePrices, TLC

MCBackoffs == {1}
MCSymmetry == Permutations(Callers) \union Permutations(Managers)
================================================================================
