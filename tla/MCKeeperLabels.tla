--------------------------- MODULE MCKeeperLabels ---------------------------
(* One Keeper whose two ids hold two credentials: a row can go from one *)
(* credential to the other, and a credential from one row to the other. *)
EXTENDS KeeperLabels

CONSTANTS k1, c1, c2

MCKindOf == [s \in Subjects |-> "upstream_identity"]

MCInventories == {{c1}, {c1, c2}}

Named(s) == [subject |-> s, value |-> "x"]

MCTables == {[kind \in Kinds |->
    IF kind = "downstream_key" THEN [id \in Ids |-> Gone] ELSE <<Named(c1), Named(c2)>>]}

(* Another database, with an older label of one credential. *)
MCDatabases == {[k \in Instances |-> {[subject |-> c1, id |-> 1, value |-> "y"]}]}

=============================================================================
