------------------------------ MODULE DurableStore -----------------------------
(***************************************************************************)
(* What StoreWriteBack promises of the billing state: one working set, and *)
(* database files that only ever receive it whole.  Live changes may wait  *)
(* for a later write; an edit is stored the moment it is acknowledged; a   *)
(* crash or a change of file loses what waits, never part of it.           *)
(***************************************************************************)
CONSTANTS Parts, Ops, Files, NoFile

VARIABLES
    working,    \* the changes each part of the state has seen
    stored,     \* the same for the contents of each database file
    open        \* the file in use

vars == <<working, stored, open>>

Fresh == [p \in Parts |-> {}]

Init == working = Fresh /\ stored = [f \in Files |-> Fresh] /\ open = NoFile

Changed(op, touched) ==
    [p \in Parts |-> IF p \in touched THEN working[p] \union {op} ELSE working[p]]

(* A change that waits for a later write, or that no file can take. *)
Change ==
    /\ \E op \in Ops, touched \in SUBSET Parts : working' = Changed(op, touched)
    /\ UNCHANGED <<stored, open>>

(* A write stores all of the working set, changes that waited included. *)
Flush ==
    /\ open \in Files
    /\ \/ UNCHANGED working
       \/ \E op \in Ops, touched \in SUBSET Parts : working' = Changed(op, touched)
    /\ stored' = [stored EXCEPT ![open] = working']
    /\ UNCHANGED open

Open(f) == open' = f /\ working' = stored[f] /\ UNCHANGED stored

Shut == open' = NoFile /\ working' \in {working, Fresh} /\ UNCHANGED stored

Next == Change \/ Flush \/ Shut \/ \E f \in Files : Open(f)

Spec == Init /\ [][Next]_vars
================================================================================
