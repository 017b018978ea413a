------------------------------ MODULE GroupBudget ------------------------------
(***************************************************************************)
(* What the group ledger promises for a budget, that is a key, a group and *)
(* a business day: the amount used only grows with usage that began since  *)
(* the last reset, a reset forgives everything used so far, and a budget   *)
(* that missed an amount is closed for good.                               *)
(***************************************************************************)
EXTENDS Naturals

CONSTANTS
    Budgets,
    Instants,
    Amounts,
    Never     \* no reset yet

VARIABLES
    used,     \* amount counted against the daily limit
    since,    \* instant of the last reset
    closed    \* an amount could not be booked

vars == <<used, since, closed>>

Counts(k, at) == since[k] # Never => since[k] <= at

Init ==
    /\ used = [k \in Budgets |-> 0]
    /\ since = [k \in Budgets |-> Never]
    /\ closed = [k \in Budgets |-> FALSE]

(* Usage of a request that began at an instant, whenever it arrives. *)
Charge(k, at, amount) ==
    /\ used' = [used EXCEPT ![k] = IF Counts(k, at) THEN @ + amount ELSE @]
    /\ UNCHANGED <<since, closed>>

Forgive(k, now) ==
    /\ Counts(k, now)
    /\ used' = [used EXCEPT ![k] = 0]
    /\ since' = [since EXCEPT ![k] = now]
    /\ UNCHANGED closed

CloseForGood(k) ==
    /\ closed' = [closed EXCEPT ![k] = TRUE]
    /\ UNCHANGED <<used, since>>

Next ==
    \E k \in Budgets :
        \/ \E at \in Instants, amount \in Amounts : Charge(k, at, amount)
        \/ \E now \in Instants : Forgive(k, now)
        \/ CloseForGood(k)

Spec == Init /\ [][Next]_vars

=============================================================================
