---------------------------- MODULE BindingPeriods ----------------------------
(***************************************************************************)
(* The billing mode of a key over time: half-open periods that begin and   *)
(* end at midnight in the plugin's time zone.  Shared by GroupBinding and  *)
(* GroupLedger, two systems over the same clock and the same periods.      *)
(*                                                                         *)
(* The list of periods of the code is a set here: binding() returns the    *)
(* first period that covers an instant, and GroupBinding shows that there  *)
(* is never a second one.                                                  *)
(***************************************************************************)
EXTENDS Naturals

CONSTANTS
    Scopes,        \* hashed API keys
    Plans,         \* ids of group plans
    Legacy,        \* mode legacy, which has no plan
    Open,          \* a null effective_to
    Instants,      \* instants the clock may show
    NextMidnight   \* nextGroupDay: the first midnight after an instant

ASSUME PlansAssumption == Legacy \notin Plans

ASSUME CalendarAssumption ==
    /\ Instants \subseteq Nat
    /\ Open \notin Nat
    /\ NextMidnight \in [Instants -> Nat]
    /\ \A t \in Instants : t < NextMidnight[t]
    /\ \A t, u \in Instants :
         t <= u => /\ NextMidnight[t] <= NextMidnight[u]
                   /\ u < NextMidnight[t] => NextMidnight[u] = NextMidnight[t]

VARIABLES
    clock,     \* Store.Now()
    periods    \* GroupKeyBinding.Periods, a set of periods for each key

Modes == Plans \union {Legacy}

(* groupDate: a business day is named by the midnight that ends it. *)
Dates == {NextMidnight[t] : t \in Instants}

Period == [plan : Modes, from : Nat, to : Nat \union {Open}]

Covers(p, t) == p.from <= t /\ (p.to # Open => t < p.to)

(* binding: no period means legacy. *)
ModeAt(P, t) ==
    IF \E p \in P : Covers(p, t)
    THEN (CHOOSE p \in P : Covers(p, t)).plan
    ELSE Legacy

GroupedAt(P, t) == ModeAt(P, t) # Legacy

ClosedBy(p, boundary) ==
    IF p.to = Open \/ (p.to # Open /\ boundary < p.to) THEN [p EXCEPT !.to = boundary] ELSE p

RescheduledKeepsPending(P, mode, now) ==
    {ClosedBy(p, NextMidnight[now]) : p \in {q \in P : q.from < NextMidnight[now]}}
        \union {q \in P : NextMidnight[now] <= q.from}
        \union {[plan |-> mode, from |-> NextMidnight[now], to |-> Open]}

RescheduledAtOnce(P, mode, now) ==
    {ClosedBy(p, now) : p \in {q \in P : q.from < now}}
        \union {[plan |-> mode, from |-> now, to |-> Open]}

(* ScheduleGroupBinding: the pending period, if any, is replaced; the active *)
(* one ends where the new one begins, at the next midnight. *)
Rescheduled(P, mode, now) ==
    LET boundary == NextMidnight[now]
    IN  {ClosedBy(p, boundary) : p \in {q \in P : q.from <= now}}
            \union {[plan |-> mode, from |-> boundary, to |-> Open]}

Precedes(p, q) == p.to # Open /\ p.to <= q.from

Disjoint(P) == \A p, q \in P : p = q \/ Precedes(p, q) \/ Precedes(q, p)

Gapless(P) == \A p \in P : p.to # Open => \E q \in P : q.from = p.to

(* Boundaries are midnights, and the coming one is the last. *)
AtMidnights(P, now) ==
    \A p \in P :
        /\ p.from \in Dates /\ p.from <= NextMidnight[now]
        /\ p.to # Open => p.to \in Dates /\ p.from < p.to /\ p.to <= NextMidnight[now]

=============================================================================
