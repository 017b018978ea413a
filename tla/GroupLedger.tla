------------------------------ MODULE GroupLedger ------------------------------
(***************************************************************************)
(* Usage accounting of keys in grouped mode: one ledger per key, group and *)
(* business day, fed by usage that may arrive long after its request, with *)
(* resets, mode schedules, publications and plan edits in between.         *)
(*                                                                         *)
(* A group stands for the models it owns, so an event's model is a group   *)
(* or NoGroup.  All keys are live and revisions are fresh: GroupBinding    *)
(* models deleted keys and stale revisions.  Writes succeed: StoreWriteBack *)
(* models those that fail.  Tokens are a counter without consequence and   *)
(* left out.                                                               *)
(***************************************************************************)
EXTENDS BindingPeriods, TokenAccounting, FiniteSetsExt, Functions

CONSTANTS
    Groups,
    NoGroup,     \* a model that no group lists
    Amounts,     \* costs of priced usage, in the ledger's unit
    TooLarge,    \* a cost that costUSD rejects
    Unpriced,    \* usage without a price or without a billable breakdown
    Limits,      \* daily limits a policy may set
    Unlimited,   \* no daily limit
    NoPolicy,    \* the plan has no policy for the group
    Switch,      \* values of the "enabled" switches
    Never,       \* no instant
    MaxEvents    \* bound on recorded events, for TLC

ASSUME LedgerAssumption ==
    /\ Amounts \subseteq Nat /\ TooLarge \notin Amounts /\ Unpriced \notin Amounts
    /\ TooLarge # Unpriced
    /\ MaxInt \in Nat /\ Limits \subseteq Nat \ {0} /\ Unlimited \notin Nat
    /\ Never \notin Nat
    /\ NoGroup \notin Groups

ASSUME SwitchAssumption == Switch \subseteq BOOLEAN

VARIABLES
    group,      \* status, switch and publication time of each group
    policies,   \* GroupPlan.Policies of the plans that exist
    days,       \* GroupState.Days: the ledgers that exist
    unclassified,   \* GroupKeyBinding.Unclassified
    events      \* request_events with their attribution: copies of each

vars == <<clock, periods, group, policies, days, unclassified, events>>

-----------------------------------------------------------------------------
(* Types *)

Group == [status : {"draft", "published", "archived"}, enabled : BOOLEAN,
          publishedAt : Instants \union {Never}]

Policy == [enabled : Switch, limit : Limits \union {Unlimited}]
PolicySet == [Groups -> Policy \union {NoPolicy}]

GroupDay == [raw : 0..MaxInt, credit : 0..MaxInt, cutoff : Instants \union {Never},
             error : BOOLEAN, requests : 0..MaxInt, incomplete : Nat]

Keys == Scopes \X Groups \X Dates

Event == [scope : Scopes, model : Groups \union {NoGroup}, at : Instants, timed : BOOLEAN,
          class : {"legacy", "unclassified", "grouped"},
          cost : Amounts \union {TooLarge, Unpriced}]

With(f, x, y) == [z \in DOMAIN f \union {x} |-> IF z = x THEN y ELSE f[z]]

-----------------------------------------------------------------------------
(* Reading the state *)

(* GroupState.Days[key], whose zero value is an empty ledger. *)
EmptyDay == [raw |-> 0, credit |-> 0, cutoff |-> Never, error |-> FALSE,
             requests |-> 0, incomplete |-> 0]
Day(k) == IF k \in DOMAIN days THEN days[k] ELSE EmptyDay
Today(s, g) == Day(<<s, g, NextMidnight[clock]>>)

(* modelOwner: an archived group still owns its models. *)
Owned(m, at) ==
    /\ m \in Groups
    /\ group[m].status # "draft"
    /\ group[m].publishedAt <= at

HasPolicy(s, g) ==
    LET plan == ModeAt(periods[s], clock)
    IN  plan \in DOMAIN policies /\ policies[plan][g] # NoPolicy

PolicyOf(s, g) == policies[ModeAt(periods[s], clock)][g]

Enabled(s, g) ==
    HasPolicy(s, g) /\ PolicyOf(s, g).enabled /\ group[g].enabled /\ group[g].status = "published"

Exhausted(s, g) ==
    /\ PolicyOf(s, g).limit # Unlimited
    /\ Today(s, g).raw - Today(s, g).credit >= PolicyOf(s, g).limit

(* AdmitGroup up to the slots, which Admission models. *)
VerdictIgnoresError(s, g) ==
    IF ~GroupedAt(periods[s], clock) THEN "legacy"
    ELSE IF ~Owned(g, clock) THEN "model_not_grouped"
    ELSE IF ~Enabled(s, g) THEN "group_disabled"
    ELSE IF Exhausted(s, g) THEN "group_quota_exceeded"
    ELSE "allowed"

Verdict(s, g) ==
    IF ~GroupedAt(periods[s], clock) THEN "legacy"
    ELSE IF ~Owned(g, clock) THEN "model_not_grouped"
    ELSE IF ~Enabled(s, g) THEN "group_disabled"
    ELSE IF Today(s, g).error THEN "accounting_unavailable"
    ELSE IF Exhausted(s, g) THEN "group_quota_exceeded"
    ELSE "allowed"

(* GroupUsage: the groups it lists and what it says of their admission. *)
Listed(s, g) ==
    /\ GroupedAt(periods[s], clock)
    /\ HasPolicy(s, g) \/ Today(s, g).requests # 0

Shown(s, g) ==
    IF Today(s, g).error THEN "accounting_unavailable"
    ELSE IF ~Enabled(s, g) THEN "group_disabled"
    ELSE IF Exhausted(s, g) THEN "group_quota_exceeded"
    ELSE "allowed"

ShownComplete(s, g) == Today(s, g).incomplete = 0 /\ unclassified[s] = 0

-----------------------------------------------------------------------------
(* Recording usage *)

ClassOnArrival(s, m, at, timed) ==
    IF ~GroupedAt(periods[s], clock) THEN "legacy"
    ELSE IF timed /\ Owned(m, at) THEN "grouped"
    ELSE "unclassified"

(* accountGroupUsage: the mode and the owner at the instant the request began. *)
Class(s, m, at, timed) ==
    IF ~GroupedAt(periods[s], at) THEN "legacy"
    ELSE IF timed /\ Owned(m, at) THEN "grouped"
    ELSE "unclassified"

CreditedNever(d, at) == FALSE

Credited(d, at) == d.cutoff # Never /\ at < d.cutoff

Fits(d, at, amount) ==
    /\ d.raw + amount <= MaxInt
    /\ Credited(d, at) => d.credit + amount <= MaxInt

ChargedNet(d, at, amount) ==
    IF Credited(d, at) THEN d ELSE [d EXCEPT !.raw = @ + amount]

Charged(d, at, amount) ==
    [d EXCEPT !.raw = @ + amount,
              !.credit = IF Credited(d, at) THEN @ + amount ELSE @]

UnbookedSilently(d) == [d EXCEPT !.incomplete = @ + 1]

Unbooked(d) == [d EXCEPT !.error = TRUE, !.incomplete = @ + 1]

IncompleteForgotten(d) == d

Incomplete(d) == [d EXCEPT !.incomplete = @ + 1]

CountRequest(d) ==
    IF d.requests < MaxInt THEN [d EXCEPT !.requests = @ + 1] ELSE [d EXCEPT !.incomplete = @ + 1]

Booked(d, at, usage) ==
    IF usage = Unpriced THEN Incomplete(d)
    ELSE IF usage \in Amounts /\ Fits(d, at, usage) THEN Charged(d, at, usage)
    ELSE Unbooked(d)

(* The cost an event keeps: none, when the ledger did not take it. *)
Attributed(d, at, usage) ==
    IF usage \in Amounts /\ ~Fits(d, at, usage) THEN TooLarge ELSE usage

ForgivenAndReopened(d, now) == [d EXCEPT !.credit = d.raw, !.cutoff = now, !.error = FALSE]

(* A reset credits everything the day has cost so far. *)
Forgiven(d, now) == [d EXCEPT !.credit = d.raw, !.cutoff = now]

Copies(e) == IF e \in DOMAIN events THEN events[e] ELSE 0

-----------------------------------------------------------------------------
(* Actions *)

Init ==
    /\ clock \in Instants
    /\ periods = [s \in Scopes |-> {}]
    /\ group = [g \in Groups |-> [status |-> "draft", enabled |-> TRUE, publishedAt |-> Never]]
    /\ policies = <<>>
    /\ days = <<>>
    /\ unclassified = [s \in Scopes |-> 0]
    /\ events = <<>>

Tick ==
    /\ clock' \in {t \in Instants : clock < t}
    /\ UNCHANGED <<periods, group, policies, days, unclassified, events>>

ScheduleGroupBinding(s, mode) ==
    /\ mode \in DOMAIN policies \union {Legacy}
    /\ periods' = [periods EXCEPT ![s] = Rescheduled(@, mode, clock)]
    /\ UNCHANGED <<clock, group, policies, days, unclassified, events>>

UpdateResourceGroup(g, on) ==
    /\ group' = [group EXCEPT ![g].enabled = on]
    /\ UNCHANGED <<clock, periods, policies, days, unclassified, events>>

Published(r, now) == [r EXCEPT !.status = "published", !.publishedAt = now]

Publish(g) ==
    /\ group[g].status = "draft"
    /\ group' = [group EXCEPT ![g] = Published(@, clock)]
    /\ UNCHANGED <<clock, periods, policies, days, unclassified, events>>

Archived(r) == [r EXCEPT !.status = "archived", !.enabled = FALSE]

Archive(g) ==
    /\ group[g].status = "published"
    /\ group' = [group EXCEPT ![g] = Archived(@)]
    /\ UNCHANGED <<clock, periods, policies, days, unclassified, events>>

(* A plan has a policy for some group, and all its groups are published. *)
SaveGroupPlan(p, new) ==
    LET chosen == {g \in Groups : new[g] # NoPolicy} IN
    /\ chosen # {}
    /\ \A g \in chosen : group[g].status = "published"
    /\ policies' = With(policies, p, new)
    /\ UNCHANGED <<clock, periods, group, days, unclassified, events>>

(* recordUsage with accountGroupUsage.  An untimed event carries no start of *)
(* its request and stands at the instant it was reported for. *)
RecordUsage(s, m, at, timed, usage) ==
    LET k == <<s, m, NextMidnight[at]>>
        class == Class(s, m, at, timed)
        e == [scope |-> s, model |-> m, at |-> at, timed |-> timed, class |-> class,
              cost |-> IF class = "grouped" THEN Attributed(Day(k), at, usage) ELSE Unpriced]
    IN
    /\ at <= clock
    /\ SumFunction(events) < MaxEvents
    /\ events' = With(events, e, Copies(e) + 1)
    /\ \/ /\ class = "legacy"
          /\ UNCHANGED <<days, unclassified>>
       \/ /\ class = "unclassified"
          /\ unclassified' = [unclassified EXCEPT ![s] = @ + 1]
          /\ UNCHANGED days
       \/ /\ class = "grouped"
          /\ days' = With(days, k, CountRequest(Booked(Day(k), at, usage)))
          /\ UNCHANGED unclassified
    /\ UNCHANGED <<clock, periods, group, policies>>

ResetGroupDay(s, g) ==
    LET k == <<s, g, NextMidnight[clock]>> IN
    /\ GroupedAt(periods[s], clock)
    /\ HasPolicy(s, g) \/ k \in DOMAIN days
    /\ days' = With(days, k, Forgiven(Day(k), clock))
    /\ UNCHANGED <<clock, periods, group, policies, unclassified, events>>

Next ==
    \/ Tick
    \/ \E s \in Scopes, mode \in Modes : ScheduleGroupBinding(s, mode)
    \/ \E g \in Groups, on \in Switch : UpdateResourceGroup(g, on)
    \/ \E g \in Groups : Publish(g)
    \/ \E g \in Groups : Archive(g)
    \/ \E p \in Plans, new \in PolicySet : SaveGroupPlan(p, new)
    \/ \E s \in Scopes, m \in Groups \union {NoGroup}, at \in Instants, timed \in BOOLEAN,
          usage \in Amounts \union {TooLarge, Unpriced} : RecordUsage(s, m, at, timed, usage)
    \/ \E s \in Scopes, g \in Groups : ResetGroupDay(s, g)

Spec == Init /\ [][Next]_vars

-----------------------------------------------------------------------------
(* Properties *)

TypeOK ==
    /\ clock \in Instants
    /\ periods \in [Scopes -> SUBSET Period]
    /\ group \in [Groups -> Group]
    /\ DOMAIN policies \subseteq Plans /\ policies \in [DOMAIN policies -> PolicySet]
    /\ DOMAIN days \subseteq Keys /\ days \in [DOMAIN days -> GroupDay]
    /\ unclassified \in [Scopes -> Nat]
    /\ DOMAIN events \subseteq Event /\ events \in [DOMAIN events -> Nat]

(* A reset never forgives more than was charged: SQLite refuses such a day, *)
(* and every later write with it. *)
CreditWithinRaw == \A k \in DOMAIN days : days[k].credit <= days[k].raw

PricedEvents(k) ==
    {e \in DOMAIN events : /\ e.class = "grouped" /\ e.cost \in Amounts
                           /\ <<e.scope, e.model, NextMidnight[e.at]>> = k}

Total(es) == SumFunctionOnSet([e \in es |-> e.cost * events[e]], es)

(* The raw cost of a ledger is the sum of the priced events of its day, in *)
(* whatever order they arrived and whatever was reset in between. *)
RawReconciles == \A k \in Keys : Day(k).raw = Total(PricedEvents(k))

(* What counts against the limit is the usage of requests that began since the *)
(* last reset: late usage of an earlier one is forgiven, usage of a later one *)
(* never is.  (At the instant of the reset itself it depends on the arrival.) *)
UsedIsSinceReset ==
    \A k \in Keys :
        LET d == Day(k)
            used == d.raw - d.credit
        IN  IF d.cutoff = Never
            THEN used = Total(PricedEvents(k))
            ELSE /\ Total({e \in PricedEvents(k) : d.cutoff < e.at}) <= used
                 /\ used <= Total({e \in PricedEvents(k) : d.cutoff <= e.at})

(* Once an amount of today could not be booked, the key is admitted to that *)
(* group no more today: neither a reset nor a plan edit nor a schedule reopens *)
(* it. *)
UnbookedClosesAdmission ==
    \A e \in DOMAIN events :
        (/\ e.class = "grouped" /\ e.cost = TooLarge
         /\ NextMidnight[e.at] = NextMidnight[clock])
            => Verdict(e.scope, e.model) \notin {"allowed", "legacy"}

(* A ledger shown as complete misses nothing: all its events were priced, and *)
(* no event of the key is waiting to be classified. *)
CompleteMeansPriced ==
    \A s \in Scopes, g \in Groups :
        Listed(s, g) /\ ShownComplete(s, g) =>
            \A e \in DOMAIN events :
                e.scope = s =>
                    /\ e.class # "unclassified"
                    /\ e.class = "grouped" /\ e.model = g /\ NextMidnight[e.at] = NextMidnight[clock]
                         => e.cost \in Amounts

(* What an administrator is shown and what a request meets agree. *)
ShownIsDecided ==
    \A s \in Scopes, g \in Groups :
        Verdict(s, g) = "allowed" <=> Listed(s, g) /\ Shown(s, g) = "allowed"

(* The class an event was recorded with is the class it would get now: no *)
(* publication, archival, schedule or midnight moves past usage between legacy *)
(* quota and group ledgers.  (Usage that began at the very instant of a *)
(* publication may have been recorded just before it.) *)
ClassesAreStable ==
    \A e \in DOMAIN events :
        \/ Class(e.scope, e.model, e.at, e.timed) = e.class
        \/ /\ e.class = "unclassified" /\ e.timed
           /\ e.model \in Groups /\ group[e.model].publishedAt = e.at

(* The ledger is a budget per key, group and day. *)
Budget == INSTANCE GroupBudget WITH
    Budgets <- Keys,
    used <- [k \in Keys |-> Day(k).raw - Day(k).credit],
    since <- [k \in Keys |-> Day(k).cutoff],
    closed <- [k \in Keys |-> Day(k).error]

ImplementsBudget == Budget!Spec

=============================================================================
