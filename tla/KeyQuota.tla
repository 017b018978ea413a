------------------------------- MODULE KeyQuota -------------------------------
(***************************************************************************)
(* Legacy subscription plans: quota windows of a plan, the cycles each      *)
(* bound key has open in them, and the usage charged to the cycles, under   *)
(* plan edits, bindings, resets, key synchronisation, late usage records    *)
(* and the passage of time.                                                *)
(***************************************************************************)
EXTENDS Integers, Sequences, FiniteSetsExt, SequencesExt

CONSTANTS
    Scopes,      \* hashed API keys
    PlanIds,     \* ids of plans
    WindowIds,   \* ids of quota windows, random and of fixed length in the code
    Metrics,     \* quota dimensions: amount, tokens, requests
    Drafts,      \* windows that administrators submit; limit 0 disables a dimension
    Usages,      \* what one usage record counts in each dimension
    MaxCount,    \* largest count; larger sums saturate
    Horizon,     \* last instant, for TLC
    MaxRecords,  \* bound on the number of usage records, for TLC
    NoPlan, NoTime, NoCycle

Instants == 0..Horizon

ASSUME QuotaAssumption ==
    /\ Drafts \subseteq [period : Nat \ {0}, anchor : Int \union {NoTime}, limit : [Metrics -> Nat]]
    /\ MaxCount \in Nat
    /\ Horizon \in Nat
    /\ Usages \subseteq [Metrics -> Nat]
    /\ IsFiniteSet(WindowIds)
    /\ NoPlan \notin PlanIds
    /\ NoTime \notin Int
    /\ NoCycle \notin [start : Int, end : Int, since : Int \union {NoTime},
                       used : [Metrics -> 0..MaxCount]]

Window == [period : Nat \ {0}, anchor : Int \union {NoTime}, limit : [Metrics -> Nat]]
Cycle == [start : Int, end : Int, since : Int \union {NoTime},
          used : [Metrics -> 0..MaxCount]]

VARIABLES
    clock,    \* Store.Now()
    plans,    \* the plans that exist, each a function from its window ids
    known,    \* keys that have a record; records are permanent
    listed,   \* KeyState.InConfig
    deleted,  \* keys whose DeletedAt is set
    bound,    \* KeyState.PlanID
    cycles,   \* KeyState.Cycles, NoCycle where a window has none open
    log,      \* every usage record so far (history)
    opened    \* when each cycle was opened: instant and position in log (history)

keyVars == <<known, listed, deleted>>
vars == <<clock, plans, known, listed, deleted, bound, cycles, log, opened>>

NoCycles == [w \in WindowIds |-> NoCycle]
Live == known \ deleted

Init ==
    /\ clock = 0
    /\ plans = <<>>
    /\ known = {}
    /\ listed = {}
    /\ deleted = {}
    /\ bound = [s \in Scopes |-> NoPlan]
    /\ cycles = [s \in Scopes |-> NoCycles]
    /\ log = <<>>
    /\ opened = [s \in Scopes |-> [i \in WindowIds |-> NoCycle]]

-----------------------------------------------------------------------------
(* Windows and plans *)

Floating(w) == w.anchor = NoTime

SameSchedule(w, old) ==
    /\ w.period = old.period
    /\ Floating(w) <=> Floating(old)
    /\ ~Floating(w) => (w.anchor - old.anchor) % w.period = 0

ValidPlan(windows) ==
    /\ DOMAIN windows # {}
    /\ \A i \in DOMAIN windows : \E m \in Metrics : windows[i].limit[m] > 0
    /\ \A i, j \in DOMAIN windows :
          /\ i # j => windows[i].period # windows[j].period
          /\ Floating(windows[i]) <=> Floating(windows[j])

(* An edit that does not move the phase of an anchored window keeps its anchor. *)
PreparedWindows(windows, existing) ==
    [i \in DOMAIN windows |->
       IF i \in DOMAIN existing /\ SameSchedule(windows[i], existing[i])
       THEN [windows[i] EXCEPT !.anchor = existing[i].anchor]
       ELSE windows[i]]

(* A new anchor is the beginning of the next period, at most one period away. *)
AcceptableWindows(windows, existing) ==
    \A i \in DOMAIN windows :
       \/ Floating(windows[i])
       \/ i \in DOMAIN existing /\ SameSchedule(windows[i], existing[i])
       \/ clock < windows[i].anchor /\ windows[i].anchor <= clock + windows[i].period

TakenWindowIds == UNION {DOMAIN plans[p] : p \in DOMAIN plans}

(* What an administrator may submit: windows of the plan and new ones, whose *)
(* ids are fresh. *)
Submissions(existing) ==
    LET ids == DOMAIN existing \union (WindowIds \ TakenWindowIds)
    IN {f \in UNION {[D -> Drafts] : D \in SUBSET ids} :
          AcceptableWindows(f, existing) /\ ValidPlan(f)}

-----------------------------------------------------------------------------
(* Cycles *)

NewCycle(w, now) ==
    LET start == IF Floating(w) THEN now ELSE now - ((now - w.anchor) % w.period)
    IN [start |-> start, end |-> start + w.period,
        since |-> IF Floating(w) THEN NoTime ELSE now,
        used |-> [m \in Metrics |-> 0]]

Open(open) == {i \in WindowIds : open[i] # NoCycle}

(* Expiration never starts another window; only admission can do that. *)
SettledExpired(open, now) ==
    [i \in WindowIds |-> IF open[i] # NoCycle /\ open[i].end <= now THEN NoCycle ELSE open[i]]

Activated(open, windows, now) ==
    [i \in WindowIds |-> IF i \in DOMAIN windows /\ open[i] = NoCycle
                         THEN NewCycle(windows[i], now) ELSE open[i]]

Exhausted(w, used) == \E m \in Metrics : w.limit[m] > 0 /\ used[m] >= w.limit[m]

(* An anchored window is shown with the period it is in although no admission *)
(* has opened it. *)
ShownCycle(open, w, i, now) ==
    IF open[i] = NoCycle /\ ~Floating(w) THEN NewCycle(w, now) ELSE open[i]

BlockedWindows(open, windows, now) ==
    {i \in DOMAIN windows :
       LET cycle == ShownCycle(open, windows[i], i, now)
       IN cycle # NoCycle /\ Exhausted(windows[i], cycle.used)}

Blocked(open, windows, now) == BlockedWindows(open, windows, now) # {}

FirstRetryAt(open, windows, now) ==
    Min({ShownCycle(open, windows[i], i, now).end : i \in BlockedWindows(open, windows, now)})

(* QuotaView.RetryAt: all exhausted windows must have ended. *)
RetryAt(open, windows, now) ==
    Max({ShownCycle(open, windows[i], i, now).end : i \in BlockedWindows(open, windows, now)})

Saturated(n) == IF n > MaxCount THEN MaxCount ELSE n

Charge(cycle, usage) ==
    [cycle EXCEPT !.used = [m \in Metrics |-> Saturated(@[m] + usage[m])]]

CoversSincePeriod(cycle, at) == cycle.start <= at /\ at < cycle.end

(* Usage of requests begun before the cycle, or in an anchored period before *)
(* the binding or reset that opened it, is not charged. *)
Covers(cycle, at) ==
    /\ cycle.start <= at /\ at < cycle.end
    /\ cycle.since # NoTime => cycle.since <= at

Charged(open, at, usage) ==
    [i \in WindowIds |-> IF open[i] # NoCycle /\ at # NoTime /\ Covers(open[i], at)
                         THEN Charge(open[i], usage) ELSE open[i]]

-----------------------------------------------------------------------------
(* Traffic *)

Tick ==
    /\ clock < Horizon
    /\ clock' = clock + 1
    /\ UNCHANGED <<plans, known, listed, deleted, bound, cycles, log>>

(* Authorize: the last check of an admission. Only it opens cycles, and only *)
(* when no window is exhausted. *)
Authorize(s) ==
    /\ bound[s] # NoPlan
    /\ IF bound[s] \in DOMAIN plans
       THEN LET windows == plans[bound[s]]
                settled == SettledExpired(cycles[s], clock)
                open == IF Blocked(settled, windows, clock) THEN settled
                        ELSE Activated(settled, windows, clock)
            IN /\ cycles' = [cycles EXCEPT ![s] = open]
               /\ UNCHANGED bound
       ELSE /\ bound' = [bound EXCEPT ![s] = NoPlan]
            /\ cycles' = [cycles EXCEPT ![s] = NoCycles]
    /\ UNCHANGED <<clock, plans, known, listed, deleted, log>>

(* recordUsage for a key in legacy mode. The record's own time may lie well *)
(* before the present; a failed request counts no request. *)
RecordUsage(s, at, usage) ==
    /\ Len(log) < MaxRecords
    /\ at # NoTime => at <= clock
    /\ log' = Append(log, [scope |-> s, at |-> at, usage |-> usage])
    /\ known' = known \union {s}
    /\ LET open == IF bound[s] = NoPlan THEN cycles[s] ELSE Charged(cycles[s], at, usage)
       IN cycles' = [cycles EXCEPT ![s] =
             IF bound[s] \in DOMAIN plans THEN SettledExpired(open, clock) ELSE open]
    /\ UNCHANGED <<clock, plans, listed, deleted, bound>>

(* settleKeyPlan *)
SettledBinding(s) == IF bound[s] \in DOMAIN plans THEN bound[s] ELSE NoPlan
SettledCycles(s) ==
    IF bound[s] \in DOMAIN plans THEN SettledExpired(cycles[s], clock) ELSE NoCycles

(* KeyViews settles every live key, KeyViewForScope one. *)
View(scopes) ==
    /\ scopes \subseteq Live
    /\ bound' = [s \in Scopes |-> IF s \in scopes THEN SettledBinding(s) ELSE bound[s]]
    /\ cycles' = [s \in Scopes |-> IF s \in scopes /\ bound[s] # NoPlan
                                   THEN SettledCycles(s) ELSE cycles[s]]
    /\ UNCHANGED <<clock, plans, known, listed, deleted, log>>

-----------------------------------------------------------------------------
(* Administration: each edit is saved or leaves no trace *)

(* The same keys bound to plan p, without cycles, and the others as they were. *)
BindTo(scopes, p) ==
    /\ bound' = [s \in Scopes |-> IF s \in scopes THEN p ELSE bound[s]]
    /\ cycles' = [s \in Scopes |-> IF s \in scopes THEN NoCycles ELSE cycles[s]]

CreatePlan(p, windows, scopes) ==
    /\ p \notin DOMAIN plans
    /\ windows \in Submissions(<<>>)
    /\ scopes \subseteq {s \in Live : bound[s] = NoPlan}
    /\ plans' = [q \in DOMAIN plans \union {p} |-> IF q = p THEN windows ELSE plans[q]]
    /\ BindTo(scopes, p)
    /\ UNCHANGED <<clock, keyVars, log>>

RemovedWindows(windows, existing) == DOMAIN existing \ DOMAIN windows

RescheduledWindows(windows, existing) ==
    {i \in DOMAIN existing : ~(i \in DOMAIN windows /\ SameSchedule(windows[i], existing[i]))}

(* UpdatePlanWithBindings with the plan's complete key set, or with the keys it *)
(* has. A patch without windows is one that repeats them. Deleted keys can only *)
(* stay or leave. *)
UpdatePlan(p, windows, scopes) ==
    /\ p \in DOMAIN plans
    /\ windows \in Submissions(plans[p])
    /\ \A s \in scopes : s \in known /\ bound[s] \in {NoPlan, p} /\ (s \in deleted => bound[s] = p)
    /\ LET reset == RescheduledWindows(windows, plans[p])
           stays == {s \in Scopes : bound[s] = p /\ s \in scopes}
           moves == {s \in Scopes : (bound[s] = p) # (s \in scopes)}
       IN /\ bound' = [s \in Scopes |-> IF s \in moves THEN (IF s \in scopes THEN p ELSE NoPlan)
                                        ELSE bound[s]]
          /\ cycles' = [s \in Scopes |->
                IF s \in moves THEN NoCycles
                ELSE IF s \in stays
                THEN [i \in WindowIds |-> IF i \in reset THEN NoCycle ELSE cycles[s][i]]
                ELSE cycles[s]]
    /\ plans' = [plans EXCEPT ![p] = PreparedWindows(windows, @)]
    /\ UNCHANGED <<clock, keyVars, log>>

DeletePlan(p) ==
    /\ p \in DOMAIN plans
    /\ plans' = [q \in DOMAIN plans \ {p} |-> plans[q]]
    /\ BindTo({s \in known : bound[s] = p}, NoPlan)
    /\ UNCHANGED <<clock, keyVars, log>>

BindKey(s, p) ==
    /\ p \in DOMAIN plans
    /\ s \in Live
    /\ bound[s] # p
    /\ BindTo({s}, p)
    /\ UNCHANGED <<clock, plans, keyVars, log>>

UnbindKey(s) ==
    /\ s \in Live
    /\ bound[s] # NoPlan
    /\ BindTo({s}, NoPlan)
    /\ UNCHANGED <<clock, plans, keyVars, log>>

(* ResetQuota for selected keys, or for every live bound key. *)
ResetQuota(scopes) ==
    /\ scopes \subseteq {s \in Live : bound[s] # NoPlan}
    /\ cycles' = [s \in Scopes |-> IF s \in scopes THEN NoCycles ELSE cycles[s]]
    /\ UNCHANGED <<clock, plans, keyVars, bound, log>>

SyncKeysForgetting(keys) ==
    /\ known' = known \union keys
    /\ listed' = keys
    /\ deleted' = (deleted \union listed) \ keys
    /\ cycles' = [s \in Scopes |-> IF s \in listed \ keys THEN NoCycles ELSE cycles[s]]
    /\ UNCHANGED <<clock, plans, bound, log>>

(* SyncKeys: only keys an earlier sync saw are marked deleted; a key that comes *)
(* back finds its plan and its cycles. *)
SyncKeys(keys) ==
    /\ known' = known \union keys
    /\ listed' = keys
    /\ deleted' = (deleted \union listed) \ keys
    /\ UNCHANGED <<clock, plans, bound, cycles, log>>

Traffic ==
    \/ \E s \in Scopes : Authorize(s)
    \/ \E s \in Scopes, at \in Instants \union {NoTime}, usage \in Usages :
          RecordUsage(s, at, usage)
    \/ View(Live)
    \/ \E s \in Live : View({s})

Administration ==
    \/ \E p \in PlanIds, scopes \in SUBSET Live :
          \E windows \in Submissions(<<>>) : CreatePlan(p, windows, scopes)
    \/ \E p \in DOMAIN plans, scopes \in SUBSET known :
          \E windows \in Submissions(plans[p]) : UpdatePlan(p, windows, scopes)
    \/ \E p \in PlanIds : DeletePlan(p)
    \/ \E s \in Scopes, p \in PlanIds : BindKey(s, p)
    \/ \E s \in Scopes : UnbindKey(s)
    \/ \E scopes \in SUBSET Live : ResetQuota(scopes)
    \/ \E keys \in SUBSET Scopes : SyncKeys(keys)

(* History: the instant at which an open cycle was opened and the usage records *)
(* handed in before. *)
OpeningNoted ==
    opened' = [s \in Scopes |-> [i \in WindowIds |->
                 IF cycles'[s][i] = NoCycle THEN NoCycle
                 ELSE IF cycles[s][i] # NoCycle /\ cycles[s][i].end = cycles'[s][i].end
                 THEN opened[s][i]
                 ELSE [at |-> clock, seen |-> Len(log)]]]

Next == (Tick \/ Traffic \/ Administration) /\ OpeningNoted

Spec == Init /\ [][Next]_vars

-----------------------------------------------------------------------------
(* Properties *)

(* KeyState.ValidateCycles *)
ValidCycle(cycle, w) ==
    /\ cycle.end = cycle.start + w.period
    /\ ~Floating(w) => NewCycle(w, cycle.start).start = cycle.start
    /\ cycle.since # NoTime => cycle.since \in cycle.start..(cycle.end - 1)

(* The database can always be loaded again: no sequence of plan edits, *)
(* bindings, deletions and restores leaves a key with a plan that does not *)
(* exist, or with a cycle that its plan's windows do not explain, which makes *)
(* loadKeys refuse the whole database at the next start (api_keys.go:89). *)
CyclesReload ==
    \A s \in Scopes :
       /\ bound[s] \in DOMAIN plans \union {NoPlan}
       /\ \A i \in Open(cycles[s]) :
             /\ bound[s] # NoPlan
             /\ i \in DOMAIN plans[bound[s]]
             /\ ValidCycle(cycles[s][i], plans[bound[s]][i])

(* The records that an open cycle of window i of key s has to account for: *)
(* handed in after it was opened, of attempts begun since. *)
Attributable(s, i) ==
    {n \in DOMAIN log :
       /\ n > opened[s][i].seen
       /\ log[n].scope = s
       /\ log[n].at # NoTime
       /\ opened[s][i].at <= log[n].at /\ log[n].at < cycles[s][i].end}

(* What a cycle has used is exactly the usage of attempts begun between the *)
(* admission that opened it and its end: none of an earlier cycle, binding or *)
(* reset, however late it is reported, and all of its own, whatever edits of *)
(* limits and other windows, deletions and restores came in between. *)
UsedIsSinceOpening ==
    \A s \in Scopes : \A i \in Open(cycles[s]) : \A m \in Metrics :
       cycles[s][i].used[m] =
          Saturated(SumFunctionOnSet([n \in DOMAIN log |-> log[n].usage[m]], Attributable(s, i)))

(* A key loses an open cycle, and with it what it has used, only when the cycle *)
(* is over, the key changes its plan, the schedule of that window changes, or *)
(* an administrator resets the key. *)
CyclesEndByRule ==
    [][\A s \in Scopes : \A i \in Open(cycles[s]) \ Open(cycles'[s]) :
          \/ cycles[s][i].end <= clock
          \/ bound'[s] # bound[s]
          \/ i \notin DOMAIN plans'[bound[s]]
          \/ ~SameSchedule(plans'[bound[s]][i], plans[bound[s]][i])
          \/ \E scopes \in SUBSET Live : s \in scopes /\ ResetQuota(scopes)]_vars

(* The Retry-After of a refusal is honest: without further usage the key stays *)
(* blocked before it and is admitted from it on. *)
RetryIsExact ==
    \A s \in Scopes : bound[s] \in DOMAIN plans =>
       LET windows == plans[bound[s]]
           open == SettledExpired(cycles[s], clock)
       IN Blocked(open, windows, clock) =>
            \A t \in clock..(RetryAt(open, windows, clock) + 1) :
               Blocked(SettledExpired(open, t), windows, t) <=> t < RetryAt(open, windows, clock)

=============================================================================
