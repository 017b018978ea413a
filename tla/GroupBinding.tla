----------------------------- MODULE GroupBinding -----------------------------
(***************************************************************************)
(* Scheduling of a key's billing mode by administrators who work from what *)
(* they last saw (optimistic revisions), while the clock crosses midnight  *)
(* and keys are deleted and restored by synchronisation.                   *)
(***************************************************************************)
EXTENDS BindingPeriods

CONSTANTS
    Admins,       \* sessions of the management page
    NoView,       \* a session that has loaded nothing
    MaxRevision   \* bound on the number of schedules, for TLC

VARIABLES
    plans,     \* ids of the group plans that exist
    live,      \* keys that exist and are not deleted
    revision,  \* GroupKeyBinding.Revision
    seen       \* the binding a session is looking at

bindingVars == <<clock, plans, live, revision, periods, seen>>

View(s) == [scope |-> s, revision |-> revision[s], periods |-> periods[s]]
Views == [scope : Scopes, revision : Nat, periods : SUBSET Period]

BindingInit ==
    /\ clock \in Instants
    /\ plans = {}
    /\ live = {}
    /\ revision = [s \in Scopes |-> 0]
    /\ periods = [s \in Scopes |-> {}]
    /\ seen = [a \in Admins |-> NoView]

-----------------------------------------------------------------------------

BindingTick ==
    /\ clock' \in {t \in Instants : clock < t}
    /\ UNCHANGED <<plans, live, revision, periods, seen>>

(* SaveGroupPlan with an empty id; group plans are never deleted. *)
CreatePlan(p) ==
    /\ plans' = plans \union {p}
    /\ UNCHANGED <<clock, live, revision, periods, seen>>

(* SyncKeys adds, deletes and restores keys; a binding outlives its key. *)
SyncKeys(keys) ==
    /\ live' = keys
    /\ UNCHANGED <<clock, plans, revision, periods, seen>>

(* GroupBinding: the view of a key that the management page shows. *)
Look(a, s) ==
    /\ seen' = [seen EXCEPT ![a] = View(s)]
    /\ UNCHANGED <<clock, plans, live, revision, periods>>

ScheduleBlindly(a, mode) ==
    /\ seen[a] # NoView
    /\ LET s == seen[a].scope IN
       /\ s \in live
       /\ mode \in plans \union {Legacy}
       /\ revision[s] < MaxRevision
       /\ revision' = [revision EXCEPT ![s] = @ + 1]
       /\ periods' = [periods EXCEPT ![s] = Rescheduled(@, mode, clock)]
       /\ seen' = [seen EXCEPT ![a] = [scope |-> s, revision |-> revision[s] + 1,
                                       periods |-> Rescheduled(periods[s], mode, clock)]]
    /\ UNCHANGED <<clock, plans, live>>

(* ScheduleGroupBinding with the revision the session saw; the answer shows it *)
(* the new binding. *)
Schedule(a, mode) ==
    /\ seen[a] # NoView
    /\ LET s == seen[a].scope IN
       /\ s \in live
       /\ mode \in plans \union {Legacy}
       /\ revision[s] = seen[a].revision
       /\ revision[s] < MaxRevision
       /\ revision' = [revision EXCEPT ![s] = @ + 1]
       /\ periods' = [periods EXCEPT ![s] = Rescheduled(@, mode, clock)]
       /\ seen' = [seen EXCEPT ![a] = [scope |-> s, revision |-> revision[s] + 1,
                                       periods |-> Rescheduled(periods[s], mode, clock)]]
    /\ UNCHANGED <<clock, plans, live>>

BindingNext ==
    \/ BindingTick
    \/ \E p \in Plans : CreatePlan(p)
    \/ \E keys \in SUBSET Scopes : SyncKeys(keys)
    \/ \E a \in Admins, s \in Scopes : Look(a, s)
    \/ \E a \in Admins, mode \in Modes : Schedule(a, mode)

BindingSpec == BindingInit /\ [][BindingNext]_bindingVars

-----------------------------------------------------------------------------
(* Properties *)

BindingTypeOK ==
    /\ clock \in Instants
    /\ plans \subseteq Plans
    /\ live \subseteq Scopes
    /\ revision \in [Scopes -> Nat]
    /\ periods \in [Scopes -> SUBSET Period]
    /\ seen \in [Admins -> Views \union {NoView}]

(* No instant belongs to two periods: which one binding() meets first does not *)
(* matter, and usage is never both legacy and grouped. *)
OneModeAtATime == \A s \in Scopes : Disjoint(periods[s])

(* From its first period on a key always has an explicit mode: cancelling or *)
(* replacing a schedule leaves no gap that would fall back to legacy. *)
NoGap == \A s \in Scopes : Gapless(periods[s])

(* From its first period on, a key has exactly one mode at every instant. *)
ExactlyOneMode == OneModeAtATime /\ NoGap

(* Every change of mode happens at a midnight, and what is yet to come begins *)
(* at the coming one. *)
OnlyTheNextMidnight == \A s \in Scopes : AtMidnights(periods[s], clock)

(* No administrative act changes the mode of an instant of the current day or *)
(* of a past one: usage that arrives late is billed in the mode in which its *)
(* request was admitted. *)
HistoryFixed ==
    [][\A s \in Scopes : \A t \in Instants : t < NextMidnight[clock] =>
          ModeAt(periods'[s], t) = ModeAt(periods[s], t)]_bindingVars

(* A schedule that is accepted was decided by somebody who saw the schedule it *)
(* replaces: only the session that schedules gets a new view in that step. *)
NoLostUpdate ==
    [][\A s \in Scopes : periods'[s] # periods[s] =>
          \E a \in Admins : seen[a] = View(s) /\ seen'[a] # seen[a]]_bindingVars

=============================================================================
