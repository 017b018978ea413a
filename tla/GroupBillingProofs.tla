-------------------------- MODULE GroupBillingProofs --------------------------
(***************************************************************************)
(* Proofs about the billing modes of keys and about the group ledger: two  *)
(* systems over the same clock and the same periods.                       *)
(***************************************************************************)
EXTENDS GroupBinding, GroupLedger, TokenAccountingProofs

-----------------------------------------------------------------------------
(* What rescheduling does to the periods of a key, for every calendar that *)
(* satisfies CalendarAssumption.                                           *)

(* What every set of periods the code builds satisfies. *)
WellFormed(P, now) == P \subseteq Period /\ Disjoint(P) /\ Gapless(P) /\ AtMidnights(P, now)

LEMMA MidnightIsNat == ASSUME NEW t \in Instants PROVE NextMidnight[t] \in Nat /\ t < NextMidnight[t]
  BY CalendarAssumption

(* There is no midnight between an instant and its next midnight. *)
LEMMA NoMidnightBetween ==
    ASSUME NEW now \in Instants, NEW m \in Dates, m < NextMidnight[now]
    PROVE  m <= now
  <1>1. PICK u \in Instants : m = NextMidnight[u]
    BY DEF Dates
  <1>2. /\ u \in Nat /\ now \in Nat /\ m \in Nat /\ NextMidnight[now] \in Nat /\ u < m
    BY <1>1, CalendarAssumption
  <1>3. CASE now <= u
    BY <1>1, <1>2, <1>3, CalendarAssumption
  <1>4. CASE u < now
    BY <1>1, <1>2, <1>4, CalendarAssumption
  <1> QED
    BY <1>2, <1>3, <1>4

LEMMA ClosedType ==
    ASSUME NEW p \in Period, NEW b \in Nat
    PROVE  /\ ClosedBy(p, b) \in Period
           /\ ClosedBy(p, b).plan = p.plan /\ ClosedBy(p, b).from = p.from
           /\ ClosedBy(p, b).to \in Nat /\ ClosedBy(p, b).to <= b
           /\ ClosedBy(p, b).to = IF p.to # Open /\ p.to <= b THEN p.to ELSE b
  BY CalendarAssumption DEF ClosedBy, Period

(* The periods after rescheduling: begun ones closed, and the new one. *)
LEMMA RescheduledMembers ==
    ASSUME NEW P, NEW mode, NEW now, NEW q \in Rescheduled(P, mode, now)
    PROVE  \/ q = [plan |-> mode, from |-> NextMidnight[now], to |-> Open]
           \/ \E p \in P : p.from <= now /\ q = ClosedBy(p, NextMidnight[now])
  BY DEF Rescheduled

LEMMA RescheduledWellFormed ==
    ASSUME NEW now \in Instants, NEW P, WellFormed(P, now), NEW mode \in Modes
    PROVE  WellFormed(Rescheduled(P, mode, now), now)
  <1> DEFINE b == NextMidnight[now]
             new == [plan |-> mode, from |-> b, to |-> Open]
             R == Rescheduled(P, mode, now)
  <1>1. b \in Nat /\ now \in Nat /\ now < b /\ b \in Dates /\ Open \notin Nat
    BY MidnightIsNat, CalendarAssumption DEF Dates
  <1>2. new \in Period
    BY <1>1 DEF Period
  <1>3. \A p \in P : p \in Period
    BY DEF WellFormed
  <1>4. \A q \in R : q = new \/ \E p \in P : p.from <= now /\ q = ClosedBy(p, b)
    BY RescheduledMembers
  <1>5. new \in R /\ \A p \in P : p.from <= now => ClosedBy(p, b) \in R
    BY DEF Rescheduled
  <1> HIDE DEF b, new, R
  <1>6. \A p \in P : p.from <= now =>
          /\ ClosedBy(p, b) \in Period
          /\ ClosedBy(p, b).from = p.from /\ ClosedBy(p, b).to \in Nat
          /\ ClosedBy(p, b).to <= b
          /\ ClosedBy(p, b).to = IF p.to # Open /\ p.to <= b THEN p.to ELSE b
    BY <1>1, <1>3, ClosedType
  <1>7. R \subseteq Period
    BY <1>2, <1>4, <1>6
  <1>8. Disjoint(R)
    <2> SUFFICES ASSUME NEW q1 \in R, NEW q2 \in R, q1 # q2
                 PROVE  Precedes(q1, q2) \/ Precedes(q2, q1)
      BY DEF Disjoint
    <2>1. ASSUME NEW p \in P, p.from <= now PROVE Precedes(ClosedBy(p, b), new)
      BY <1>1, <1>6, <2>1 DEF Precedes, new
    <2>2. ASSUME NEW p1 \in P, NEW p2 \in P, p1.from <= now, p2.from <= now, p1 # p2
          PROVE  Precedes(ClosedBy(p1, b), ClosedBy(p2, b)) \/ Precedes(ClosedBy(p2, b), ClosedBy(p1, b))
      <3>1. Precedes(p1, p2) \/ Precedes(p2, p1)
        BY <2>2 DEF WellFormed, Disjoint
      <3>2. p1.from \in Nat /\ p2.from \in Nat
        BY <1>3 DEF Period
      <3> QED
        BY <1>1, <1>3, <1>6, <2>2, <3>1, <3>2 DEF Precedes, Period
    <2> QED
      BY <1>4, <2>1, <2>2
  <1>9. Gapless(R)
    <2> SUFFICES ASSUME NEW q \in R, q.to # Open PROVE \E r \in R : r.from = q.to
      BY DEF Gapless
    <2>1. PICK p \in P : p.from <= now /\ q = ClosedBy(p, b)
      BY <1>4 DEF new
    <2>2. CASE p.to # Open /\ p.to < b
      <3>1. PICK r \in P : r.from = p.to
        BY <2>2 DEF WellFormed, Gapless
      <3>2. r.from <= now
        BY <2>2, <3>1, NoMidnightBetween DEF WellFormed, AtMidnights, b
      <3>3. ClosedBy(r, b) \in R /\ ClosedBy(r, b).from = q.to
        BY <1>1, <1>3, <1>5, <1>6, <2>1, <2>2, <3>1, <3>2 DEF Period
      <3> QED
        BY <3>3
    <2>3. CASE ~(p.to # Open /\ p.to < b)
      BY <1>1, <1>3, <1>5, <1>6, <2>1, <2>3 DEF new, Period
    <2> QED
      BY <2>2, <2>3
  <1>10. AtMidnights(R, now)
    <2> SUFFICES ASSUME NEW q \in R
                 PROVE  /\ q.from \in Dates /\ q.from <= b
                        /\ q.to # Open => q.to \in Dates /\ q.from < q.to /\ q.to <= b
      BY DEF AtMidnights, b
    <2>1. CASE q = new
      BY <1>1, <2>1 DEF new
    <2>2. ASSUME NEW p \in P, p.from <= now, q = ClosedBy(p, b)
          PROVE  /\ q.from \in Dates /\ q.from <= b
                 /\ q.to \in Dates /\ q.from < q.to /\ q.to <= b
      <3>1. p.from \in Dates /\ p.from \in Nat /\ (p.to # Open => p.to \in Dates /\ p.from < p.to)
        BY <1>3 DEF WellFormed, AtMidnights, Period
      <3> QED
        BY <1>1, <1>6, <2>2, <3>1
    <2> QED
      BY <1>4, <2>1, <2>2
  <1> QED
    BY <1>7, <1>8, <1>9, <1>10 DEF WellFormed, R

(* Time passing does not disturb a schedule. *)
LEMMA LaterWellFormed ==
    ASSUME NEW now \in Instants, NEW later \in Instants, now <= later, NEW P, WellFormed(P, now)
    PROVE  WellFormed(P, later)
  <1>1. NextMidnight[now] \in Nat /\ NextMidnight[later] \in Nat /\ NextMidnight[now] <= NextMidnight[later]
    BY CalendarAssumption
  <1>2. ASSUME NEW p \in P
        PROVE  /\ p.from \in Dates /\ p.from <= NextMidnight[later]
               /\ p.to # Open => p.to \in Dates /\ p.from < p.to /\ p.to <= NextMidnight[later]
    <2>1. p.from \in Nat /\ (p.to # Open => p.to \in Nat)
      BY DEF WellFormed, Period
    <2> QED
      BY <1>1, <2>1 DEF WellFormed, AtMidnights
  <1> QED
    BY <1>2 DEF WellFormed, AtMidnights

(* The mode of an instant is that of any period that covers it. *)
LEMMA ModeIsUnique ==
    ASSUME NEW P, P \subseteq Period, Disjoint(P), NEW t \in Nat, NEW p \in P, Covers(p, t)
    PROVE  ModeAt(P, t) = p.plan
  <1> DEFINE q == CHOOSE r \in P : Covers(r, t)
  <1>1. q \in P /\ Covers(q, t)
    OBVIOUS
  <1>2. p \in Period /\ q \in Period
    BY <1>1
  <1>3. p = q
    BY <1>1, <1>2, CalendarAssumption DEF Disjoint, Precedes, Covers, Period
  <1> QED
    BY <1>1, <1>3 DEF ModeAt

(* Rescheduling leaves the mode of every instant before the coming midnight. *)
LEMMA RescheduledKeepsMode ==
    ASSUME NEW now \in Instants, NEW P, WellFormed(P, now), NEW mode \in Modes,
           NEW t \in Instants, t < NextMidnight[now]
    PROVE  ModeAt(Rescheduled(P, mode, now), t) = ModeAt(P, t)
  <1> DEFINE b == NextMidnight[now]
             new == [plan |-> mode, from |-> b, to |-> Open]
             R == Rescheduled(P, mode, now)
  <1>1. b \in Nat /\ now \in Nat /\ t \in Nat /\ t < b /\ Open \notin Nat
    BY MidnightIsNat, CalendarAssumption
  <1>2. WellFormed(R, now)
    BY RescheduledWellFormed
  <1>3. \A q \in R : q = new \/ \E p \in P : p.from <= now /\ q = ClosedBy(p, b)
    BY RescheduledMembers
  <1>4. \A p \in P : p.from <= now => ClosedBy(p, b) \in R
    BY DEF Rescheduled
  <1>5. \A p \in P : p \in Period
    BY DEF WellFormed
  <1>6. \A p \in P :
          /\ ClosedBy(p, b).plan = p.plan
          /\ ClosedBy(p, b).from = p.from /\ ClosedBy(p, b).to \in Nat
          /\ ClosedBy(p, b).to = IF p.to # Open /\ p.to <= b THEN p.to ELSE b
    BY <1>1, <1>5, ClosedType
  <1>7. ~Covers(new, t)
    BY <1>1 DEF Covers
  <1>8. \A p \in P : Covers(p, t) => p.from <= now
    <2> SUFFICES ASSUME NEW p \in P, Covers(p, t) PROVE p.from <= now
      OBVIOUS
    <2>1. p.from \in Dates /\ p.from \in Nat /\ p.from < b
      BY <1>1, <1>5 DEF Covers, WellFormed, AtMidnights, Period
    <2> QED
      BY <2>1, NoMidnightBetween
  <1> HIDE DEF b, new, R
  <1>9. \A p \in P : Covers(ClosedBy(p, b), t) <=> Covers(p, t)
    BY <1>1, <1>5, <1>6 DEF Covers, Period
  <1>10. CASE \E p \in P : Covers(p, t)
    <2>1. PICK p \in P : Covers(p, t)
      BY <1>10
    <2>2. ModeAt(P, t) = p.plan
      BY <1>1, <2>1, ModeIsUnique DEF WellFormed
    <2>3. ClosedBy(p, b) \in R /\ Covers(ClosedBy(p, b), t)
      BY <1>4, <1>8, <1>9, <2>1
    <2>4. ModeAt(R, t) = ClosedBy(p, b).plan
      BY <1>1, <1>2, <2>3, ModeIsUnique DEF WellFormed
    <2> QED
      BY <1>6, <2>2, <2>4 DEF R
  <1>11. CASE ~\E p \in P : Covers(p, t)
    <2>1. ~\E q \in R : Covers(q, t)
      BY <1>3, <1>7, <1>9, <1>11
    <2> QED
      BY <1>11, <2>1 DEF ModeAt, R
  <1> QED
    BY <1>10, <1>11

-----------------------------------------------------------------------------
(* The scheduling of billing modes *)

ScheduleInv == BindingTypeOK /\ \A s \in Scopes : WellFormed(periods[s], clock)

LEMMA ScheduleInvInit == BindingInit => ScheduleInv
  BY DEF BindingInit, ScheduleInv, BindingTypeOK, WellFormed, Disjoint, Gapless, AtMidnights

(* What a schedule that is accepted does to the key the session looks at. *)
Replaces(a, s, mode) ==
    /\ revision' = [revision EXCEPT ![s] = @ + 1]
    /\ periods' = [periods EXCEPT ![s] = Rescheduled(@, mode, clock)]
    /\ seen' = [seen EXCEPT ![a] = [scope |-> s, revision |-> revision[s] + 1,
                                    periods |-> Rescheduled(periods[s], mode, clock)]]
    /\ UNCHANGED <<clock, plans, live>>

LEMMA ScheduleEffect ==
    ASSUME ScheduleInv, NEW a \in Admins, NEW mode \in Modes, Schedule(a, mode)
    PROVE  \E s \in Scopes : Replaces(a, s, mode)
  <1>1. seen[a] \in Views
    BY DEF Schedule, ScheduleInv, BindingTypeOK
  <1>2. seen[a].scope \in Scopes
    BY <1>1 DEF Views
  <1>3. Replaces(a, seen[a].scope, mode)
    BY DEF Schedule, Replaces
  <1> QED
    BY <1>2, <1>3

LEMMA ScheduleInvNext == ScheduleInv /\ [BindingNext]_bindingVars => ScheduleInv'
  <1> SUFFICES ASSUME ScheduleInv, [BindingNext]_bindingVars PROVE ScheduleInv'
    OBVIOUS
  <1> USE DEF ScheduleInv
  <1>1. CASE BindingTick
    <2>1. clock \in Instants /\ clock' \in Instants /\ clock < clock' /\ clock \in Nat /\ clock' \in Nat
      BY <1>1, CalendarAssumption DEF BindingTick, BindingTypeOK
    <2>2. \A s \in Scopes : WellFormed(periods[s], clock')
      BY <2>1, LaterWellFormed
    <2>3. /\ plans' = plans /\ live' = live /\ revision' = revision
          /\ periods' = periods /\ seen' = seen
      BY <1>1 DEF BindingTick
    <2>4. \A s \in Scopes : WellFormed(periods'[s], clock')
      BY <2>2, <2>3
    <2>5. BindingTypeOK'
      BY <2>1, <2>3 DEF BindingTypeOK
    <2> QED
      BY <2>4, <2>5
  <1>2. ASSUME NEW p \in Plans, CreatePlan(p) PROVE ScheduleInv'
    BY <1>2 DEF CreatePlan, BindingTypeOK
  <1>3. ASSUME NEW keys \in SUBSET Scopes, SyncKeys(keys) PROVE ScheduleInv'
    BY <1>3 DEF SyncKeys, BindingTypeOK
  <1>4. ASSUME NEW a \in Admins, NEW s \in Scopes, Look(a, s) PROVE ScheduleInv'
    <2>1. View(s) \in Views
      BY DEF View, Views, BindingTypeOK
    <2> QED
      BY <1>4, <2>1 DEF Look, BindingTypeOK
  <1>5. ASSUME NEW a \in Admins, NEW mode \in Modes, Schedule(a, mode) PROVE ScheduleInv'
    <2>1. PICK s \in Scopes : Replaces(a, s, mode)
      BY <1>5, ScheduleEffect
    <2>2. WellFormed(Rescheduled(periods[s], mode, clock), clock)
      BY RescheduledWellFormed DEF BindingTypeOK
    <2>3. \A t \in Scopes : WellFormed(periods'[t], clock')
      BY <2>1, <2>2 DEF BindingTypeOK, Replaces
    <2>4. revision' \in [Scopes -> Nat] /\ revision[s] + 1 \in Nat
      BY <2>1 DEF BindingTypeOK, Replaces
    <2>5. [scope |-> s, revision |-> revision[s] + 1,
           periods |-> Rescheduled(periods[s], mode, clock)] \in Views
      BY <2>2, <2>4 DEF Views, WellFormed
    <2>6. periods' \in [Scopes -> SUBSET Period]
      BY <2>1, <2>2 DEF BindingTypeOK, WellFormed, Replaces
    <2> QED
      BY <2>1, <2>3, <2>4, <2>5, <2>6 DEF BindingTypeOK, Replaces
  <1>6. CASE UNCHANGED bindingVars
    BY <1>6 DEF bindingVars, BindingTypeOK
  <1> QED
    BY <1>1, <1>2, <1>3, <1>4, <1>5, <1>6 DEF BindingNext

LEMMA ScheduleInvAlways == BindingSpec => []ScheduleInv
  BY ScheduleInvInit, ScheduleInvNext, PTL DEF BindingSpec

(* The schedules and the sessions are well typed. *)
THEOREM ScheduleTypeCorrect == BindingSpec => []BindingTypeOK
  <1>1. ScheduleInv => BindingTypeOK
    BY DEF ScheduleInv
  <1> QED
    BY <1>1, ScheduleInvAlways, PTL

(* binding() never finds two periods (ScheduleGroupBinding closes the active *)
(* period and drops the pending one). *)
THEOREM OneMode == BindingSpec => []OneModeAtATime
  <1>1. ScheduleInv => OneModeAtATime
    BY DEF ScheduleInv, OneModeAtATime, WellFormed
  <1> QED
    BY <1>1, ScheduleInvAlways, PTL

(* A schedule never falls back to legacy by leaving a gap. *)
THEOREM GapFree == BindingSpec => []NoGap
  <1>1. ScheduleInv => NoGap
    BY DEF ScheduleInv, NoGap, WellFormed
  <1> QED
    BY <1>1, ScheduleInvAlways, PTL

(* However schedules are made, replaced and cancelled, the mode that admission *)
(* and accounting look up exists and is unique.                              *)
THEOREM ExactlyOne == BindingSpec => []ExactlyOneMode
  <1>1. OneModeAtATime /\ NoGap => ExactlyOneMode
    BY DEF ExactlyOneMode
  <1> QED
    BY <1>1, OneMode, GapFree, PTL

(* Modes change at midnight only, and at the coming one at the latest. *)
THEOREM Midnights == BindingSpec => []OnlyTheNextMidnight
  <1>1. ScheduleInv => OnlyTheNextMidnight
    BY DEF ScheduleInv, OnlyTheNextMidnight, WellFormed
  <1> QED
    BY <1>1, ScheduleInvAlways, PTL

(* No step rewrites the mode of the current day or of an earlier one. *)
THEOREM HistoryIsFixed == BindingSpec => HistoryFixed
  <1> DEFINE Kept == \A s \in Scopes : \A t \in Instants : t < NextMidnight[clock] =>
                        ModeAt(periods'[s], t) = ModeAt(periods[s], t)
  <1>1. ScheduleInv /\ [BindingNext]_bindingVars => Kept
    <2> SUFFICES ASSUME ScheduleInv, [BindingNext]_bindingVars, periods' # periods PROVE Kept
      OBVIOUS
    <2>1. PICK a \in Admins, mode \in Modes : Schedule(a, mode)
      BY DEF BindingNext, bindingVars, BindingTick, CreatePlan, SyncKeys, Look
    <2>2. PICK s \in Scopes : Replaces(a, s, mode)
      BY <2>1, ScheduleEffect
    <2>3. ASSUME NEW t \in Instants, t < NextMidnight[clock]
          PROVE  ModeAt(Rescheduled(periods[s], mode, clock), t) = ModeAt(periods[s], t)
      BY <2>3, RescheduledKeepsMode DEF ScheduleInv, BindingTypeOK
    <2>4. \A r \in Scopes : periods'[r] = IF r = s THEN Rescheduled(periods[s], mode, clock)
                                                    ELSE periods[r]
      BY <2>2 DEF ScheduleInv, BindingTypeOK, Replaces
    <2> QED
      BY <2>3, <2>4
  <1>2. ScheduleInv /\ [BindingNext]_bindingVars => [Kept]_bindingVars
    BY <1>1
  <1> QED
    BY <1>2, ScheduleInvAlways, PTL DEF BindingSpec, HistoryFixed
-----------------------------------------------------------------------------
(* Sessions *)

(* A session shows the current schedule of its key or an older revision.     *)
ViewsLag ==
    \A a \in Admins : seen[a] # NoView =>
        /\ seen[a].revision <= revision[seen[a].scope]
        /\ seen[a].revision = revision[seen[a].scope] => seen[a].periods = periods[seen[a].scope]

LEMMA ViewsLagNext == ScheduleInv /\ ViewsLag /\ [BindingNext]_bindingVars => ViewsLag'
  <1> SUFFICES ASSUME ScheduleInv, ViewsLag, [BindingNext]_bindingVars PROVE ViewsLag'
    OBVIOUS
  <1>1. CASE UNCHANGED <<revision, periods, seen>>
    BY <1>1 DEF ViewsLag
  <1>2. ASSUME NEW a \in Admins, NEW s \in Scopes, Look(a, s) PROVE ViewsLag'
    <2>1. \A b \in Admins : seen'[b] = IF b = a THEN View(s) ELSE seen[b]
      BY <1>2 DEF Look, ScheduleInv, BindingTypeOK
    <2>2. revision' = revision /\ periods' = periods /\ revision[s] \in Nat
      BY <1>2 DEF Look, ScheduleInv, BindingTypeOK
    <2>3. View(s).scope = s /\ View(s).revision = revision[s] /\ View(s).periods = periods[s]
      BY DEF View
    <2>4. ASSUME NEW b \in Admins, seen'[b] # NoView
          PROVE  /\ seen'[b].revision <= revision'[seen'[b].scope]
                 /\ seen'[b].revision = revision'[seen'[b].scope] =>
                        seen'[b].periods = periods'[seen'[b].scope]
      <3>1. CASE b = a
        BY <2>1, <2>2, <2>3, <3>1
      <3>2. CASE b # a
        BY <2>1, <2>2, <2>4, <3>2 DEF ViewsLag
      <3> QED
        BY <3>1, <3>2
    <2> QED
      BY <2>4 DEF ViewsLag
  <1>3. ASSUME NEW a \in Admins, NEW mode \in Modes, Schedule(a, mode) PROVE ViewsLag'
    <2>1. PICK s \in Scopes : Replaces(a, s, mode)
      BY <1>3, ScheduleEffect
    <2> DEFINE v == [scope |-> s, revision |-> revision[s] + 1,
                     periods |-> Rescheduled(periods[s], mode, clock)]
    <2>2. \A b \in Admins : seen'[b] = IF b = a THEN v ELSE seen[b]
      BY <2>1 DEF Replaces, ScheduleInv, BindingTypeOK
    <2>3. \A r \in Scopes : /\ revision'[r] = IF r = s THEN revision[s] + 1 ELSE revision[r]
                            /\ periods'[r] = IF r = s THEN v.periods ELSE periods[r]
                            /\ revision[r] \in Nat
      BY <2>1 DEF Replaces, ScheduleInv, BindingTypeOK
    <2>4. v.scope = s /\ v.revision = revision[s] + 1
      OBVIOUS
    <2> HIDE DEF v
    <2>5. ASSUME NEW b \in Admins, seen'[b] # NoView
          PROVE  /\ seen'[b].revision <= revision'[seen'[b].scope]
                 /\ seen'[b].revision = revision'[seen'[b].scope] =>
                        seen'[b].periods = periods'[seen'[b].scope]
      <3>1. CASE b = a
        BY <2>2, <2>3, <2>4, <3>1
      <3>2. CASE b # a
        <4>1. seen'[b] = seen[b] /\ seen[b] \in Views
          BY <2>2, <2>5, <3>2 DEF ScheduleInv, BindingTypeOK
        <4>2. PICK r \in Scopes : r = seen[b].scope /\ seen[b].revision \in Nat
          BY <4>1 DEF Views
        <4>3. /\ seen[b].revision <= revision[r]
              /\ seen[b].revision = revision[r] => seen[b].periods = periods[r]
          BY <2>5, <4>1, <4>2 DEF ViewsLag
        <4> QED
          BY <2>3, <4>1, <4>2, <4>3
      <3> QED
        BY <3>1, <3>2
    <2> QED
      BY <2>5 DEF ViewsLag
  <1> QED
    BY <1>1, <1>2, <1>3 DEF BindingNext, bindingVars, BindingTick, CreatePlan, SyncKeys

(* Every accepted schedule was decided by a session that saw the one it       *)
(* replaces: comparing revisions (group_config.go, ScheduleGroupBinding) is  *)
(* as good as comparing schedules.                                           *)
THEOREM NothingIsOverwritten == BindingSpec => NoLostUpdate
  <1> DEFINE Seen == \A s \in Scopes : periods'[s] # periods[s] =>
                        \E a \in Admins : seen[a] = View(s) /\ seen'[a] # seen[a]
  <1>1. BindingInit => ViewsLag
    BY DEF BindingInit, ViewsLag
  <1>2. ScheduleInv /\ ViewsLag /\ [BindingNext]_bindingVars => [Seen]_bindingVars
    <2> SUFFICES ASSUME ScheduleInv, ViewsLag, [BindingNext]_bindingVars, NEW s \in Scopes, periods'[s] # periods[s]
                 PROVE  \E a \in Admins : seen[a] = View(s) /\ seen'[a] # seen[a]
      OBVIOUS
    <2>1. PICK a \in Admins, mode \in Modes : Schedule(a, mode)
      BY DEF BindingNext, bindingVars, BindingTick, CreatePlan, SyncKeys, Look
    <2>2. seen[a] # NoView /\ seen[a] \in Views
      BY <2>1 DEF Schedule, ScheduleInv, BindingTypeOK
    <2>3. PICK r \in Scopes : r = seen[a].scope
      BY <2>2 DEF Views
    <2>4. Replaces(a, r, mode) /\ revision[r] = seen[a].revision
      BY <2>1, <2>3 DEF Schedule, Replaces
    <2>5. r = s
      BY <2>4 DEF Replaces, ScheduleInv, BindingTypeOK
    <2>6. seen[a].periods = periods[s]
      BY <2>2, <2>3, <2>4, <2>5 DEF ViewsLag
    <2>7. seen[a] = [scope |-> seen[a].scope, revision |-> seen[a].revision,
                     periods |-> seen[a].periods]
      BY <2>2 DEF Views
    <2>8. seen[a] = View(s)
      BY <2>3, <2>4, <2>5, <2>6, <2>7 DEF View
    <2>9. seen'[a].revision = revision[s] + 1 /\ revision[s] \in Nat
      BY <2>4, <2>5 DEF Replaces, ScheduleInv, BindingTypeOK
    <2>10. seen'[a] # seen[a]
      BY <2>4, <2>5, <2>9
    <2> QED
      BY <2>8, <2>10
  <1> QED
    BY <1>1, <1>2, ScheduleInvAlways, ViewsLagNext, PTL DEF BindingSpec, NoLostUpdate

-----------------------------------------------------------------------------
(* What the operators on a ledger and on the maps return *)

LEMMA DayType ==
    ASSUME TypeOK, NEW k PROVE Day(k) \in GroupDay
  <1>1. EmptyDay \in GroupDay
    BY LedgerAssumption DEF EmptyDay, GroupDay
  <1> QED
    BY <1>1 DEF Day, TypeOK

LEMMA CountRequestEffect ==
    ASSUME NEW d \in GroupDay
    PROVE  LET n == CountRequest(d) IN
           /\ n \in GroupDay
           /\ n.raw = d.raw /\ n.credit = d.credit /\ n.cutoff = d.cutoff /\ n.error = d.error
           /\ n.incomplete \in Nat /\ d.incomplete <= n.incomplete
  BY LedgerAssumption DEF CountRequest, GroupDay

(* The ledger takes the amount of an event. *)
Takes(d, at, usage) == usage \in Amounts /\ Fits(d, at, usage)

LEMMA TakenEffect ==
    ASSUME NEW d \in GroupDay, d.credit <= d.raw, NEW at, NEW usage, Takes(d, at, usage),
           NEW n, n = Booked(d, at, usage)
    PROVE  /\ n \in GroupDay /\ n.cutoff = d.cutoff /\ n.error = d.error
           /\ n.credit <= n.raw
           /\ n.raw - n.credit = IF Credited(d, at) THEN d.raw - d.credit ELSE d.raw - d.credit + usage
           /\ n.raw = d.raw + usage /\ n.incomplete = d.incomplete
  <1>1. usage \in Nat /\ usage # Unpriced /\ MaxInt \in Nat
    BY LedgerAssumption DEF Takes
  <1>2. d.raw + usage <= MaxInt /\ (Credited(d, at) => d.credit + usage <= MaxInt)
    BY DEF Takes, Fits
  <1>3. n = Charged(d, at, usage)
    BY <1>1 DEF Booked, Takes
  <1>4. /\ n.raw = d.raw + usage
        /\ n.credit = IF Credited(d, at) THEN d.credit + usage ELSE d.credit
        /\ n.cutoff = d.cutoff /\ n.error = d.error /\ n.requests = d.requests
        /\ n.incomplete = d.incomplete
        /\ n = [raw |-> n.raw, credit |-> n.credit, cutoff |-> n.cutoff, error |-> n.error,
                requests |-> n.requests, incomplete |-> n.incomplete]
    BY <1>3 DEF Charged, GroupDay
  <1>5. d.raw \in 0..MaxInt /\ d.credit \in 0..MaxInt
    BY DEF GroupDay
  <1>6. n.raw \in 0..MaxInt /\ n.credit \in 0..MaxInt
    BY <1>1, <1>2, <1>4, <1>5
  <1>7. n \in GroupDay
    BY <1>4, <1>6 DEF GroupDay
  <1> QED
    BY <1>1, <1>4, <1>5, <1>7

LEMMA NotTakenEffect ==
    ASSUME NEW d \in GroupDay, NEW at, NEW usage, ~Takes(d, at, usage),
           NEW n, n = Booked(d, at, usage)
    PROVE  /\ n \in GroupDay /\ n.cutoff = d.cutoff /\ n.raw = d.raw /\ n.credit = d.credit
           /\ usage = Unpriced => n.error = d.error
           /\ usage # Unpriced => n.error
           /\ n.incomplete = d.incomplete + 1
  <1>1. n = IF usage = Unpriced THEN Incomplete(d) ELSE Unbooked(d)
    BY DEF Booked, Takes
  <1>2. /\ n.raw = d.raw /\ n.credit = d.credit /\ n.cutoff = d.cutoff /\ n.requests = d.requests
        /\ n.error = IF usage = Unpriced THEN d.error ELSE TRUE
        /\ n.incomplete = d.incomplete + 1
        /\ n = [raw |-> n.raw, credit |-> n.credit, cutoff |-> n.cutoff, error |-> n.error,
                requests |-> n.requests, incomplete |-> n.incomplete]
    BY <1>1 DEF Incomplete, Unbooked, GroupDay
  <1>3. d.error \in BOOLEAN
    BY DEF GroupDay
  <1>4. n.error \in BOOLEAN
    BY <1>2, <1>3, Zenon
  <1>5. n.incomplete \in Nat
    BY <1>2 DEF GroupDay
  <1> QED
    BY <1>2, <1>4, <1>5 DEF GroupDay

-----------------------------------------------------------------------------
(* The inductive invariant *)

SchedulesOK == \A s \in Scopes : WellFormed(periods[s], clock)

CutoffsPast == \A k \in DOMAIN days : days[k].cutoff # Never => days[k].cutoff <= clock

GroupsOK ==
    \A g \in Groups :
        IF group[g].status = "draft" THEN group[g].publishedAt = Never
        ELSE group[g].publishedAt \in Instants /\ group[g].publishedAt <= clock

EventsPast == \A e \in DOMAIN events : e.at <= clock

KeyOf(e) == <<e.scope, e.model, NextMidnight[e.at]>>

UnbookedIsMarked ==
    \A e \in DOMAIN events :
        e.class = "grouped" /\ e.cost = TooLarge =>
            KeyOf(e) \in DOMAIN days /\ days[KeyOf(e)].error

Inv ==
    /\ TypeOK /\ SchedulesOK /\ CreditWithinRaw /\ CutoffsPast
    /\ GroupsOK /\ EventsPast /\ ClassesAreStable /\ UnbookedIsMarked

LEMMA InvInit == Init => Inv
  <1> SUFFICES ASSUME Init PROVE Inv
    OBVIOUS
  <1>1. DOMAIN policies = {} /\ DOMAIN days = {} /\ DOMAIN events = {}
    BY DEF Init
  <1>2. \A s \in Scopes : WellFormed(periods[s], clock)
    BY DEF Init, WellFormed, Disjoint, Gapless, AtMidnights
  <1>3. TypeOK
    BY <1>1 DEF Init, TypeOK, Group
  <1> QED
    BY <1>1, <1>2, <1>3 DEF Init, Inv, SchedulesOK, CreditWithinRaw, CutoffsPast, GroupsOK, EventsPast,
       ClassesAreStable, UnbookedIsMarked

-----------------------------------------------------------------------------
(* The class of recorded events *)

ClassOK(e) ==
    \/ Class(e.scope, e.model, e.at, e.timed) = e.class
    \/ /\ e.class = "unclassified" /\ e.timed
       /\ e.model \in Groups /\ group[e.model].publishedAt = e.at

(* Neither the modes of the past nor the owners change. *)
LEMMA ClassKept ==
    ASSUME NEW e \in Event, ClassOK(e),
           GroupedAt(periods'[e.scope], e.at) = GroupedAt(periods[e.scope], e.at),
           \A g \in Groups : /\ group'[g].publishedAt = group[g].publishedAt
                             /\ group'[g].status = "draft" <=> group[g].status = "draft"
    PROVE  ClassOK(e)'
  <1>1. Owned(e.model, e.at)' <=> Owned(e.model, e.at)
    BY DEF Owned
  <1>2. Class(e.scope, e.model, e.at, e.timed)' = Class(e.scope, e.model, e.at, e.timed)
    BY <1>1 DEF Class
  <1> QED
    BY <1>2 DEF ClassOK

(* A publication adds an owner from its instant on. *)
LEMMA PublishKeepsClass ==
    ASSUME Inv, NEW g \in Groups, Publish(g), NEW e \in DOMAIN events
    PROVE  ClassOK(e)'
  <1>1. e \in Event /\ ClassOK(e) /\ e.at <= clock /\ e.at \in Nat /\ clock \in Nat /\ clock \in Instants
    BY CalendarAssumption DEF Inv, TypeOK, ClassesAreStable, ClassOK, EventsPast, Event
  <1>2. /\ group[g].status = "draft" /\ periods' = periods
        /\ \A h \in Groups : h # g => group'[h] = group[h]
        /\ group'[g].status = "published" /\ group'[g].publishedAt = clock
    BY DEF Publish, Published, Inv, TypeOK, Group
  <1>3. CASE e.model # g
    <2>1. Owned(e.model, e.at)' <=> Owned(e.model, e.at)
      BY <1>2, <1>3 DEF Owned
    <2>2. Class(e.scope, e.model, e.at, e.timed)' = Class(e.scope, e.model, e.at, e.timed)
      BY <1>2, <2>1 DEF Class
    <2> QED
      BY <1>1, <1>2, <1>3, <2>2 DEF ClassOK
  <1>4. CASE e.model = g
    <2>1. ~Owned(g, e.at)
      BY <1>2 DEF Owned
    <2>2. group[g].publishedAt = Never /\ e.at # Never
      BY <1>1, <1>2, LedgerAssumption DEF Inv, GroupsOK
    <2>3. Class(e.scope, g, e.at, e.timed) = e.class /\ e.class # "grouped"
      BY <1>1, <1>4, <2>1, <2>2 DEF ClassOK, Class
    <2>4. CASE e.at = clock
      BY <1>2, <1>4, <2>1, <2>3, <2>4 DEF ClassOK, Class
    <2>5. CASE e.at < clock
      <3>1. ~Owned(g, e.at)'
        BY <1>1, <1>2, <2>5 DEF Owned
      <3> QED
        BY <1>2, <1>4, <2>1, <2>3, <3>1 DEF ClassOK, Class
    <2> QED
      BY <1>1, <2>4, <2>5
  <1> QED
    BY <1>3, <1>4

(* A schedule begins at the coming midnight, after every recorded event. *)
LEMMA ScheduleKeepsClass ==
    ASSUME Inv, NEW s \in Scopes, NEW mode \in Modes, ScheduleGroupBinding(s, mode),
           NEW e \in DOMAIN events
    PROVE  ClassOK(e)'
  <1>1. e \in Event /\ ClassOK(e) /\ e.at \in Instants /\ e.scope \in Scopes
    BY DEF Inv, TypeOK, ClassesAreStable, ClassOK, Event
  <1>2. e.at < NextMidnight[clock] /\ clock \in Instants
    BY <1>1, CalendarAssumption DEF Inv, TypeOK, EventsPast
  <1>3. ModeAt(Rescheduled(periods[s], mode, clock), e.at) = ModeAt(periods[s], e.at)
    BY <1>1, <1>2, RescheduledKeepsMode DEF Inv, SchedulesOK
  <1>4. periods'[e.scope] = IF e.scope = s THEN Rescheduled(periods[s], mode, clock) ELSE periods[e.scope]
    BY <1>1 DEF ScheduleGroupBinding, Inv, TypeOK
  <1>5. GroupedAt(periods'[e.scope], e.at) = GroupedAt(periods[e.scope], e.at)
    BY <1>3, <1>4 DEF GroupedAt
  <1>6. group' = group
    BY DEF ScheduleGroupBinding
  <1> QED
    BY <1>1, <1>5, <1>6, ClassKept

-----------------------------------------------------------------------------
(* The invariant is preserved *)

(* A step that touches neither ledgers nor events. *)
LEMMA QuietStep ==
    ASSUME Inv, days' = days, events' = events, TypeOK', SchedulesOK', GroupsOK', clock <= clock',
           \A e \in DOMAIN events : ClassOK(e)'
    PROVE  Inv'
  <1>1. clock \in Nat /\ clock' \in Nat
    BY CalendarAssumption DEF Inv, TypeOK
  <1>2. CreditWithinRaw' /\ UnbookedIsMarked'
    BY DEF Inv, CreditWithinRaw, UnbookedIsMarked, KeyOf
  <1>3. CutoffsPast'
    <2> SUFFICES ASSUME NEW k \in DOMAIN days, days[k].cutoff # Never
                 PROVE  days[k].cutoff <= clock'
      BY DEF CutoffsPast
    <2>1. days[k].cutoff \in Nat /\ days[k].cutoff <= clock
      BY CalendarAssumption DEF Inv, TypeOK, CutoffsPast, GroupDay
    <2> QED
      BY <1>1, <2>1
  <1>4. EventsPast'
    <2> SUFFICES ASSUME NEW e \in DOMAIN events PROVE e.at <= clock'
      BY DEF EventsPast
    <2>1. e.at \in Nat /\ e.at <= clock
      BY CalendarAssumption DEF Inv, TypeOK, EventsPast, Event
    <2> QED
      BY <1>1, <2>1
  <1>5. ClassesAreStable'
    BY DEF ClassesAreStable, ClassOK
  <1> QED
    BY <1>2, <1>3, <1>4, <1>5 DEF Inv

(* A step that replaces one ledger. *)
LEMMA LedgerStep ==
    ASSUME Inv, NEW k \in Keys, NEW d \in GroupDay, days' = With(days, k, d), clock' = clock,
           d.credit <= d.raw, d.cutoff # Never => d.cutoff <= clock, Day(k).error => d.error
    PROVE  /\ DOMAIN days' \subseteq Keys /\ days' \in [DOMAIN days' -> GroupDay]
           /\ CreditWithinRaw' /\ CutoffsPast'
           /\ k \in DOMAIN days' /\ days'[k] = d
           /\ \A j \in DOMAIN days : /\ j \in DOMAIN days'
                                     /\ j # k => days'[j] = days[j]
                                     /\ days[j].error => days'[j].error
  <1>1. DOMAIN days \subseteq Keys /\ days \in [DOMAIN days -> GroupDay]
    BY DEF Inv, TypeOK
  <1>2. /\ DOMAIN days' = DOMAIN days \union {k}
        /\ DOMAIN days' \subseteq Keys /\ days' \in [DOMAIN days' -> GroupDay]
        /\ days'[k] = d
        /\ \A j \in DOMAIN days : j # k => days'[j] = days[j]
    BY <1>1 DEF With
  <1>3. CreditWithinRaw'
    BY <1>2 DEF Inv, CreditWithinRaw
  <1>4. CutoffsPast'
    BY <1>2 DEF Inv, CutoffsPast
  <1>5. \A j \in DOMAIN days : days[j].error => days'[j].error
    <2> SUFFICES ASSUME NEW j \in DOMAIN days, days[j].error PROVE days'[j].error
      OBVIOUS
    <2>1. CASE j = k
      BY <1>2, <2>1 DEF Day
    <2>2. CASE j # k
      BY <1>2, <2>2
    <2> QED
      BY <2>1, <2>2
  <1> QED
    BY <1>2, <1>3, <1>4, <1>5

LEMMA DayIsSound ==
    ASSUME Inv, NEW k
    PROVE  /\ Day(k) \in GroupDay /\ Day(k).credit <= Day(k).raw
           /\ Day(k).cutoff # Never => Day(k).cutoff <= clock
  <1>1. Day(k) \in GroupDay
    BY DayType DEF Inv
  <1> QED
    BY <1>1 DEF Inv, CreditWithinRaw, CutoffsPast, Day, EmptyDay

LEMMA ForgivenEffect ==
    ASSUME NEW q \in GroupDay, NEW now \in Instants, NEW n, n = Forgiven(q, now)
    PROVE  /\ n \in GroupDay /\ n.raw = q.raw /\ n.credit = q.raw /\ n.credit <= n.raw
           /\ n.cutoff = now /\ n.error = q.error /\ n.incomplete = q.incomplete
  <1>1. /\ n.raw = q.raw /\ n.credit = q.raw /\ n.cutoff = now /\ n.error = q.error
        /\ n.requests = q.requests /\ n.incomplete = q.incomplete
        /\ n = [raw |-> n.raw, credit |-> n.credit, cutoff |-> n.cutoff, error |-> n.error,
                requests |-> n.requests, incomplete |-> n.incomplete]
    BY DEF Forgiven, GroupDay
  <1>2. q.raw \in 0..MaxInt /\ MaxInt \in Nat
    BY LedgerAssumption DEF GroupDay
  <1>3. n \in GroupDay
    BY <1>1 DEF GroupDay
  <1> QED
    BY <1>1, <1>2, <1>3

LEMMA ResetStep ==
    ASSUME Inv, NEW s \in Scopes, NEW g \in Groups, ResetGroupDay(s, g)
    PROVE  Inv'
  <1> DEFINE k == <<s, g, NextMidnight[clock]>>
             d == Forgiven(Day(k), clock)
  <1>1. clock \in Instants /\ clock \in Nat /\ k \in Keys
    BY CalendarAssumption DEF Inv, TypeOK, Keys, Dates
  <1>2. Day(k) \in GroupDay
    BY DayIsSound
  <1>3. /\ d \in GroupDay /\ d.credit <= d.raw /\ d.cutoff = clock /\ d.error = Day(k).error
    BY <1>1, <1>2, ForgivenEffect
  <1>4. days' = With(days, k, d) /\ UNCHANGED <<clock, periods, group, policies, unclassified, events>>
    BY DEF ResetGroupDay
  <1> HIDE DEF d, k
  <1>5. /\ DOMAIN days' \subseteq Keys /\ days' \in [DOMAIN days' -> GroupDay]
        /\ CreditWithinRaw' /\ CutoffsPast'
        /\ \A j \in DOMAIN days : /\ j \in DOMAIN days'
                                  /\ days[j].error => days'[j].error
    BY <1>1, <1>3, <1>4, LedgerStep
  <1>6. TypeOK'
    BY <1>4, <1>5 DEF Inv, TypeOK
  <1>7. SchedulesOK' /\ GroupsOK' /\ EventsPast'
    BY <1>4 DEF Inv, SchedulesOK, GroupsOK, EventsPast
  <1>8. ClassesAreStable'
    BY <1>4 DEF Inv, ClassesAreStable, Class, Owned
  <1>9. UnbookedIsMarked'
    BY <1>4, <1>5 DEF Inv, UnbookedIsMarked, KeyOf
  <1> QED
    BY <1>5, <1>6, <1>7, <1>8, <1>9 DEF Inv

(* The event of a usage record. *)
Recorded(s, m, at, timed, usage) ==
    LET class == Class(s, m, at, timed) IN
    [scope |-> s, model |-> m, at |-> at, timed |-> timed, class |-> class,
     cost |-> IF class = "grouped" THEN Attributed(Day(<<s, m, NextMidnight[at]>>), at, usage)
              ELSE Unpriced]

LEMMA RecordedEffect ==
    ASSUME Inv, NEW s \in Scopes, NEW m \in Groups \union {NoGroup}, NEW at \in Instants,
           NEW timed, timed \in BOOLEAN, NEW usage \in Amounts \union {TooLarge, Unpriced},
           RecordUsage(s, m, at, timed, usage),
           NEW e, e = Recorded(s, m, at, timed, usage)
    PROVE  /\ e \in Event /\ ClassOK(e) /\ e.at <= clock
           /\ DOMAIN events' = DOMAIN events \union {e}
           /\ events' \in [DOMAIN events' -> Nat]
  <1>1. Class(s, m, at, timed) \in {"legacy", "unclassified", "grouped"}
    BY DEF Class
  <1>2. e.cost \in Amounts \union {TooLarge, Unpriced}
    BY DEF Recorded, Attributed
  <1>3. /\ e.scope = s /\ e.model = m /\ e.at = at /\ e.timed = timed
        /\ e.class = Class(s, m, at, timed)
    BY DEF Recorded
  <1>4. e \in Event
    BY <1>1, <1>2, <1>3 DEF Event, Recorded
  <1>5. ClassOK(e)
    BY <1>3 DEF ClassOK
  <1>6. at <= clock /\ events' = With(events, e, Copies(e) + 1)
    BY DEF RecordUsage, Recorded
  <1>7. Copies(e) + 1 \in Nat /\ events \in [DOMAIN events -> Nat]
    BY DEF Copies, Inv, TypeOK
  <1>8. DOMAIN events' = DOMAIN events \union {e} /\ events' \in [DOMAIN events' -> Nat]
    BY <1>6, <1>7 DEF With
  <1> QED
    BY <1>3, <1>4, <1>5, <1>6, <1>8

(* What a usage record does to the ledger it is for. *)
BookedDay(k, at, usage) == CountRequest(Booked(Day(k), at, usage))

LEMMA BookedDayEffect ==
    ASSUME Inv, NEW k \in Keys, NEW at, NEW usage \in Amounts \union {TooLarge, Unpriced},
           NEW d, d = BookedDay(k, at, usage)
    PROVE  /\ d \in GroupDay /\ d.credit <= d.raw /\ d.cutoff = Day(k).cutoff
           /\ Day(k).error => d.error
           /\ Attributed(Day(k), at, usage) = TooLarge => d.error
           /\ Takes(Day(k), at, usage) =>
                 /\ d.error = Day(k).error
                 /\ d.raw - d.credit = IF Credited(Day(k), at) THEN Day(k).raw - Day(k).credit
                                       ELSE Day(k).raw - Day(k).credit + usage
           /\ ~Takes(Day(k), at, usage) =>
                 /\ d.raw - d.credit = Day(k).raw - Day(k).credit
                 /\ usage = Unpriced => d.error = Day(k).error
                 /\ usage # Unpriced => d.error
           /\ d.raw = IF Takes(Day(k), at, usage) THEN Day(k).raw + usage ELSE Day(k).raw
           /\ Day(k).incomplete # 0 \/ ~Takes(Day(k), at, usage) => d.incomplete # 0
  <1>0. PICK q, b : q = Day(k) /\ b = Booked(q, at, usage)
    OBVIOUS
  <1>1. q \in GroupDay /\ q.credit <= q.raw /\ q.incomplete \in Nat
    BY <1>0, DayIsSound DEF GroupDay
  <1>2. CASE Takes(q, at, usage)
    <2>1. /\ b \in GroupDay /\ b.cutoff = q.cutoff /\ b.error = q.error
          /\ b.credit <= b.raw
          /\ b.raw - b.credit = IF Credited(q, at) THEN q.raw - q.credit
                                ELSE q.raw - q.credit + usage
          /\ b.raw = q.raw + usage /\ b.incomplete = q.incomplete
      BY <1>0, <1>1, <1>2, TakenEffect
    <2>2. d = CountRequest(b)
      BY <1>0 DEF BookedDay
    <2>3. /\ d \in GroupDay /\ d.raw = b.raw /\ d.credit = b.credit /\ d.cutoff = b.cutoff
          /\ d.error = b.error /\ d.incomplete \in Nat /\ b.incomplete <= d.incomplete
      BY <2>1, <2>2, CountRequestEffect
    <2>4. Attributed(q, at, usage) # TooLarge
      BY <1>2, LedgerAssumption DEF Attributed, Takes
    <2> QED
      BY <1>1, <1>2, <2>1, <2>3, <2>4, <1>0
  <1>3. CASE ~Takes(q, at, usage)
    <2>1. /\ b \in GroupDay /\ b.cutoff = q.cutoff /\ b.raw = q.raw
          /\ b.credit = q.credit
          /\ usage = Unpriced => b.error = q.error
          /\ usage # Unpriced => b.error
          /\ b.incomplete = q.incomplete + 1
      BY <1>0, <1>1, <1>3, NotTakenEffect
    <2>2. d = CountRequest(b)
      BY <1>0 DEF BookedDay
    <2>3. /\ d \in GroupDay /\ d.raw = b.raw /\ d.credit = b.credit /\ d.cutoff = b.cutoff
          /\ d.error = b.error /\ d.incomplete \in Nat /\ b.incomplete <= d.incomplete
      BY <2>1, <2>2, CountRequestEffect
    <2>4. Attributed(q, at, usage) = TooLarge => usage # Unpriced
      BY LedgerAssumption DEF Attributed
    <2> QED
      BY <1>1, <1>3, <2>1, <2>3, <2>4, <1>0
  <1> QED
    BY <1>0, <1>2, <1>3

LEMMA GroupedKey ==
    ASSUME NEW s \in Scopes, NEW m, NEW at \in Instants, NEW timed,
           Class(s, m, at, timed) = "grouped"
    PROVE  <<s, m, NextMidnight[at]>> \in Keys
  BY DEF Class, Owned, Keys, Dates

(* The ledgers after a usage record. *)
LEMMA RecordLedgers ==
    ASSUME Inv, NEW s \in Scopes, NEW m \in Groups \union {NoGroup}, NEW at \in Instants,
           NEW timed, timed \in BOOLEAN, NEW usage \in Amounts \union {TooLarge, Unpriced},
           RecordUsage(s, m, at, timed, usage)
    PROVE  /\ TypeOK' /\ CreditWithinRaw' /\ CutoffsPast'
           /\ \A j \in DOMAIN days : j \in DOMAIN days' /\ (days[j].error => days'[j].error)
           /\ \A k : k = <<s, m, NextMidnight[at]>> /\ Class(s, m, at, timed) = "grouped"
                        /\ Attributed(Day(k), at, usage) = TooLarge
                     => k \in DOMAIN days' /\ days'[k].error
  <1>1. PICK e : e = Recorded(s, m, at, timed, usage)
    OBVIOUS
  <1>2. DOMAIN events' \subseteq Event /\ events' \in [DOMAIN events' -> Nat]
    <2>1. /\ e \in Event /\ DOMAIN events' = DOMAIN events \union {e}
          /\ events' \in [DOMAIN events' -> Nat]
      BY <1>1, RecordedEffect, SMTT(30)
    <2> QED
      BY <2>1 DEF Inv, TypeOK
  <1>3. UNCHANGED <<clock, periods, group, policies>>
    BY DEF RecordUsage
  <1>4. CASE Class(s, m, at, timed) = "grouped"
    <2>1. PICK k, d : k = <<s, m, NextMidnight[at]>> /\ d = BookedDay(k, at, usage)
      OBVIOUS
    <2>2. k \in Keys
      BY <1>4, <2>1, GroupedKey
    <2>3. days' = With(days, k, d) /\ unclassified' = unclassified
      BY <1>4, <2>1 DEF RecordUsage, BookedDay
    <2>4. /\ d \in GroupDay /\ d.credit <= d.raw /\ d.cutoff = Day(k).cutoff
          /\ Day(k).error => d.error
          /\ Attributed(Day(k), at, usage) = TooLarge => d.error
      BY <2>1, <2>2, BookedDayEffect
    <2>5. d.cutoff # Never => d.cutoff <= clock
      BY <2>4, DayIsSound
    <2>6. /\ DOMAIN days' \subseteq Keys /\ days' \in [DOMAIN days' -> GroupDay]
          /\ CreditWithinRaw' /\ CutoffsPast'
          /\ k \in DOMAIN days' /\ days'[k] = d
          /\ \A j \in DOMAIN days : j \in DOMAIN days' /\ (days[j].error => days'[j].error)
      BY <1>3, <2>2, <2>3, <2>4, <2>5, LedgerStep
    <2>7. TypeOK'
      BY <1>2, <1>3, <2>3, <2>6 DEF Inv, TypeOK
    <2> QED
      BY <2>1, <2>4, <2>6, <2>7
  <1>5. CASE Class(s, m, at, timed) # "grouped"
    <2>1. days' = days
      BY <1>5 DEF RecordUsage
    <2>2. unclassified' \in [Scopes -> Nat]
      BY DEF RecordUsage, Inv, TypeOK
    <2>3. TypeOK'
      BY <1>2, <1>3, <2>1, <2>2 DEF Inv, TypeOK
    <2> QED
      BY <1>3, <1>5, <2>1, <2>3 DEF Inv, CreditWithinRaw, CutoffsPast
  <1> QED
    BY <1>4, <1>5

LEMMA RecordStep ==
    ASSUME Inv, NEW s \in Scopes, NEW m \in Groups \union {NoGroup}, NEW at \in Instants,
           NEW timed, timed \in BOOLEAN, NEW usage \in Amounts \union {TooLarge, Unpriced},
           RecordUsage(s, m, at, timed, usage)
    PROVE  Inv'
  <1>1. PICK e : e = Recorded(s, m, at, timed, usage)
    OBVIOUS
  <1>2. /\ e \in Event /\ ClassOK(e) /\ e.at <= clock
        /\ DOMAIN events' = DOMAIN events \union {e}
    BY <1>1, RecordedEffect, SMTT(30)
  <1>3. UNCHANGED <<clock, periods, group, policies>>
    BY DEF RecordUsage
  <1>4. TypeOK' /\ CreditWithinRaw' /\ CutoffsPast'
    BY RecordLedgers
  <1>5. SchedulesOK' /\ GroupsOK' /\ EventsPast'
    BY <1>2, <1>3 DEF Inv, SchedulesOK, GroupsOK, EventsPast
  <1>6. ClassesAreStable'
    <2> SUFFICES ASSUME NEW f \in DOMAIN events' PROVE ClassOK(f)'
      BY DEF ClassesAreStable, ClassOK
    <2>1. f \in Event /\ ClassOK(f)
      BY <1>2 DEF Inv, TypeOK, ClassesAreStable, ClassOK
    <2> QED
      BY <1>3, <2>1, ClassKept
  <1>7. UnbookedIsMarked'
    <2> SUFFICES ASSUME NEW f \in DOMAIN events', f.class = "grouped", f.cost = TooLarge
                 PROVE  KeyOf(f) \in DOMAIN days' /\ days'[KeyOf(f)].error
      BY DEF UnbookedIsMarked, KeyOf
    <2>1. CASE f \in DOMAIN events
      BY <2>1, RecordLedgers DEF Inv, UnbookedIsMarked
    <2>2. CASE f = e
      <3>1. PICK k : k = <<s, m, NextMidnight[at]>>
        OBVIOUS
      <3>2. KeyOf(f) = k /\ Class(s, m, at, timed) = "grouped"
        BY <1>1, <2>2, <3>1 DEF Recorded, KeyOf
      <3>3. Attributed(Day(k), at, usage) = TooLarge
        BY <1>1, <2>2, <3>1, <3>2 DEF Recorded
      <3> QED
        BY <3>1, <3>2, <3>3, RecordLedgers
    <2> QED
      BY <1>2, <2>1, <2>2
  <1> QED
    BY <1>4, <1>5, <1>6, <1>7 DEF Inv

LEMMA GroupEffects ==
    ASSUME NEW r \in Group, NEW now \in Instants
    PROVE  /\ Published(r, now) \in Group
           /\ Published(r, now).status = "published" /\ Published(r, now).publishedAt = now
           /\ Archived(r) \in Group
           /\ Archived(r).status = "archived" /\ Archived(r).publishedAt = r.publishedAt
  BY DEF Published, Archived, Group

LEMMA InvNext == Inv /\ [Next]_vars => Inv'
  <1> SUFFICES ASSUME Inv, [Next]_vars PROVE Inv'
    OBVIOUS
  <1>0. /\ clock \in Instants /\ clock \in Nat
        /\ \A e \in DOMAIN events : e \in Event /\ ClassOK(e)
    BY CalendarAssumption DEF Inv, TypeOK, ClassesAreStable, ClassOK
  <1>1. CASE Tick
    <2>1. /\ clock' \in Instants /\ clock' \in Nat /\ clock < clock'
          /\ UNCHANGED <<periods, group, policies, days, unclassified, events>>
      BY <1>1, CalendarAssumption DEF Tick
    <2>2. TypeOK'
      BY <2>1 DEF Inv, TypeOK
    <2>3. \A s \in Scopes : WellFormed(periods[s], clock')
      BY <1>0, <2>1, LaterWellFormed DEF Inv, SchedulesOK
    <2>4. SchedulesOK'
      BY <2>1, <2>3 DEF SchedulesOK
    <2>5. GroupsOK'
      <3> SUFFICES ASSUME NEW g \in Groups, group[g].status # "draft"
                   PROVE  group[g].publishedAt \in Instants /\ group[g].publishedAt <= clock'
        BY <2>1 DEF GroupsOK, Inv
      <3>1. group[g].publishedAt \in Instants /\ group[g].publishedAt <= clock
        BY DEF Inv, GroupsOK
      <3>2. group[g].publishedAt \in Nat
        BY <3>1, CalendarAssumption
      <3> QED
        BY <1>0, <2>1, <3>1, <3>2
    <2>6. \A e \in DOMAIN events : ClassOK(e)'
      BY <1>0, <2>1, ClassKept
    <2> QED
      BY <1>0, <2>1, <2>2, <2>4, <2>5, <2>6, QuietStep
  <1>2. ASSUME NEW s \in Scopes, NEW mode \in Modes, ScheduleGroupBinding(s, mode) PROVE Inv'
    <2>1. UNCHANGED <<clock, group, policies, days, unclassified, events>>
      BY <1>2 DEF ScheduleGroupBinding
    <2>2. WellFormed(Rescheduled(periods[s], mode, clock), clock)
      BY <1>0, RescheduledWellFormed DEF Inv, SchedulesOK
    <2>3. periods' = [periods EXCEPT ![s] = Rescheduled(periods[s], mode, clock)]
      BY <1>2 DEF ScheduleGroupBinding
    <2>4. periods' \in [Scopes -> SUBSET Period]
      BY <2>2, <2>3 DEF Inv, TypeOK, WellFormed
    <2>5. TypeOK'
      BY <2>1, <2>4 DEF Inv, TypeOK
    <2>6. \A r \in Scopes : WellFormed(periods'[r], clock')
      BY <2>1, <2>2, <2>3 DEF Inv, TypeOK, SchedulesOK
    <2>7. SchedulesOK' /\ GroupsOK'
      BY <2>1, <2>6 DEF Inv, SchedulesOK, GroupsOK
    <2>8. \A e \in DOMAIN events : ClassOK(e)'
      BY <1>2, ScheduleKeepsClass
    <2> QED
      BY <1>0, <2>1, <2>5, <2>7, <2>8, QuietStep
  <1>3. ASSUME NEW g \in Groups, NEW on \in Switch, UpdateResourceGroup(g, on) PROVE Inv'
    <2>1. /\ UNCHANGED <<clock, periods, policies, days, unclassified, events>>
          /\ group' = [group EXCEPT ![g] = [group[g] EXCEPT !.enabled = on]]
      BY <1>3 DEF UpdateResourceGroup
    <2>2. group[g] \in Group /\ group \in [Groups -> Group]
      BY DEF Inv, TypeOK
    <2>3. group' \in [Groups -> Group]
      BY <2>1, <2>2, SwitchAssumption DEF Group
    <2>4. \A h \in Groups : /\ group'[h].publishedAt = group[h].publishedAt
                            /\ group'[h].status = group[h].status
      BY <2>1, <2>2 DEF Group
    <2>5. TypeOK' /\ SchedulesOK' /\ GroupsOK'
      BY <2>1, <2>3, <2>4 DEF Inv, TypeOK, SchedulesOK, GroupsOK
    <2>6. \A e \in DOMAIN events : ClassOK(e)'
      BY <1>0, <2>1, <2>4, ClassKept
    <2> QED
      BY <1>0, <2>1, <2>5, <2>6, QuietStep
  <1>4. ASSUME NEW g \in Groups, Publish(g) PROVE Inv'
    <2>1. /\ UNCHANGED <<clock, periods, policies, days, unclassified, events>>
          /\ group \in [Groups -> Group] /\ group[g] \in Group
      BY <1>4 DEF Publish, Inv, TypeOK
    <2>2. group' = [group EXCEPT ![g] = Published(group[g], clock)]
      BY <1>4 DEF Publish
    <2>3. group' \in [Groups -> Group]
      BY <1>0, <2>1, <2>2, GroupEffects
    <2>4. TypeOK' /\ SchedulesOK'
      BY <2>1, <2>3 DEF Inv, TypeOK, SchedulesOK
    <2>5. GroupsOK'
      BY <1>0, <2>1, <2>2, GroupEffects DEF Inv, GroupsOK
    <2>6. \A e \in DOMAIN events : ClassOK(e)'
      BY <1>4, PublishKeepsClass
    <2> QED
      BY <1>0, <2>1, <2>4, <2>5, <2>6, QuietStep
  <1>5. ASSUME NEW g \in Groups, Archive(g) PROVE Inv'
    <2>1. /\ UNCHANGED <<clock, periods, policies, days, unclassified, events>>
          /\ group \in [Groups -> Group] /\ group[g] \in Group /\ group[g].status = "published"
      BY <1>5 DEF Archive, Inv, TypeOK
    <2>2. group' = [group EXCEPT ![g] = Archived(group[g])]
      BY <1>5 DEF Archive
    <2>3. group' \in [Groups -> Group]
      BY <1>0, <2>1, <2>2, GroupEffects
    <2>4. \A h \in Groups : /\ group'[h].publishedAt = group[h].publishedAt
                            /\ group'[h].status = "draft" <=> group[h].status = "draft"
      BY <1>0, <2>1, <2>2, GroupEffects
    <2>5. TypeOK' /\ SchedulesOK' /\ GroupsOK'
      BY <2>1, <2>3, <2>4 DEF Inv, TypeOK, SchedulesOK, GroupsOK
    <2>6. \A e \in DOMAIN events : ClassOK(e)'
      BY <1>0, <2>1, <2>4, ClassKept
    <2> QED
      BY <1>0, <2>1, <2>5, <2>6, QuietStep
  <1>6. ASSUME NEW p \in Plans, NEW new \in PolicySet, SaveGroupPlan(p, new) PROVE Inv'
    <2>1. UNCHANGED <<clock, periods, group, days, unclassified, events>>
      BY <1>6 DEF SaveGroupPlan
    <2>2. DOMAIN policies' \subseteq Plans /\ policies' \in [DOMAIN policies' -> PolicySet]
      BY <1>6 DEF SaveGroupPlan, With, Inv, TypeOK
    <2>3. TypeOK' /\ SchedulesOK' /\ GroupsOK'
      BY <2>1, <2>2 DEF Inv, TypeOK, SchedulesOK, GroupsOK
    <2>4. \A e \in DOMAIN events : ClassOK(e)'
      BY <1>0, <2>1, ClassKept
    <2> QED
      BY <1>0, <2>1, <2>3, <2>4, QuietStep
  <1>7. CASE UNCHANGED vars
    <2>1. TypeOK' /\ SchedulesOK' /\ GroupsOK'
      BY <1>7 DEF vars, Inv, TypeOK, SchedulesOK, GroupsOK
    <2>2. \A e \in DOMAIN events : ClassOK(e)'
      BY <1>0, <1>7, ClassKept DEF vars
    <2> QED
      BY <1>0, <1>7, <2>1, <2>2, QuietStep DEF vars
  <1> QED
    BY <1>1, <1>2, <1>3, <1>4, <1>5, <1>6, <1>7, RecordStep, ResetStep DEF Next

LEMMA InvAlways == Spec => []Inv
  BY InvInit, InvNext, PTL DEF Spec

-----------------------------------------------------------------------------
(* Invariants *)

(* The ledgers, the events and the configuration are well typed; no amount *)
(* exceeds MaxInt. *)
THEOREM TypeCorrect == Spec => []TypeOK
  <1>1. Inv => TypeOK
    BY DEF Inv
  <1> QED
    BY <1>1, InvAlways, PTL

(* accountGroupUsage and ResetGroupDay keep the credit within the raw cost. *)
THEOREM CreditIsBounded == Spec => []CreditWithinRaw
  <1>1. Inv => CreditWithinRaw
    BY DEF Inv
  <1> QED
    BY <1>1, InvAlways, PTL

(* The interval and the owner that accountGroupUsage looks up for an instant of *)
(* the past never change. *)
THEOREM ClassesStay == Spec => []ClassesAreStable
  <1>1. Inv => ClassesAreStable
    BY DEF Inv
  <1> QED
    BY <1>1, InvAlways, PTL

(* The mode is the same all day long. *)
LEMMA ModeOfDay ==
    ASSUME NEW now \in Instants, NEW t \in Instants, t <= now, NextMidnight[t] = NextMidnight[now],
           NEW P, WellFormed(P, now)
    PROVE  ModeAt(P, t) = ModeAt(P, now)
  <1>1. now \in Nat /\ t \in Nat /\ now < NextMidnight[t] /\ NextMidnight[t] \in Nat /\ Open \notin Nat
    BY MidnightIsNat, CalendarAssumption
  <1>2. \A m \in Dates : m < NextMidnight[t] => m <= t
    BY NoMidnightBetween
  <1>3. ASSUME NEW p \in P PROVE Covers(p, t) <=> Covers(p, now)
    <2>1. p.from \in Nat /\ p.from \in Dates /\ (p.to # Open => p.to \in Nat /\ p.to \in Dates)
      BY DEF WellFormed, AtMidnights, Period
    <2>2. p.from <= t <=> p.from <= now
      BY <1>1, <1>2, <2>1
    <2>3. p.to # Open => (t < p.to <=> now < p.to)
      BY <1>1, <1>2, <2>1
    <2> QED
      BY <2>2, <2>3 DEF Covers
  <1>4. CASE \E p \in P : Covers(p, t)
    <2>1. PICK p \in P : Covers(p, t)
      BY <1>4
    <2>2. Covers(p, now)
      BY <1>3, <2>1
    <2>3. P \subseteq Period /\ Disjoint(P)
      BY DEF WellFormed
    <2>4. ModeAt(P, t) = p.plan
      BY <1>1, <2>1, <2>3, ModeIsUnique
    <2>5. ModeAt(P, now) = p.plan
      BY <1>1, <2>2, <2>3, ModeIsUnique
    <2> QED
      BY <2>4, <2>5
  <1>5. CASE ~\E p \in P : Covers(p, t)
    BY <1>3, <1>5 DEF ModeAt
  <1> QED
    BY <1>4, <1>5

(* AdmitGroup refuses a budget with an amount_overflow, whatever else happened *)
(* that day. *)
THEOREM UnbookedCloses == Spec => []UnbookedClosesAdmission
  <1>1. Inv => UnbookedClosesAdmission
    <2> SUFFICES ASSUME Inv, NEW e \in DOMAIN events, e.class = "grouped", e.cost = TooLarge,
                        NextMidnight[e.at] = NextMidnight[clock]
                 PROVE  Verdict(e.scope, e.model) \notin {"allowed", "legacy"}
      BY DEF UnbookedClosesAdmission
    <2>1. /\ e.at \in Instants /\ e.scope \in Scopes /\ clock \in Instants /\ e.at <= clock
          /\ ClassOK(e)
      BY DEF Inv, TypeOK, Event, EventsPast, ClassesAreStable, ClassOK
    <2>2. GroupedAt(periods[e.scope], e.at)
      BY <2>1 DEF ClassOK, Class
    <2>3. GroupedAt(periods[e.scope], clock)
      BY <2>1, <2>2, ModeOfDay DEF Inv, SchedulesOK, GroupedAt
    <2>4. Today(e.scope, e.model).error
      BY DEF Inv, UnbookedIsMarked, KeyOf, Today, Day
    <2> QED
      BY <2>3, <2>4 DEF Verdict
  <1> QED
    BY <1>1, InvAlways, PTL

(* GroupUsage shows a group as allowed exactly when AdmitGroup would admit. *)
THEOREM ShownIsRight == Spec => []ShownIsDecided
  <1>1. Inv => ShownIsDecided
    <2> SUFFICES ASSUME Inv, NEW s \in Scopes, NEW g \in Groups
                 PROVE  Verdict(s, g) = "allowed" <=> Listed(s, g) /\ Shown(s, g) = "allowed"
      BY DEF ShownIsDecided
    <2>1. Enabled(s, g) => Owned(g, clock)
      BY DEF Enabled, Owned, Inv, GroupsOK
    <2>2. Enabled(s, g) => HasPolicy(s, g)
      BY DEF Enabled
    <2> QED
      BY <2>1, <2>2 DEF Verdict, Listed, Shown
  <1> QED
    BY <1>1, InvAlways, PTL

-----------------------------------------------------------------------------
(* What the ledgers add up to *)

(* The cost of events, when ev says how often each was recorded. *)
CostOf(ev, es) == SumFunctionOnSet([e \in es |-> e.cost * ev[e]], es)

LEMMA CostIsNat ==
    ASSUME NEW es, IsFiniteSet(es), NEW ev, \A e \in es : e.cost \in Nat /\ ev[e] \in Nat
    PROVE  CostOf(ev, es) \in Nat
  <1> DEFINE f == [e \in es |-> e.cost * ev[e]]
  <1>1. \A e \in es : f[e] \in Nat
    OBVIOUS
  <1> HIDE DEF f
  <1>2. SumFunctionOnSet(f, es) \in Nat
    BY <1>1, SumMonotonic
  <1> QED
    BY <1>2 DEF CostOf, f

LEMMA NoCost == ASSUME NEW ev PROVE CostOf(ev, {}) = 0
  BY SumEmpty DEF CostOf

(* One more copy of an event adds its cost to the sums it belongs to. *)
LEMMA CostGrows ==
    ASSUME NEW D, IsFiniteSet(D), NEW ev, \A x \in D : ev[x] \in Nat,
           NEW e, NEW ew, ew[e] = (IF e \in D THEN ev[e] ELSE 0) + 1,
           \A x \in D : x # e => ew[x] = ev[x],
           NEW A, \A x \in (D \union {e}) \intersect A : x.cost \in Nat
    PROVE  CostOf(ew, (D \union {e}) \intersect A)
             = CostOf(ev, D \intersect A) + IF e \in A THEN e.cost ELSE 0
  <1> DEFINE B == (D \intersect A) \ {e}
             f == [x \in D \intersect A |-> x.cost * ev[x]]
             h == [x \in (D \union {e}) \intersect A |-> x.cost * ew[x]]
  <1>1. IsFiniteSet(B) /\ e \notin B
    BY FS_Subset
  <1>3. \A x \in B : f[x] = h[x] /\ f[x] \in Nat /\ h[x] \in Nat
    OBVIOUS
  <1>4. SumFunctionOnSet(f, B) = SumFunctionOnSet(h, B) /\ SumFunctionOnSet(f, B) \in Nat
    <2> HIDE DEF f, h, B
    <2> QED
      BY <1>1, <1>3, SumsAgree, SumMonotonic
  <1>5. CASE e \notin A
    <2>1. (D \union {e}) \intersect A = B /\ D \intersect A = B
      BY <1>5
    <2>2. CostOf(ew, (D \union {e}) \intersect A) = SumFunctionOnSet(h, B)
      BY <2>1 DEF CostOf
    <2>3. CostOf(ev, D \intersect A) = SumFunctionOnSet(f, B)
      BY <2>1 DEF CostOf
    <2> HIDE DEF f, h, B
    <2> QED
      BY <1>4, <1>5, <2>2, <2>3
  <1>6. CASE e \in A
    <2>1. (D \union {e}) \intersect A = B \union {e} /\ e.cost \in Nat
      BY <1>6
    <2>2. h[e] = IF e \in D THEN f[e] + e.cost ELSE e.cost
      <3>1. h[e] = e.cost * ew[e]
        BY <1>6
      <3>2. CASE e \in D
        <4>1. f[e] = e.cost * ev[e] /\ ew[e] = ev[e] + 1 /\ ev[e] \in Nat
          BY <1>6, <3>2
        <4>2. e.cost * (ev[e] + 1) = e.cost * ev[e] + e.cost
          BY <2>1, <4>1
        <4> QED
          BY <3>1, <3>2, <4>1, <4>2
      <3>3. CASE e \notin D
        <4>1. ew[e] = 1
          BY <3>3
        <4> QED
          BY <2>1, <3>1, <3>3, <4>1
      <3> QED
        BY <3>2, <3>3
    <2>3. e \in D => f[e] \in Nat
      BY <1>6
    <2>4. h[e] \in Nat
      BY <2>1, <2>2, <2>3
    <2>5. SumFunctionOnSet(h, B \union {e}) = h[e] + SumFunctionOnSet(h, B)
      <3> HIDE DEF f, h, B
      <3>1. \A y \in B \union {e} : h[y] \in Int
        BY <1>3, <2>4
      <3> QED
        BY <1>1, <3>1, SumAdds
    <2>6. CostOf(ew, (D \union {e}) \intersect A) = h[e] + SumFunctionOnSet(h, B)
      BY <2>1, <2>5 DEF CostOf
    <2>7. CASE e \in D
      <3>1. D \intersect A = B \union {e}
        BY <1>6, <2>7
      <3>2. SumFunctionOnSet(f, B \union {e}) = f[e] + SumFunctionOnSet(f, B)
        <4> HIDE DEF f, h, B
        <4>1. \A y \in B \union {e} : f[y] \in Int
          BY <1>3, <2>3, <2>7
        <4> QED
          BY <1>1, <4>1, SumAdds
      <3>3. CostOf(ev, D \intersect A) = f[e] + SumFunctionOnSet(f, B)
        BY <3>1, <3>2 DEF CostOf
      <3> HIDE DEF f, h, B
      <3> QED
        BY <1>4, <1>6, <2>1, <2>2, <2>3, <2>6, <2>7, <3>3
    <2>8. CASE e \notin D
      <3>1. D \intersect A = B
        BY <2>8
      <3>2. CostOf(ev, D \intersect A) = SumFunctionOnSet(f, B)
        BY <3>1 DEF CostOf
      <3> HIDE DEF f, h, B
      <3> QED
        BY <1>4, <1>6, <2>1, <2>2, <2>6, <2>8, <3>2
    <2> QED
      BY <2>7, <2>8
  <1> QED
    BY <1>5, <1>6

(* The events that count for a ledger, recorded or not. *)
Chargeable(k) == {e \in Event : e.class = "grouped" /\ e.cost \in Amounts /\ KeyOf(e) = k}
After(k, at) == {e \in Chargeable(k) : at < e.at}
NotBefore(k, at) == {e \in Chargeable(k) : at <= e.at}

EventsFinite == IsFiniteSet(DOMAIN events)

(* Usage that is missing from the ledgers is counted where ShownComplete looks. *)
MissingIsCounted ==
    \A e \in DOMAIN events :
        /\ e.class = "unclassified" => unclassified[e.scope] # 0
        /\ e.class = "grouped" /\ e.cost \notin Amounts =>
              KeyOf(e) \in DOMAIN days /\ days[KeyOf(e)].incomplete # 0

LEMMA PricedAreChargeable ==
    ASSUME TypeOK, NEW k, NEW c
    PROVE  /\ PricedEvents(k) = DOMAIN events \intersect Chargeable(k)
           /\ {e \in PricedEvents(k) : c < e.at} = DOMAIN events \intersect After(k, c)
           /\ {e \in PricedEvents(k) : c <= e.at} = DOMAIN events \intersect NotBefore(k, c)
  BY DEF TypeOK, PricedEvents, Chargeable, After, NotBefore, KeyOf

LEMMA TotalIsCost == ASSUME NEW es PROVE Total(es) = CostOf(events, es)
  BY DEF Total, CostOf

(* What UsedIsSinceReset says of a ledger d when events ew are recorded. *)
SinceReset(k, d, ew) ==
    IF d.cutoff = Never
    THEN d.raw - d.credit = CostOf(ew, DOMAIN ew \intersect Chargeable(k))
    ELSE /\ CostOf(ew, DOMAIN ew \intersect After(k, d.cutoff)) <= d.raw - d.credit
         /\ d.raw - d.credit <= CostOf(ew, DOMAIN ew \intersect NotBefore(k, d.cutoff))

Sums ==
    \A k \in Keys : /\ Day(k).raw = CostOf(events, DOMAIN events \intersect Chargeable(k))
                    /\ SinceReset(k, Day(k), events)

LEMMA SumsMeaning ==
    ASSUME TypeOK
    PROVE  Sums <=> RawReconciles /\ UsedIsSinceReset
  <1>1. ASSUME NEW k \in Keys
        PROVE  /\ Total(PricedEvents(k)) = CostOf(events, DOMAIN events \intersect Chargeable(k))
               /\ \A c : /\ Total({e \in PricedEvents(k) : c < e.at})
                              = CostOf(events, DOMAIN events \intersect After(k, c))
                         /\ Total({e \in PricedEvents(k) : c <= e.at})
                              = CostOf(events, DOMAIN events \intersect NotBefore(k, c))
    BY TotalIsCost, PricedAreChargeable
  <1>2. RawReconciles <=>
          \A k \in Keys : Day(k).raw = CostOf(events, DOMAIN events \intersect Chargeable(k))
    BY <1>1 DEF RawReconciles
  <1>3. UsedIsSinceReset <=> \A k \in Keys : SinceReset(k, Day(k), events)
    BY <1>1 DEF UsedIsSinceReset, SinceReset
  <1> QED
    BY <1>2, <1>3 DEF Sums

(* All the usage of a day is in its ledger, or counted as missing from it. *)
Accounted == EventsFinite /\ Sums /\ MissingIsCounted

(* All other ledgers are untouched. *)
LEMMA OneLedger ==
    ASSUME NEW k, NEW d, days' = With(days, k, d)
    PROVE  Day(k)' = d /\ \A j : j # k => Day(j)' = Day(j)
  BY DEF With, Day

LEMMA RecordedCosts ==
    ASSUME Inv, EventsFinite, NEW e, events' = With(events, e, Copies(e) + 1),
           NEW A, \A x \in A : x.cost \in Amounts
    PROVE  /\ CostOf(events, DOMAIN events \intersect A) \in Nat
           /\ CostOf(events', DOMAIN events' \intersect A)
                = CostOf(events, DOMAIN events \intersect A) + IF e \in A THEN e.cost ELSE 0
  <1>1. DOMAIN events' = DOMAIN events \union {e}
    BY DEF With
  <1>2. events'[e] = (IF e \in DOMAIN events THEN events[e] ELSE 0) + 1
    BY DEF With, Copies
  <1>3. \A x \in DOMAIN events : x # e => events'[x] = events[x]
    BY DEF With
  <1>4. \A x \in DOMAIN events : events[x] \in Nat
    BY DEF Inv, TypeOK
  <1>5. \A x \in A : x.cost \in Nat
    BY LedgerAssumption
  <1>6. IsFiniteSet(DOMAIN events) /\ IsFiniteSet(DOMAIN events \intersect A)
    BY FS_Subset DEF EventsFinite
  <1>7. CostOf(events, DOMAIN events \intersect A) \in Nat
    BY <1>4, <1>5, <1>6, CostIsNat
  <1>8. CostOf(events', (DOMAIN events \union {e}) \intersect A)
          = CostOf(events, DOMAIN events \intersect A) + IF e \in A THEN e.cost ELSE 0
    BY <1>2, <1>3, <1>4, <1>5, <1>6, CostGrows
  <1> QED
    BY <1>1, <1>7, <1>8

(* Usage that a ledger takes is usage since its last reset unless it is credited. *)
LEMMA SinceResetGrows ==
    ASSUME NEW k, NEW q \in GroupDay, NEW d \in GroupDay, NEW ev, NEW ew, SinceReset(k, q, ev),
           d.cutoff = q.cutoff, NEW e, e.at \in Instants, e.cost \in Amounts,
           \A A : (\A x \in A : x.cost \in Amounts) =>
              /\ CostOf(ev, DOMAIN ev \intersect A) \in Nat
              /\ CostOf(ew, DOMAIN ew \intersect A)
                   = CostOf(ev, DOMAIN ev \intersect A) + IF e \in A THEN e.cost ELSE 0,
           d.raw - d.credit = IF e \in Chargeable(k) /\ ~Credited(q, e.at) THEN q.raw - q.credit + e.cost
                              ELSE q.raw - q.credit
    PROVE  SinceReset(k, d, ew)
  <1>1. q.raw \in Int /\ q.credit \in Int /\ d.raw \in Int /\ d.credit \in Int /\ e.cost \in Nat
    <2>1. e.cost \in Nat
      BY LedgerAssumption
    <2>2. /\ q.raw \in 0..MaxInt /\ q.credit \in 0..MaxInt
          /\ d.raw \in 0..MaxInt /\ d.credit \in 0..MaxInt
      BY DEF GroupDay
    <2> QED
      BY <2>1, <2>2
  <1>2. CASE q.cutoff = Never
    <2>1. \A x \in Chargeable(k) : x.cost \in Amounts
      BY DEF Chargeable
    <2>2. q.raw - q.credit = CostOf(ev, DOMAIN ev \intersect Chargeable(k)) /\ ~Credited(q, e.at)
      BY <1>2 DEF SinceReset, Credited
    <2>3. d.raw - d.credit = CostOf(ew, DOMAIN ew \intersect Chargeable(k))
      BY <1>1, <2>1, <2>2
    <2> QED
      BY <1>2, <2>3 DEF SinceReset
  <1>3. CASE q.cutoff # Never
    <2> DEFINE c == q.cutoff
               low == DOMAIN ev \intersect After(k, c)
               high == DOMAIN ev \intersect NotBefore(k, c)
    <2>1. c \in Nat /\ e.at \in Nat
      BY <1>3, CalendarAssumption DEF GroupDay
    <2>2. \A x \in After(k, c) \union NotBefore(k, c) : x.cost \in Amounts
      BY DEF After, NotBefore, Chargeable
    <2>3. /\ CostOf(ev, low) \in Nat /\ CostOf(ev, high) \in Nat
          /\ CostOf(ew, DOMAIN ew \intersect After(k, c))
               = CostOf(ev, low) + IF e \in After(k, c) THEN e.cost ELSE 0
          /\ CostOf(ew, DOMAIN ew \intersect NotBefore(k, c))
               = CostOf(ev, high) + IF e \in NotBefore(k, c) THEN e.cost ELSE 0
      BY <2>2
    <2>4. CostOf(ev, low) <= q.raw - q.credit /\ q.raw - q.credit <= CostOf(ev, high)
      BY <1>3 DEF SinceReset
    <2>5. /\ e \in After(k, c) => e \in Chargeable(k) /\ ~Credited(q, e.at)
          /\ e \in NotBefore(k, c) <=> e \in Chargeable(k) /\ ~Credited(q, e.at)
      BY <1>3, <2>1 DEF After, NotBefore, Credited
    <2> HIDE DEF low, high, c
    <2>6. /\ CostOf(ew, DOMAIN ew \intersect After(k, c)) <= d.raw - d.credit
          /\ d.raw - d.credit <= CostOf(ew, DOMAIN ew \intersect NotBefore(k, c))
      BY <1>1, <2>3, <2>4, <2>5
    <2> QED
      BY <1>3, <2>6 DEF SinceReset, c
  <1> QED
    BY <1>2, <1>3

(* An event is charged to the ledger of its day, and to no other. *)
LEMMA RecordKeepsSums ==
    ASSUME Inv, EventsFinite, Sums, NEW s \in Scopes, NEW m \in Groups \union {NoGroup},
           NEW at \in Instants, NEW timed, timed \in BOOLEAN,
           NEW usage \in Amounts \union {TooLarge, Unpriced}, RecordUsage(s, m, at, timed, usage)
    PROVE  Sums'
  <1>1. PICK e : e = Recorded(s, m, at, timed, usage)
    OBVIOUS
  <1>2. \A A : (\A x \in A : x.cost \in Amounts) =>
           /\ CostOf(events, DOMAIN events \intersect A) \in Nat
           /\ CostOf(events', DOMAIN events' \intersect A)
                = CostOf(events, DOMAIN events \intersect A) + IF e \in A THEN e.cost ELSE 0
    <2> SUFFICES ASSUME NEW A, \A x \in A : x.cost \in Amounts
                 PROVE  /\ CostOf(events, DOMAIN events \intersect A) \in Nat
                        /\ CostOf(events', DOMAIN events' \intersect A)
                             = CostOf(events, DOMAIN events \intersect A) + IF e \in A THEN e.cost ELSE 0
      OBVIOUS
    <2>1. events' = With(events, e, Copies(e) + 1)
      BY <1>1 DEF RecordUsage, Recorded
    <2> QED
      BY <2>1, RecordedCosts
  <1>3. e.scope = s /\ e.model = m /\ e.at = at /\ e.class = Class(s, m, at, timed)
    BY <1>1 DEF Recorded
  <1>4. e \in Event /\ ClassOK(e) /\ DOMAIN events' = DOMAIN events \union {e}
    BY <1>1, RecordedEffect, SMTT(30)
  <1> SUFFICES ASSUME NEW k \in Keys
               PROVE  /\ Day(k)'.raw = CostOf(events', DOMAIN events' \intersect Chargeable(k))
                      /\ SinceReset(k, Day(k)', events')
    BY DEF Sums
  <1>5. /\ Day(k).raw = CostOf(events, DOMAIN events \intersect Chargeable(k))
        /\ SinceReset(k, Day(k), events) /\ Day(k) \in GroupDay
    BY DayIsSound DEF Sums
  <1>6. /\ CostOf(events', DOMAIN events' \intersect Chargeable(k))
             = Day(k).raw + IF e \in Chargeable(k) THEN e.cost ELSE 0
        /\ Day(k).raw \in Nat
    BY <1>2, <1>5 DEF Chargeable
  <1>7. CASE e \notin Chargeable(k) /\ Day(k)' = Day(k)
    <2>1. \A A : (\A x \in A : x.cost \in Amounts) /\ A \subseteq Chargeable(k) =>
             CostOf(events', DOMAIN events' \intersect A) = CostOf(events, DOMAIN events \intersect A)
      BY <1>2, <1>7
    <2>2. \A c : /\ \A x \in After(k, c) \union NotBefore(k, c) : x.cost \in Amounts
                 /\ After(k, c) \subseteq Chargeable(k) /\ NotBefore(k, c) \subseteq Chargeable(k)
      BY DEF After, NotBefore, Chargeable
    <2>3. \A x \in Chargeable(k) : x.cost \in Amounts
      BY DEF Chargeable
    <2>4. SinceReset(k, Day(k), events')
      BY <1>5, <2>1, <2>2, <2>3 DEF SinceReset
    <2> QED
      BY <1>6, <1>7, <2>4
  <1>8. CASE Class(s, m, at, timed) # "grouped"
    <2>1. days' = days
      BY <1>8 DEF RecordUsage
    <2>2. Day(k)' = Day(k) /\ e \notin Chargeable(k)
      BY <1>3, <1>8, <2>1 DEF Day, Chargeable
    <2> QED
      BY <1>7, <2>2
  <1>9. CASE Class(s, m, at, timed) = "grouped" /\ k # <<s, m, NextMidnight[at]>>
    <2>1. Day(k)' = Day(k)
      BY <1>9, OneLedger DEF RecordUsage
    <2>2. e \notin Chargeable(k)
      BY <1>3, <1>9 DEF Chargeable, KeyOf
    <2> QED
      BY <1>7, <2>1, <2>2
  <1>10. CASE Class(s, m, at, timed) = "grouped" /\ k = <<s, m, NextMidnight[at]>>
    <2>1. PICK d : d = BookedDay(k, at, usage)
      OBVIOUS
    <2>2. Day(k)' = d
      BY <1>10, <2>1, OneLedger DEF RecordUsage, BookedDay
    <2>3. /\ d \in GroupDay /\ d.cutoff = Day(k).cutoff
          /\ d.raw = IF Takes(Day(k), at, usage) THEN Day(k).raw + usage ELSE Day(k).raw
          /\ Takes(Day(k), at, usage) =>
                d.raw - d.credit = IF Credited(Day(k), at) THEN Day(k).raw - Day(k).credit
                                   ELSE Day(k).raw - Day(k).credit + usage
          /\ ~Takes(Day(k), at, usage) => d.raw - d.credit = Day(k).raw - Day(k).credit
      BY <2>1, BookedDayEffect
    <2>4. e.cost = Attributed(Day(k), at, usage)
      BY <1>1, <1>10 DEF Recorded
    <2>5. CASE Takes(Day(k), at, usage)
      <3>1. e.cost = usage /\ usage \in Amounts
        BY <2>4, <2>5 DEF Attributed, Takes
      <3>2. e \in Chargeable(k)
        BY <1>3, <1>4, <1>10, <3>1 DEF Chargeable, KeyOf
      <3>3. SinceReset(k, d, events')
        BY <1>2, <1>3, <1>5, <2>3, <2>5, <3>1, <3>2, SinceResetGrows
      <3> QED
        BY <1>6, <2>2, <2>3, <2>5, <3>1, <3>2, <3>3
    <2>6. CASE ~Takes(Day(k), at, usage)
      <3>1. e.cost \notin Amounts
        BY <2>4, <2>6, LedgerAssumption DEF Attributed, Takes
      <3>2. e \notin Chargeable(k)
        BY <3>1 DEF Chargeable
      <3>3. \A A : (\A x \in A : x.cost \in Amounts) /\ A \subseteq Chargeable(k) =>
               CostOf(events', DOMAIN events' \intersect A) = CostOf(events, DOMAIN events \intersect A)
        BY <1>2, <3>2
      <3>4. \A c : /\ \A x \in After(k, c) \union NotBefore(k, c) : x.cost \in Amounts
                   /\ After(k, c) \subseteq Chargeable(k) /\ NotBefore(k, c) \subseteq Chargeable(k)
        BY DEF After, NotBefore, Chargeable
      <3>5. \A x \in Chargeable(k) : x.cost \in Amounts
        BY DEF Chargeable
      <3>6. SinceReset(k, d, events')
        BY <1>5, <2>3, <2>6, <3>3, <3>4, <3>5 DEF SinceReset
      <3> QED
        BY <1>6, <2>2, <2>3, <2>6, <3>2, <3>6
    <2> QED
      BY <2>5, <2>6
  <1> QED
    BY <1>8, <1>9, <1>10

(* A reset leaves the costs as they are and starts the usage anew. *)
LEMMA ResetKeepsSums ==
    ASSUME Inv, EventsFinite, Sums, NEW s \in Scopes, NEW g \in Groups, ResetGroupDay(s, g)
    PROVE  Sums'
  <1>1. PICK r, d : r = <<s, g, NextMidnight[clock]>> /\ d = Forgiven(Day(r), clock)
    OBVIOUS
  <1>2. Day(r)' = d /\ (\A j : j # r => Day(j)' = Day(j)) /\ events' = events
    BY <1>1, OneLedger DEF ResetGroupDay
  <1>3. clock \in Instants /\ clock \in Nat /\ clock # Never
    BY CalendarAssumption, LedgerAssumption DEF Inv, TypeOK
  <1>4. d.raw = Day(r).raw /\ d.credit = d.raw /\ d.cutoff = clock /\ d.raw \in Nat
    <2>1. Day(r) \in GroupDay
      BY DayIsSound
    <2>2. Day(r).raw \in 0..MaxInt
      BY <2>1 DEF GroupDay
    <2> QED
      BY <1>1, <1>3, <2>1, <2>2, ForgivenEffect
  <1> SUFFICES ASSUME NEW k \in Keys
               PROVE  /\ Day(k)'.raw = CostOf(events, DOMAIN events \intersect Chargeable(k))
                      /\ SinceReset(k, Day(k)', events)
    BY <1>2 DEF Sums
  <1>5. CASE k # r
    BY <1>2, <1>5 DEF Sums
  <1>6. CASE k = r
    <2>1. \A e \in DOMAIN events : e.at \in Nat /\ e.at <= clock
      BY CalendarAssumption DEF Inv, TypeOK, EventsPast, Event
    <2>2. DOMAIN events \intersect After(k, clock) = {}
      BY <1>3, <2>1 DEF After
    <2>3. CostOf(events, DOMAIN events \intersect After(k, clock)) = 0
      BY <2>2, NoCost
    <2>4. CostOf(events, DOMAIN events \intersect NotBefore(k, clock)) \in Nat
      <3>1. IsFiniteSet(DOMAIN events \intersect NotBefore(k, clock))
        BY FS_Subset DEF EventsFinite
      <3>2. \A e \in DOMAIN events \intersect NotBefore(k, clock) : e.cost \in Nat /\ events[e] \in Nat
        BY LedgerAssumption DEF NotBefore, Chargeable, Inv, TypeOK
      <3> QED
        BY <3>1, <3>2, CostIsNat
    <2>5. SinceReset(k, d, events)
      BY <1>3, <1>4, <2>3, <2>4 DEF SinceReset
    <2> QED
      BY <1>2, <1>4, <1>6, <2>5 DEF Sums
  <1> QED
    BY <1>5, <1>6

(* The counters of what is missing only grow. *)
LEMMA RecordCountsMissing ==
    ASSUME Inv, MissingIsCounted, NEW s \in Scopes, NEW m \in Groups \union {NoGroup},
           NEW at \in Instants, NEW timed, timed \in BOOLEAN,
           NEW usage \in Amounts \union {TooLarge, Unpriced}, RecordUsage(s, m, at, timed, usage)
    PROVE  MissingIsCounted'
  <1>1. PICK e, r : e = Recorded(s, m, at, timed, usage) /\ r = <<s, m, NextMidnight[at]>>
    OBVIOUS
  <1>2. /\ e.scope = s /\ e.class = Class(s, m, at, timed) /\ KeyOf(e) = r
        /\ events' = With(events, e, Copies(e) + 1)
    BY <1>1 DEF Recorded, RecordUsage, KeyOf
  <1>3. DOMAIN events' = DOMAIN events \union {e}
    BY <1>2 DEF With
  <1>4. \A x \in Scopes : /\ unclassified[x] \in Nat
                          /\ unclassified[x] # 0 => unclassified'[x] # 0
    BY DEF RecordUsage, Inv, TypeOK
  <1>5. e.class = "unclassified" => unclassified'[s] # 0
    BY <1>2, <1>4 DEF RecordUsage, Inv, TypeOK
  <1>6. CASE Class(s, m, at, timed) = "grouped"
    <2>1. PICK d : d = BookedDay(r, at, usage)
      OBVIOUS
    <2>2. r \in Keys
      BY <1>1, <1>6, GroupedKey
    <2>3. days' = With(days, r, d)
      BY <1>1, <1>6, <2>1 DEF RecordUsage, BookedDay
    <2>4. Day(r).incomplete # 0 \/ ~Takes(Day(r), at, usage) => d.incomplete # 0
      BY <2>1, <2>2, BookedDayEffect
    <2>5. /\ DOMAIN days' = DOMAIN days \union {r} /\ days'[r] = d
          /\ \A j \in DOMAIN days : j # r => days'[j] = days[j]
      BY <2>3 DEF With
    <2>6. \A j \in DOMAIN days : days[j].incomplete # 0 => days'[j].incomplete # 0
      BY <2>4, <2>5 DEF Day
    <2>7. e.cost \notin Amounts => days'[r].incomplete # 0
      <3>1. e.cost = Attributed(Day(r), at, usage)
        BY <1>1, <1>6 DEF Recorded
      <3>2. Takes(Day(r), at, usage) => e.cost = usage /\ usage \in Amounts
        BY <3>1 DEF Attributed, Takes
      <3> QED
        BY <2>4, <2>5, <3>2
    <2> QED
      BY <1>2, <1>3, <1>4, <1>5, <2>5, <2>6, <2>7 DEF MissingIsCounted, Inv, TypeOK, Event, KeyOf
  <1>7. CASE Class(s, m, at, timed) # "grouped"
    <2>1. days' = days
      BY <1>7 DEF RecordUsage
    <2> QED
      BY <1>2, <1>3, <1>4, <1>5, <1>7, <2>1 DEF MissingIsCounted, Inv, TypeOK, Event, KeyOf
  <1> QED
    BY <1>6, <1>7

LEMMA ResetCountsMissing ==
    ASSUME Inv, MissingIsCounted, NEW s \in Scopes, NEW g \in Groups, ResetGroupDay(s, g)
    PROVE  MissingIsCounted'
  <1>1. PICK r, d : r = <<s, g, NextMidnight[clock]>> /\ d = Forgiven(Day(r), clock)
    OBVIOUS
  <1>2. d.incomplete = Day(r).incomplete
    BY <1>1, DayIsSound, ForgivenEffect DEF Inv, TypeOK
  <1>3. days' = With(days, r, d) /\ UNCHANGED <<unclassified, events>>
    BY <1>1 DEF ResetGroupDay
  <1>4. \A j \in DOMAIN days : /\ j \in DOMAIN days'
                               /\ days[j].incomplete # 0 => days'[j].incomplete # 0
    BY <1>2, <1>3 DEF With, Day
  <1> QED
    BY <1>3, <1>4 DEF MissingIsCounted, KeyOf

LEMMA AccountedInit == Init => Accounted
  <1> SUFFICES ASSUME Init PROVE Accounted
    OBVIOUS
  <1>1. DOMAIN events = {} /\ events = <<>>
    BY DEF Init
  <1>2. EventsFinite /\ MissingIsCounted
    BY <1>1, FS_EmptySet DEF EventsFinite, MissingIsCounted
  <1>3. ASSUME NEW k \in Keys
        PROVE  /\ Day(k).raw = CostOf(events, DOMAIN events \intersect Chargeable(k))
               /\ SinceReset(k, Day(k), events)
    <2>1. Day(k).raw = 0 /\ Day(k).credit = 0 /\ Day(k).cutoff = Never
      BY DEF Init, Day, EmptyDay
    <2>2. CostOf(events, DOMAIN events \intersect Chargeable(k)) = 0
      <3>1. DOMAIN events \intersect Chargeable(k) = {}
        BY <1>1
      <3> QED
        BY <3>1, NoCost
    <2> QED
      BY <2>1, <2>2 DEF SinceReset
  <1> QED
    BY <1>2, <1>3 DEF Accounted, Sums

LEMMA AccountedNext == Inv /\ Accounted /\ [Next]_vars => Accounted'
  <1> SUFFICES ASSUME Inv, EventsFinite, Sums, MissingIsCounted, [Next]_vars PROVE Accounted'
    BY DEF Accounted
  <1>1. ASSUME NEW s \in Scopes, NEW m \in Groups \union {NoGroup}, NEW at \in Instants,
               NEW timed, timed \in BOOLEAN, NEW usage \in Amounts \union {TooLarge, Unpriced},
               RecordUsage(s, m, at, timed, usage)
        PROVE  Accounted'
    <2>1. PICK e : events' = With(events, e, Copies(e) + 1)
      BY <1>1 DEF RecordUsage
    <2>2. DOMAIN events' = DOMAIN events \union {e}
      BY <2>1 DEF With
    <2>3. EventsFinite'
      BY <2>2, FS_AddElement DEF EventsFinite
    <2> QED
      BY <1>1, <2>3, RecordKeepsSums, RecordCountsMissing DEF Accounted
  <1>2. ASSUME NEW s \in Scopes, NEW g \in Groups, ResetGroupDay(s, g) PROVE Accounted'
    <2>1. EventsFinite'
      BY <1>2 DEF ResetGroupDay, EventsFinite
    <2> QED
      BY <1>2, <2>1, ResetKeepsSums, ResetCountsMissing DEF Accounted
  <1>3. CASE UNCHANGED <<days, unclassified, events>>
    <2>1. EventsFinite' /\ MissingIsCounted'
      BY <1>3 DEF EventsFinite, MissingIsCounted, KeyOf
    <2>2. \A k : Day(k)' = Day(k)
      BY <1>3 DEF Day
    <2>3. Sums'
      BY <1>3, <2>2 DEF Sums
    <2> QED
      BY <2>1, <2>3 DEF Accounted
  <1> QED
    BY <1>1, <1>2, <1>3 DEF Next, vars, Tick, ScheduleGroupBinding, UpdateResourceGroup, Publish,
       Archive, SaveGroupPlan

LEMMA AccountedAlways == Spec => [](Inv /\ Accounted)
  BY InvInit, InvNext, AccountedInit, AccountedNext, PTL DEF Spec

(* The raw cost that accountGroupUsage adds up is that of the priced events of *)
(* the day, in whatever order they arrived and whatever was reset between. *)
THEOREM RawIsReconciled == Spec => []RawReconciles
  <1>1. Inv /\ Accounted => RawReconciles
    BY SumsMeaning DEF Inv, Accounted
  <1> QED
    BY <1>1, AccountedAlways, PTL

(* What counts against a limit after ResetGroupDay is the usage of requests that *)
(* began since. *)
THEOREM UsageIsSinceReset == Spec => []UsedIsSinceReset
  <1>1. Inv /\ Accounted => UsedIsSinceReset
    BY SumsMeaning DEF Inv, Accounted
  <1> QED
    BY <1>1, AccountedAlways, PTL

(* GroupUsage calls a ledger complete only if every event of it was priced. *)
THEOREM CompleteIsPriced == Spec => []CompleteMeansPriced
  <1>1. Inv /\ Accounted => CompleteMeansPriced
    <2> SUFFICES ASSUME Inv, Accounted, NEW s \in Scopes, NEW g \in Groups, ShownComplete(s, g),
                        NEW e \in DOMAIN events, e.scope = s
                 PROVE  /\ e.class # "unclassified"
                        /\ e.class = "grouped" /\ e.model = g
                             /\ NextMidnight[e.at] = NextMidnight[clock] => e.cost \in Amounts
      BY DEF CompleteMeansPriced
    <2>1. unclassified[s] = 0 /\ Today(s, g).incomplete = 0
      BY DEF ShownComplete
    <2>2. e.class # "unclassified"
      BY <2>1 DEF Accounted, MissingIsCounted
    <2>3. ASSUME e.class = "grouped", e.model = g, NextMidnight[e.at] = NextMidnight[clock],
                 e.cost \notin Amounts
          PROVE  FALSE
      <3>1. KeyOf(e) = <<s, g, NextMidnight[clock]>>
        BY <2>3 DEF KeyOf
      <3>2. KeyOf(e) \in DOMAIN days /\ days[KeyOf(e)].incomplete # 0
        BY <2>3 DEF Accounted, MissingIsCounted
      <3> QED
        BY <2>1, <3>1, <3>2 DEF Today, Day
    <2> QED
      BY <2>2, <2>3
  <1> QED
    BY <1>1, AccountedAlways, PTL

-----------------------------------------------------------------------------
(* The ledger implements the abstract budget *)

LEMMA BudgetInit == Init => Budget!Init
  <1> SUFFICES ASSUME Init PROVE Budget!Init
    OBVIOUS
  <1>1. \A k \in Keys : Day(k) = EmptyDay
    BY DEF Init, Day
  <1>2. EmptyDay.raw - EmptyDay.credit = 0 /\ EmptyDay.cutoff = Never /\ EmptyDay.error = FALSE
    BY DEF EmptyDay
  <1> QED
    BY <1>1, <1>2 DEF Budget!Init

LEMMA ResetIsForgive ==
    ASSUME Inv, NEW s \in Scopes, NEW g \in Groups, ResetGroupDay(s, g)
    PROVE  Budget!Next
  <1>1. PICK k, d : k = <<s, g, NextMidnight[clock]>> /\ d = Forgiven(Day(k), clock)
    OBVIOUS
  <1>2. clock \in Instants /\ clock \in Nat /\ k \in Keys
    BY <1>1, CalendarAssumption DEF Inv, TypeOK, Keys, Dates
  <1>3. Day(k) \in GroupDay /\ (Day(k).cutoff # Never => Day(k).cutoff <= clock)
    BY DayIsSound
  <1>4. d \in GroupDay /\ d.raw = d.credit /\ d.cutoff = clock /\ d.error = Day(k).error
    BY <1>1, <1>2, <1>3, ForgivenEffect
  <1>5. d.raw - d.credit = 0
    BY <1>4, LedgerAssumption DEF GroupDay
  <1>6. Day(k)' = d /\ \A j : j # k => Day(j)' = Day(j)
    BY <1>1, OneLedger DEF ResetGroupDay
  <1>7. Budget!Forgive(k, clock)
    BY <1>2, <1>3, <1>4, <1>5, <1>6 DEF Budget!Forgive, Budget!Counts
  <1> QED
    BY <1>2, <1>7 DEF Budget!Next

LEMMA RecordIsCharge ==
    ASSUME Inv, NEW s \in Scopes, NEW m \in Groups \union {NoGroup}, NEW at \in Instants,
           NEW timed, timed \in BOOLEAN, NEW usage \in Amounts \union {TooLarge, Unpriced},
           RecordUsage(s, m, at, timed, usage)
    PROVE  Budget!Next \/ UNCHANGED Budget!vars
  <1>1. CASE Class(s, m, at, timed) # "grouped"
    <2>1. days' = days
      BY <1>1 DEF RecordUsage
    <2> QED
      BY <2>1 DEF Budget!vars, Day
  <1>2. CASE Class(s, m, at, timed) = "grouped"
    <2>1. PICK k, d : k = <<s, m, NextMidnight[at]>> /\ d = BookedDay(k, at, usage)
      OBVIOUS
    <2>2. k \in Keys
      BY <1>2, <2>1, GroupedKey
    <2>3. Day(k)' = d /\ \A j : j # k => Day(j)' = Day(j)
      BY <1>2, <2>1, OneLedger DEF RecordUsage, BookedDay
    <2>4. /\ d.cutoff = Day(k).cutoff
          /\ Takes(Day(k), at, usage) =>
                /\ d.error = Day(k).error
                /\ d.raw - d.credit = IF Credited(Day(k), at) THEN Day(k).raw - Day(k).credit
                                      ELSE Day(k).raw - Day(k).credit + usage
          /\ ~Takes(Day(k), at, usage) =>
                /\ d.raw - d.credit = Day(k).raw - Day(k).credit
                /\ usage = Unpriced => d.error = Day(k).error
                /\ usage # Unpriced => d.error
      BY <2>1, <2>2, BookedDayEffect
    <2>5. CASE Takes(Day(k), at, usage)
      <3>1. Day(k).cutoff # Never => Day(k).cutoff \in Nat /\ at \in Nat
        BY DayIsSound, CalendarAssumption DEF GroupDay
      <3>2. Budget!Counts(k, at) <=> ~Credited(Day(k), at)
        BY <2>2, <3>1 DEF Budget!Counts, Credited
      <3>3. \A j \in Keys : /\ Day(j)'.cutoff = Day(j).cutoff
                            /\ Day(j)'.error = Day(j).error
        BY <2>3, <2>4, <2>5
      <3>4. \A j \in Keys :
              Day(j)'.raw - Day(j)'.credit =
                  IF j # k \/ Credited(Day(k), at) THEN Day(j).raw - Day(j).credit
                                                  ELSE Day(j).raw - Day(j).credit + usage
        BY <2>3, <2>4, <2>5
      <3>5. [j \in Keys |-> Day(j).raw - Day(j).credit]' =
              [[j \in Keys |-> Day(j).raw - Day(j).credit] EXCEPT
                  ![k] = IF Budget!Counts(k, at) THEN @ + usage ELSE @]
        BY <2>2, <3>2, <3>4
      <3>6. UNCHANGED <<[j \in Keys |-> Day(j).cutoff], [j \in Keys |-> Day(j).error]>>
        BY <3>3
      <3>7. Budget!Charge(k, at, usage)
        BY <3>5, <3>6 DEF Budget!Charge
      <3> QED
        BY <2>2, <2>5, <3>7 DEF Budget!Next, Takes
    <2>6. CASE ~Takes(Day(k), at, usage) /\ usage = Unpriced
      BY <2>3, <2>4, <2>6 DEF Budget!vars
    <2>7. CASE ~Takes(Day(k), at, usage) /\ usage # Unpriced
      <3>1. d.error = TRUE
        BY <2>1, <2>2, <2>4, <2>7, BookedDayEffect DEF GroupDay
      <3>2. \A j \in Keys : /\ Day(j)'.cutoff = Day(j).cutoff
                            /\ Day(j)'.raw - Day(j)'.credit = Day(j).raw - Day(j).credit
        BY <2>3, <2>4, <2>7
      <3>3. \A j \in Keys : Day(j)'.error = IF j = k THEN TRUE ELSE Day(j).error
        BY <2>3, <3>1
      <3>4. [j \in Keys |-> Day(j).error]' = [[j \in Keys |-> Day(j).error] EXCEPT ![k] = TRUE]
        BY <2>2, <3>3
      <3>5. UNCHANGED <<[j \in Keys |-> Day(j).raw - Day(j).credit], [j \in Keys |-> Day(j).cutoff]>>
        BY <3>2
      <3>6. Budget!CloseForGood(k)
        BY <3>4, <3>5 DEF Budget!CloseForGood
      <3> QED
        BY <2>2, <3>6 DEF Budget!Next
    <2> QED
      BY <2>5, <2>6, <2>7
  <1> QED
    BY <1>1, <1>2

LEMMA BudgetStep == Inv /\ [Next]_vars => [Budget!Next]_(Budget!vars)
  <1> SUFFICES ASSUME Inv, [Next]_vars PROVE Budget!Next \/ UNCHANGED Budget!vars
    OBVIOUS
  <1>1. CASE days' = days
    BY <1>1 DEF Budget!vars, Day
  <1>2. CASE days' # days
    <2>1. \/ \E s \in Scopes, m \in Groups \union {NoGroup}, at \in Instants, timed \in BOOLEAN,
              usage \in Amounts \union {TooLarge, Unpriced} : RecordUsage(s, m, at, timed, usage)
          \/ \E s \in Scopes, g \in Groups : ResetGroupDay(s, g)
      BY <1>2 DEF Next, vars, Tick, ScheduleGroupBinding, UpdateResourceGroup, Publish, Archive,
         SaveGroupPlan
    <2> QED
      BY <2>1, RecordIsCharge, ResetIsForgive
  <1> QED
    BY <1>1, <1>2

(* Usage accounting and resets implement one budget per key, group and day. *)
THEOREM LedgerImplementsBudget == Spec => ImplementsBudget
  BY BudgetInit, BudgetStep, InvAlways, PTL DEF Spec, ImplementsBudget, Budget!Spec

=============================================================================
