---------------------------- MODULE KeyQuotaProofs ----------------------------
(***************************************************************************)
(* Proofs about quota cycles: they always fit the plan of their key, they   *)
(* count exactly the usage of their own time, they end only by rule, and a  *)
(* refusal names the right instant to retry.                               *)
(***************************************************************************)
EXTENDS KeyQuota, TokenAccountingProofs

PlansTyped ==
    \A p \in DOMAIN plans :
        /\ DOMAIN plans[p] \subseteq WindowIds
        /\ \A i \in DOMAIN plans[p] : plans[p][i] \in Window

(* A key that has a plan has a record, so deleting the plan finds the key. *)
BoundIsKnown == \A s \in Scopes : bound[s] # NoPlan => s \in known

Inv ==
    /\ clock \in Nat
    /\ PlansTyped
    /\ DOMAIN plans \subseteq PlanIds
    /\ bound \in [Scopes -> PlanIds \union {NoPlan}]
    /\ cycles \in [Scopes -> [WindowIds -> Cycle \union {NoCycle}]]
    /\ BoundIsKnown
    /\ CyclesReload

-----------------------------------------------------------------------------
(* Cycles *)

LEMMA Multiple ==
    ASSUME NEW q \in Int, NEW p \in Nat \ {0}
    PROVE  (p * q) % p = 0
  BY Z3

(* Rounding down to a multiple of the period. *)
LEMMA Aligned ==
    ASSUME NEW x \in Int, NEW p \in Nat \ {0}
    PROVE  /\ x % p \in 0..(p - 1)
           /\ (x - (x % p)) % p = 0
  <1>1. x % p \in 0..(p - 1)
    OBVIOUS
  <1>2. x = p * (x \div p) + (x % p) /\ x \div p \in Int
    OBVIOUS
  <1>3. x - (x % p) = p * (x \div p)
    BY <1>1, <1>2
  <1>4. (p * (x \div p)) % p = 0
    BY <1>2, Multiple
  <1> QED
    BY <1>1, <1>3, <1>4

(* The cycle an admission opens is one that the window explains. *)
LEMMA NewCycleIsValid ==
    ASSUME NEW w \in Window, NEW now \in Int
    PROVE  /\ NewCycle(w, now) \in Cycle
           /\ ValidCycle(NewCycle(w, now), w)
  <1> DEFINE cycle == NewCycle(w, now)
             phase == (now - w.anchor) % w.period
  <1>1. w.period \in Nat \ {0} /\ w.anchor \in Int \union {NoTime}
    BY DEF Window
  <1>2. [m \in Metrics |-> 0] \in [Metrics -> 0..MaxCount]
    BY QuotaAssumption
  <1>3. CASE Floating(w)
    <2>1. /\ cycle.start = now /\ cycle.end = now + w.period
          /\ cycle.since = NoTime
      BY <1>3 DEF NewCycle
    <2>2. ValidCycle(cycle, w)
      BY <1>3, <2>1 DEF ValidCycle
    <2>3. cycle \in Cycle
      BY <1>1, <1>2, <1>3 DEF NewCycle, Cycle
    <2> QED
      BY <2>2, <2>3
  <1>4. CASE ~Floating(w)
    <2>1. w.anchor \in Int
      BY <1>1, <1>4 DEF Floating
    <2>2. now - w.anchor \in Int
      BY <2>1
    <2>3. phase \in 0..(w.period - 1) /\ ((now - w.anchor) - phase) % w.period = 0
      BY <1>1, <2>2, Aligned
    <2>4. cycle = [start |-> now - phase, end |-> now - phase + w.period, since |-> now,
                   used |-> [m \in Metrics |-> 0]]
      BY <1>4 DEF NewCycle
    <2>5. cycle \in Cycle
      BY <1>1, <1>2, <2>3, <2>4 DEF Cycle
    <2> HIDE DEF phase
    <2>6. (now - phase) - w.anchor = (now - w.anchor) - phase
      BY <2>1, <2>3, <1>1
    <2>7. ((now - phase) - w.anchor) % w.period = 0
      BY <2>3, <2>6
    <2>8. NewCycle(w, now - phase).start = now - phase
      <3>1. NewCycle(w, now - phase).start
               = (now - phase) - (((now - phase) - w.anchor) % w.period)
        BY <1>4 DEF NewCycle
      <3> QED
        BY <1>1, <2>3, <2>7, <3>1
    <2>9. now \in (now - phase)..((now - phase) + w.period - 1)
      BY <1>1, <2>3
    <2>10. cycle.start = now - phase /\ cycle.end = now - phase + w.period /\ cycle.since = now
      BY <2>4
    <2>0. PICK c : c = cycle
      OBVIOUS
    <2> HIDE DEF cycle
    <2>11. ValidCycle(c, w)
      <3>1. c.end = c.start + w.period
        BY <2>0, <2>10
      <3>2. NewCycle(w, c.start).start = c.start
        BY <2>0, <2>8, <2>10
      <3>3. c.since \in c.start..(c.end - 1)
        BY <1>1, <2>0, <2>3, <2>9, <2>10
      <3> QED
        BY <3>1, <3>2, <3>3 DEF ValidCycle
    <2> QED
      BY <2>0, <2>5, <2>11 DEF cycle
  <1> QED
    BY <1>3, <1>4

(* Charging a cycle changes what it has used and nothing else. *)
LEMMA ChargedIsSame ==
    ASSUME NEW cycle \in Cycle, NEW usage \in Usages
    PROVE  /\ Charge(cycle, usage) \in Cycle
           /\ Charge(cycle, usage).start = cycle.start
           /\ Charge(cycle, usage).end = cycle.end
           /\ Charge(cycle, usage).since = cycle.since
  <1>1. cycle.used \in [Metrics -> 0..MaxCount] /\ usage \in [Metrics -> Nat]
    BY QuotaAssumption DEF Cycle
  <1>2. ASSUME NEW m \in Metrics PROVE Saturated(cycle.used[m] + usage[m]) \in 0..MaxCount
    BY <1>1, QuotaAssumption DEF Saturated
  <1>3. [m \in Metrics |-> Saturated(cycle.used[m] + usage[m])] \in [Metrics -> 0..MaxCount]
    BY <1>2
  <1>4. Charge(cycle, usage) =
           [cycle EXCEPT !.used = [m \in Metrics |-> Saturated(cycle.used[m] + usage[m])]]
    BY DEF Charge
  <1> QED
    BY <1>3, <1>4 DEF Cycle

LEMMA CycleIsNone == NoCycle \notin Cycle
  BY QuotaAssumption DEF Cycle

-----------------------------------------------------------------------------
(* One key with its cycles under a set of plans *)

Typed(open) == open \in [WindowIds -> Cycle \union {NoCycle}]

PlanTyped(windows) ==
    /\ DOMAIN windows \subseteq WindowIds
    /\ \A i \in DOMAIN windows : windows[i] \in Window

Explained(open, windows) ==
    \A i \in Open(open) : i \in DOMAIN windows /\ ValidCycle(open[i], windows[i])

Fits(p, open, ps) ==
    /\ p \in DOMAIN ps \union {NoPlan}
    /\ Typed(open)
    /\ \A i \in Open(open) :
          /\ p # NoPlan
          /\ i \in DOMAIN ps[p]
          /\ ValidCycle(open[i], ps[p][i])

LEMMA InvPerKey ==
    Inv <=> /\ clock \in Nat /\ PlansTyped /\ BoundIsKnown
            /\ DOMAIN plans \subseteq PlanIds
            /\ bound \in [Scopes -> PlanIds \union {NoPlan}]
            /\ cycles \in [Scopes -> [WindowIds -> Cycle \union {NoCycle}]]
            /\ \A s \in Scopes : Fits(bound[s], cycles[s], plans)
  BY DEF Inv, CyclesReload, Fits, Typed

LEMMA NoneFits ==
    ASSUME NEW ps, NEW p \in DOMAIN ps \union {NoPlan}
    PROVE  Fits(p, NoCycles, ps)
  BY DEF Fits, NoCycles, Typed, Open

LEMMA FitsByPlan ==
    ASSUME NEW ps, NEW p \in DOMAIN ps, NEW open, Typed(open), p # NoPlan
    PROVE  Fits(p, open, ps) <=> Explained(open, ps[p])
  BY DEF Fits, Explained

LEMMA SettledIsExplained ==
    ASSUME NEW open, Typed(open), NEW windows, Explained(open, windows), NEW now
    PROVE  /\ Typed(SettledExpired(open, now))
           /\ Explained(SettledExpired(open, now), windows)
  BY DEF Typed, Explained, SettledExpired, Open

LEMMA ActivatedIsExplained ==
    ASSUME NEW open, Typed(open), NEW windows, PlanTyped(windows),
           Explained(open, windows), NEW now \in Int
    PROVE  /\ Typed(Activated(open, windows, now))
           /\ Explained(Activated(open, windows, now), windows)
  <1>1. \A i \in DOMAIN windows : /\ NewCycle(windows[i], now) \in Cycle
                                  /\ ValidCycle(NewCycle(windows[i], now), windows[i])
    BY NewCycleIsValid DEF PlanTyped
  <1>2. Typed(Activated(open, windows, now))
    BY <1>1 DEF Typed, Activated
  <1>3. ASSUME NEW i \in Open(Activated(open, windows, now))
        PROVE  i \in DOMAIN windows /\ ValidCycle(Activated(open, windows, now)[i], windows[i])
    <2>1. i \in WindowIds /\ Activated(open, windows, now)[i] # NoCycle
      BY DEF Open
    <2>2. CASE i \in DOMAIN windows /\ open[i] = NoCycle
      BY <1>1, <2>1, <2>2 DEF Activated
    <2>3. CASE ~(i \in DOMAIN windows /\ open[i] = NoCycle)
      <3>1. Activated(open, windows, now)[i] = open[i] /\ i \in Open(open)
        BY <2>1, <2>3 DEF Activated, Open
      <3> QED
        BY <3>1 DEF Explained
    <2> QED
      BY <2>2, <2>3
  <1> QED
    BY <1>2, <1>3 DEF Explained

LEMMA ChargedIsExplained ==
    ASSUME NEW open, Typed(open), NEW windows, Explained(open, windows),
           NEW at, NEW usage \in Usages
    PROVE  /\ Typed(Charged(open, at, usage))
           /\ Explained(Charged(open, at, usage), windows)
           /\ \A i \in Open(open) : /\ i \in Open(Charged(open, at, usage))
                                    /\ Charged(open, at, usage)[i].end = open[i].end
  <1> DEFINE charged == Charged(open, at, usage)
  <1>1. \A i \in WindowIds : open[i] \in Cycle \union {NoCycle}
    BY DEF Typed
  <1>2. \A i \in WindowIds : \/ charged[i] = open[i]
                             \/ open[i] # NoCycle /\ charged[i] = Charge(open[i], usage)
    BY DEF Charged
  <1>3. \A i \in WindowIds : charged[i] # open[i] =>
           /\ open[i] \in Cycle /\ charged[i] \in Cycle
           /\ charged[i].start = open[i].start
           /\ charged[i].end = open[i].end
           /\ charged[i].since = open[i].since
    BY <1>1, <1>2, ChargedIsSame
  <1>4. charged = [i \in WindowIds |-> charged[i]]
    BY DEF Charged
  <1> HIDE DEF charged
  <1>5. Typed(charged)
    BY <1>1, <1>3, <1>4 DEF Typed
  <1>6. \A i \in WindowIds : open[i] = NoCycle <=> charged[i] = NoCycle
    BY <1>3, CycleIsNone
  <1>7. \A i \in Open(open) : charged[i].end = open[i].end
    BY <1>3 DEF Open
  <1>8. ASSUME NEW i \in Open(charged)
        PROVE  i \in DOMAIN windows /\ ValidCycle(charged[i], windows[i])
    <2>1. i \in Open(open) /\ i \in WindowIds
      BY <1>6 DEF Open
    <2>2. i \in DOMAIN windows /\ ValidCycle(open[i], windows[i])
      BY <2>1 DEF Explained
    <2>3. CASE charged[i] = open[i]
      BY <2>2, <2>3
    <2>4. CASE charged[i] # open[i]
      <3>1. /\ charged[i].start = open[i].start
            /\ charged[i].end = open[i].end
            /\ charged[i].since = open[i].since
        BY <1>3, <2>1, <2>4
      <3> QED
        BY <2>2, <3>1 DEF ValidCycle
    <2> QED
      BY <2>3, <2>4
  <1>9. \A i \in Open(open) : i \in Open(charged)
    BY <1>6 DEF Open
  <1> QED
    BY <1>5, <1>7, <1>8, <1>9 DEF Explained, charged

-----------------------------------------------------------------------------
(* Edits of plans *)

LEMMA SubmissionTyped ==
    ASSUME NEW existing, DOMAIN existing \subseteq WindowIds,
           NEW windows \in Submissions(existing)
    PROVE  PlanTyped(windows)
  <1>1. PICK D \in SUBSET (DOMAIN existing \union (WindowIds \ TakenWindowIds)) :
           windows \in [D -> Drafts]
    BY DEF Submissions
  <1>2. Drafts \subseteq Window
    BY QuotaAssumption DEF Window
  <1> QED
    BY <1>1, <1>2 DEF PlanTyped

(* A window that keeps its schedule keeps its cycles, and they fit it. *)
LEMMA PreparedKeepsCycles ==
    ASSUME NEW existing, PlanTyped(existing), NEW windows, PlanTyped(windows)
    PROVE  /\ PlanTyped(PreparedWindows(windows, existing))
           /\ \A i \in DOMAIN existing \ RescheduledWindows(windows, existing) :
                 /\ i \in DOMAIN PreparedWindows(windows, existing)
                 /\ \A cycle : ValidCycle(cycle, existing[i]) =>
                                  ValidCycle(cycle, PreparedWindows(windows, existing)[i])
  <1> DEFINE prepared == PreparedWindows(windows, existing)
  <1>1. PlanTyped(prepared)
    BY DEF PlanTyped, PreparedWindows, Window
  <1>2. ASSUME NEW i \in DOMAIN existing \ RescheduledWindows(windows, existing), NEW cycle,
               ValidCycle(cycle, existing[i])
        PROVE  ValidCycle(cycle, prepared[i])
    <2>1. i \in DOMAIN windows /\ SameSchedule(windows[i], existing[i])
      BY DEF RescheduledWindows
    <2>2. prepared[i].anchor = existing[i].anchor /\ prepared[i].period = existing[i].period
      BY <2>1 DEF PreparedWindows, SameSchedule, PlanTyped, Window
    <2>3. NewCycle(prepared[i], cycle.start).start = NewCycle(existing[i], cycle.start).start
      BY <2>2 DEF NewCycle, Floating
    <2> QED
      BY <1>2, <2>2, <2>3 DEF ValidCycle, Floating
  <1>3. ASSUME NEW i \in DOMAIN existing \ RescheduledWindows(windows, existing)
        PROVE  i \in DOMAIN prepared
    BY DEF RescheduledWindows, PreparedWindows
  <1> HIDE DEF prepared
  <1>4. /\ PlanTyped(prepared)
        /\ \A i \in DOMAIN existing \ RescheduledWindows(windows, existing) :
              /\ i \in DOMAIN prepared
              /\ \A cycle : ValidCycle(cycle, existing[i]) => ValidCycle(cycle, prepared[i])
    BY <1>1, <1>2, <1>3
  <1> QED
    BY <1>4 DEF prepared

-----------------------------------------------------------------------------
(* The invariant *)

LEMMA InvInit == Init => Inv
  <1> SUFFICES ASSUME Init PROVE Inv
    OBVIOUS
  <1>1. \A s \in Scopes : cycles[s] = NoCycles
    BY DEF Init
  <1>2. NoCycles \in [WindowIds -> Cycle \union {NoCycle}] /\ Open(NoCycles) = {}
    BY DEF NoCycles, Open
  <1>3. CyclesReload
    BY <1>1, <1>2 DEF Init, CyclesReload
  <1> QED
    BY <1>2, <1>3 DEF Init, Inv, PlansTyped, BoundIsKnown

LEMMA AuthorizeKeepsInv ==
    ASSUME Inv, NEW s \in Scopes, Authorize(s)
    PROVE  Inv'
  <1>1. /\ clock' = clock /\ plans' = plans /\ known' = known
        /\ bound[s] \in DOMAIN plans /\ bound[s] # NoPlan
    BY DEF Authorize, Inv, CyclesReload
  <1> DEFINE windows == plans[bound[s]]
             settled == SettledExpired(cycles[s], clock)
             open == IF Blocked(settled, windows, clock) THEN settled
                     ELSE Activated(settled, windows, clock)
  <1>2. bound' = bound /\ cycles' = [cycles EXCEPT ![s] = open]
    BY <1>1 DEF Authorize
  <1>3. Typed(cycles[s]) /\ Explained(cycles[s], windows) /\ PlanTyped(windows) /\ clock \in Int
    BY <1>1, InvPerKey DEF Fits, Explained, PlanTyped, PlansTyped, Inv
  <1>4. Typed(settled) /\ Explained(settled, windows)
    BY <1>3, SettledIsExplained
  <1>5. Typed(Activated(settled, windows, clock)) /\ Explained(Activated(settled, windows, clock), windows)
    BY <1>3, <1>4, ActivatedIsExplained
  <1>6. Typed(open) /\ Explained(open, windows)
    BY <1>4, <1>5
  <1>7. Fits(bound[s], open, plans)
    BY <1>1, <1>6, FitsByPlan
  <1> HIDE DEF open
  <1>8. cycles' \in [Scopes -> [WindowIds -> Cycle \union {NoCycle}]]
    BY <1>2, <1>6 DEF Typed, Inv
  <1>9. \A t \in Scopes : cycles'[t] = IF t = s THEN open ELSE cycles[t]
    BY <1>2 DEF Inv
  <1>10. \A t \in Scopes : Fits(bound'[t], cycles'[t], plans')
    BY <1>1, <1>2, <1>7, <1>9, InvPerKey
  <1> QED
    BY <1>1, <1>2, <1>8, <1>10, InvPerKey DEF PlansTyped, BoundIsKnown, CyclesReload, Inv, Fits

LEMMA RecordKeepsInv ==
    ASSUME Inv, NEW s \in Scopes, NEW at, NEW usage \in Usages, RecordUsage(s, at, usage)
    PROVE  Inv'
  <1>1. /\ clock' = clock /\ plans' = plans /\ bound' = bound /\ known \subseteq known'
    BY DEF RecordUsage
  <1> DEFINE charged == IF bound[s] = NoPlan THEN cycles[s] ELSE Charged(cycles[s], at, usage)
             open == IF bound[s] \in DOMAIN plans THEN SettledExpired(charged, clock) ELSE charged
  <1>2. cycles' = [cycles EXCEPT ![s] = open]
    BY DEF RecordUsage
  <1>3. Fits(bound[s], cycles[s], plans)
    BY InvPerKey
  <1>4. Fits(bound[s], open, plans)
    <2>1. CASE bound[s] = NoPlan
      <3>1. bound[s] \notin DOMAIN plans
        BY <2>1, QuotaAssumption DEF Inv
      <3> QED
        BY <1>3, <2>1, <3>1
    <2>2. CASE bound[s] # NoPlan
      <3>1. bound[s] \in DOMAIN plans
        BY <1>3, <2>2 DEF Fits
      <3>2. Typed(cycles[s]) /\ Explained(cycles[s], plans[bound[s]])
        BY <1>3, <2>2, <3>1 DEF Fits, Explained
      <3>3. Typed(charged) /\ Explained(charged, plans[bound[s]])
        BY <2>2, <3>2, ChargedIsExplained
      <3> HIDE DEF charged
      <3>4. Typed(open) /\ Explained(open, plans[bound[s]])
        BY <3>1, <3>3, SettledIsExplained
      <3> QED
        BY <2>2, <3>1, <3>4, FitsByPlan
    <2> QED
      BY <2>1, <2>2
  <1> HIDE DEF open
  <1>5. cycles' \in [Scopes -> [WindowIds -> Cycle \union {NoCycle}]]
    BY <1>2, <1>4 DEF Fits, Typed, Inv
  <1>6. \A t \in Scopes : cycles'[t] = IF t = s THEN open ELSE cycles[t]
    BY <1>2 DEF Inv
  <1>7. \A t \in Scopes : Fits(bound'[t], cycles'[t], plans')
    BY <1>1, <1>4, <1>6, InvPerKey
  <1> QED
    BY <1>1, <1>5, <1>7, InvPerKey DEF PlansTyped, BoundIsKnown, CyclesReload, Inv, Fits

LEMMA ViewKeepsInv ==
    ASSUME Inv, NEW scopes, View(scopes)
    PROVE  Inv'
  <1>1. clock' = clock /\ plans' = plans /\ known' = known
    BY DEF View
  <1>2. \A s \in Scopes : Fits(bound[s], cycles[s], plans)
    BY InvPerKey
  <1>3. bound' = bound
    BY <1>2 DEF View, SettledBinding, Fits, Inv
  <1>4. ASSUME NEW s \in Scopes
        PROVE  Fits(bound[s], cycles'[s], plans)
    <2>1. CASE s \in scopes /\ bound[s] # NoPlan
      <3>1. bound[s] \in DOMAIN plans
        BY <1>2, <2>1 DEF Fits
      <3>2. cycles'[s] = SettledExpired(cycles[s], clock)
        BY <2>1, <3>1 DEF View, SettledCycles
      <3>3. Typed(cycles[s]) /\ Explained(cycles[s], plans[bound[s]])
        BY <1>2, <2>1, <3>1 DEF Fits, Explained
      <3>4. Typed(cycles'[s]) /\ Explained(cycles'[s], plans[bound[s]])
        BY <3>2, <3>3, SettledIsExplained
      <3> QED
        BY <2>1, <3>1, <3>4, FitsByPlan
    <2>2. CASE ~(s \in scopes /\ bound[s] # NoPlan)
      BY <1>2, <2>2 DEF View
    <2> QED
      BY <2>1, <2>2
  <1>5. cycles' = [s \in Scopes |-> cycles'[s]]
    BY DEF View
  <1>6. cycles' \in [Scopes -> [WindowIds -> Cycle \union {NoCycle}]]
    BY <1>4, <1>5 DEF Fits, Typed
  <1> QED
    BY <1>1, <1>3, <1>4, <1>6, InvPerKey DEF PlansTyped, BoundIsKnown, CyclesReload, Inv, Fits

(* The same for an edit, from what it does to each key. *)
LEMMA EditKeepsInv ==
    ASSUME Inv, clock' = clock, known' = known, PlansTyped', DOMAIN plans' \subseteq PlanIds,
           bound' \in [Scopes -> PlanIds \union {NoPlan}],
           cycles' = [s \in Scopes |-> cycles'[s]],
           BoundIsKnown',
           \A s \in Scopes : Fits(bound'[s], cycles'[s], plans')
    PROVE  Inv'
  <1>1. cycles' \in [Scopes -> [WindowIds -> Cycle \union {NoCycle}]]
    BY DEF Fits, Typed
  <1> QED
    BY <1>1 DEF Inv, CyclesReload, Fits

LEMMA CreateKeepsInv ==
    ASSUME Inv, NEW p \in PlanIds, NEW scopes, NEW windows, CreatePlan(p, windows, scopes)
    PROVE  Inv'
  <1>1. PlanTyped(windows)
    BY SubmissionTyped DEF CreatePlan
  <1>2. /\ DOMAIN plans' = DOMAIN plans \union {p}
        /\ \A q \in DOMAIN plans' : plans'[q] = IF q = p THEN windows ELSE plans[q]
        /\ clock' = clock /\ known' = known
    BY DEF CreatePlan, keyVars
  <1>3. PlansTyped'
    BY <1>1, <1>2 DEF PlansTyped, PlanTyped, Inv
  <1>4. /\ bound' = [s \in Scopes |-> IF s \in scopes THEN p ELSE bound[s]]
        /\ cycles' = [s \in Scopes |-> IF s \in scopes THEN NoCycles ELSE cycles[s]]
    BY DEF CreatePlan, BindTo
  <1>5. BoundIsKnown'
    BY <1>2, <1>4 DEF CreatePlan, Live, BoundIsKnown, Inv
  <1>6. ASSUME NEW s \in Scopes PROVE Fits(bound'[s], cycles'[s], plans')
    <2>1. CASE s \in scopes
      BY <1>2, <1>4, <2>1, NoneFits
    <2>2. CASE s \notin scopes
      <3>1. Fits(bound[s], cycles[s], plans)
        BY InvPerKey
      <3>2. bound[s] # p
        BY <3>1, QuotaAssumption DEF Fits, CreatePlan
      <3> QED
        BY <1>2, <1>4, <2>2, <3>1, <3>2, QuotaAssumption DEF Fits
    <2> QED
      BY <2>1, <2>2
  <1> QED
    BY <1>2, <1>3, <1>4, <1>5, <1>6, EditKeepsInv DEF Inv

LEMMA UpdateKeepsInv ==
    ASSUME Inv, NEW p \in DOMAIN plans, NEW scopes \in SUBSET known, NEW windows,
           UpdatePlan(p, windows, scopes)
    PROVE  Inv'
  <1> DEFINE reset == RescheduledWindows(windows, plans[p])
             stays == {s \in Scopes : bound[s] = p /\ s \in scopes}
             moves == {s \in Scopes : (bound[s] = p) # (s \in scopes)}
             prepared == PreparedWindows(windows, plans[p])
  <1>1. PlanTyped(plans[p])
    BY DEF PlansTyped, PlanTyped, Inv
  <1>2. PlanTyped(windows)
    BY <1>1, SubmissionTyped DEF UpdatePlan, PlanTyped
  <1>3. /\ PlanTyped(prepared)
        /\ \A i \in DOMAIN plans[p] \ reset :
              /\ i \in DOMAIN prepared
              /\ \A cycle : ValidCycle(cycle, plans[p][i]) => ValidCycle(cycle, prepared[i])
    BY <1>1, <1>2, PreparedKeepsCycles
  <1>4. /\ bound' = [s \in Scopes |-> IF s \in moves THEN (IF s \in scopes THEN p ELSE NoPlan)
                                      ELSE bound[s]]
        /\ cycles' = [s \in Scopes |->
              IF s \in moves THEN NoCycles
              ELSE IF s \in stays
              THEN [i \in WindowIds |-> IF i \in reset THEN NoCycle ELSE cycles[s][i]]
              ELSE cycles[s]]
        /\ plans' = [plans EXCEPT ![p] = prepared]
        /\ clock' = clock /\ known' = known
    BY DEF UpdatePlan, keyVars
  <1> HIDE DEF prepared, reset
  <1>5. /\ DOMAIN plans' = DOMAIN plans
        /\ \A q \in DOMAIN plans : plans'[q] = IF q = p THEN prepared ELSE plans[q]
    BY <1>4
  <1>6. PlansTyped'
    BY <1>3, <1>5 DEF PlansTyped, PlanTyped, Inv
  <1>7. p \in PlanIds /\ p # NoPlan
    BY QuotaAssumption DEF Inv
  <1>8. bound' \in [Scopes -> PlanIds \union {NoPlan}]
    BY <1>4, <1>7 DEF Inv
  <1>9. BoundIsKnown'
    BY <1>4 DEF BoundIsKnown, Inv
  <1>10. ASSUME NEW s \in Scopes PROVE Fits(bound'[s], cycles'[s], plans')
    <2>1. Fits(bound[s], cycles[s], plans)
      BY InvPerKey
    <2>2. CASE s \in moves
      <3>1. bound'[s] \in DOMAIN plans' \union {NoPlan} /\ cycles'[s] = NoCycles
        BY <1>4, <1>5, <2>2
      <3> QED
        BY <3>1, NoneFits
    <2>3. CASE s \in stays
      <3> DEFINE open == [i \in WindowIds |-> IF i \in reset THEN NoCycle ELSE cycles[s][i]]
      <3>1. bound'[s] = p /\ bound[s] = p /\ cycles'[s] = open
        BY <1>4, <2>3
      <3>2. Typed(open)
        BY <2>1 DEF Fits, Typed
      <3>3. ASSUME NEW i \in Open(open) PROVE i \in DOMAIN prepared /\ ValidCycle(open[i], prepared[i])
        <4>1. i \notin reset /\ open[i] = cycles[s][i] /\ i \in Open(cycles[s])
          BY DEF Open
        <4>2. i \in DOMAIN plans[p] /\ ValidCycle(cycles[s][i], plans[p][i])
          BY <2>1, <3>1, <4>1 DEF Fits
        <4> QED
          BY <1>3, <4>1, <4>2
      <3>4. Explained(open, plans'[p])
        BY <1>5, <3>3 DEF Explained
      <3> HIDE DEF open
      <3> QED
        BY <1>5, <1>7, <3>1, <3>2, <3>4, FitsByPlan
    <2>4. CASE s \notin moves /\ s \notin stays
      <3>1. bound[s] # p /\ bound'[s] = bound[s] /\ cycles'[s] = cycles[s]
        BY <1>4, <2>4
      <3> QED
        BY <1>5, <2>1, <3>1 DEF Fits
    <2> QED
      BY <2>2, <2>3, <2>4
  <1> QED
    BY <1>4, <1>5, <1>6, <1>8, <1>9, <1>10, EditKeepsInv DEF Inv

(* Keys that lose their cycles with their plan, or get another plan. *)
LEMMA RebindKeepsInv ==
    ASSUME Inv, NEW scopes, NEW p \in DOMAIN plans' \union {NoPlan}, BindTo(scopes, p),
           clock' = clock, known' = known,
           DOMAIN plans' \subseteq DOMAIN plans,
           \A q \in DOMAIN plans' : plans'[q] = plans[q],
           \A s \in Scopes \ scopes : bound[s] \in DOMAIN plans' \union {NoPlan},
           p # NoPlan => scopes \subseteq known
    PROVE  Inv'
  <1>1. /\ bound' = [s \in Scopes |-> IF s \in scopes THEN p ELSE bound[s]]
        /\ cycles' = [s \in Scopes |-> IF s \in scopes THEN NoCycles ELSE cycles[s]]
    BY DEF BindTo
  <1>2. PlansTyped' /\ DOMAIN plans' \subseteq PlanIds
    BY DEF PlansTyped, Inv
  <1>3. bound' \in [Scopes -> PlanIds \union {NoPlan}]
    BY <1>1, <1>2 DEF Inv
  <1>4. BoundIsKnown'
    BY <1>1 DEF BoundIsKnown, Inv
  <1>5. ASSUME NEW s \in Scopes PROVE Fits(bound'[s], cycles'[s], plans')
    <2>1. CASE s \in scopes
      BY <1>1, <2>1, NoneFits
    <2>2. CASE s \notin scopes
      <3>1. Fits(bound[s], cycles[s], plans)
        BY InvPerKey
      <3> QED
        BY <1>1, <2>2, <3>1 DEF Fits
    <2> QED
      BY <2>1, <2>2
  <1> QED
    BY <1>1, <1>2, <1>3, <1>4, <1>5, EditKeepsInv

LEMMA DeleteKeepsInv ==
    ASSUME Inv, NEW p \in PlanIds, DeletePlan(p)
    PROVE  Inv'
  <1> DEFINE scopes == {s \in known : bound[s] = p}
  <1>1. /\ DOMAIN plans' = DOMAIN plans \ {p}
        /\ \A q \in DOMAIN plans' : plans'[q] = plans[q]
        /\ clock' = clock /\ known' = known
        /\ BindTo(scopes, NoPlan)
    BY DEF DeletePlan, keyVars
  <1>2. \A s \in Scopes \ scopes : bound[s] \in DOMAIN plans' \union {NoPlan}
    BY <1>1 DEF Inv, BoundIsKnown, CyclesReload
  <1> HIDE DEF scopes
  <1> QED
    BY <1>1, <1>2, RebindKeepsInv

LEMMA ResetKeepsInv ==
    ASSUME Inv, NEW scopes, ResetQuota(scopes)
    PROVE  Inv'
  <1>1. /\ plans' = plans /\ bound' = bound /\ clock' = clock /\ known' = known
        /\ cycles' = [s \in Scopes |-> IF s \in scopes THEN NoCycles ELSE cycles[s]]
    BY DEF ResetQuota, keyVars
  <1>2. ASSUME NEW s \in Scopes PROVE Fits(bound'[s], cycles'[s], plans')
    <2>1. Fits(bound[s], cycles[s], plans)
      BY InvPerKey
    <2>2. Fits(bound[s], NoCycles, plans)
      BY <2>1, NoneFits DEF Fits
    <2> QED
      BY <1>1, <2>1, <2>2
  <1>3. PlansTyped' /\ BoundIsKnown'
    BY <1>1 DEF PlansTyped, BoundIsKnown, Inv
  <1> QED
    BY <1>1, <1>2, <1>3, EditKeepsInv DEF Inv

LEMMA SyncKeepsInv ==
    ASSUME Inv, NEW keys, SyncKeys(keys)
    PROVE  Inv'
  BY DEF SyncKeys, Inv, PlansTyped, BoundIsKnown, CyclesReload

LEMMA InvNext == Inv /\ [Next]_vars => Inv'
  <1> SUFFICES ASSUME Inv, [Next]_vars PROVE Inv'
    OBVIOUS
  <1>1. CASE UNCHANGED vars
    BY <1>1 DEF vars, Inv, PlansTyped, BoundIsKnown, CyclesReload
  <1>2. CASE Tick
    BY <1>2 DEF Tick, Inv, PlansTyped, BoundIsKnown, CyclesReload
  <1>3. CASE Traffic
    BY <1>3, AuthorizeKeepsInv, RecordKeepsInv, ViewKeepsInv DEF Traffic
  <1>4. CASE Administration
    <2>1. ASSUME NEW s \in Scopes, NEW p \in PlanIds, BindKey(s, p) PROVE Inv'
      <3>1. \A t \in Scopes : bound[t] \in DOMAIN plans \union {NoPlan}
        BY DEF Inv, CyclesReload
      <3> QED
        BY <2>1, <3>1, RebindKeepsInv DEF BindKey, Live, keyVars
    <2>2. ASSUME NEW s \in Scopes, UnbindKey(s) PROVE Inv'
      <3>1. \A t \in Scopes : bound[t] \in DOMAIN plans \union {NoPlan}
        BY DEF Inv, CyclesReload
      <3> QED
        BY <2>2, <3>1, RebindKeepsInv DEF UnbindKey, keyVars
    <2> QED
      BY <1>4, <2>1, <2>2, CreateKeepsInv, UpdateKeepsInv, DeleteKeepsInv, ResetKeepsInv,
         SyncKeepsInv DEF Administration
  <1> QED
    BY <1>1, <1>2, <1>3, <1>4 DEF Next

(* The database can always be loaded: a key has a plan that exists and only   *)
(* cycles that its plan's windows explain, after any sequence of admissions,  *)
(* late usage, plan edits, bindings, deletions and restores (api_keys.go:89). *)
THEOREM DatabaseLoads == Spec => []CyclesReload
  <1>1. Inv => CyclesReload
    BY DEF Inv
  <1> QED
    BY <1>1, InvInit, InvNext, PTL DEF Spec

(* A key that has a plan has a record of its own, so deleting the plan finds  *)
(* it, also while the key is deleted (plan.go, keys.go).                      *)
THEOREM BoundKeysAreKnown == Spec => []BoundIsKnown
  <1>1. Inv => BoundIsKnown
    BY DEF Inv
  <1> QED
    BY <1>1, InvInit, InvNext, PTL DEF Spec

-----------------------------------------------------------------------------
(* The end of a cycle *)

EndsByRule(s, i) ==
    \/ cycles[s][i].end <= clock
    \/ bound'[s] # bound[s]
    \/ i \notin DOMAIN plans'[bound[s]]
    \/ ~SameSchedule(plans'[bound[s]][i], plans[bound[s]][i])
    \/ \E scopes \in SUBSET Live : s \in scopes /\ ResetQuota(scopes)

LEMMA SettledEnds ==
    ASSUME NEW open, NEW now, NEW i \in Open(open), i \notin Open(SettledExpired(open, now))
    PROVE  open[i].end <= now
  BY DEF Open, SettledExpired

LEMMA TrafficEndsByRule ==
    ASSUME Inv, Traffic, NEW s \in Scopes, NEW i \in Open(cycles[s]), i \notin Open(cycles'[s])
    PROVE  EndsByRule(s, i)
  <1>1. /\ i \in WindowIds /\ cycles[s][i] # NoCycle
        /\ bound[s] \in DOMAIN plans /\ bound[s] # NoPlan
    BY DEF Inv, CyclesReload, Open
  <1>2. CASE cycles'[s] = cycles[s]
    BY <1>2
  <1>3. ASSUME NEW t \in Scopes, Authorize(t) PROVE EndsByRule(s, i)
    <2>1. t = s
      BY <1>2, <1>3 DEF Authorize, Inv
    <2>2. \/ cycles'[s] = SettledExpired(cycles[s], clock)
          \/ cycles'[s] = Activated(SettledExpired(cycles[s], clock), plans[bound[s]], clock)
      BY <1>1, <1>3, <2>1 DEF Authorize, Inv
    <2>3. i \notin Open(SettledExpired(cycles[s], clock))
      <3>1. CASE cycles'[s] = Activated(SettledExpired(cycles[s], clock), plans[bound[s]], clock)
        <4>1. cycles'[s][i] = NoCycle
          BY <1>1 DEF Open
        <4>2. SettledExpired(cycles[s], clock)[i] = NoCycle \/ cycles'[s][i] = SettledExpired(cycles[s], clock)[i]
          BY <1>1, <3>1 DEF Activated
        <4> QED
          BY <4>1, <4>2 DEF Open
      <3> QED
        BY <2>2, <3>1
    <2> QED
      BY <2>3, SettledEnds DEF EndsByRule
  <1>4. ASSUME NEW t \in Scopes, NEW at, NEW usage \in Usages, RecordUsage(t, at, usage)
        PROVE  EndsByRule(s, i)
    <2>1. t = s
      BY <1>2, <1>4 DEF RecordUsage, Inv
    <2> DEFINE charged == Charged(cycles[s], at, usage)
    <2>2. cycles'[s] = SettledExpired(charged, clock)
      BY <1>1, <1>4, <2>1 DEF RecordUsage, Inv
    <2>3. Typed(cycles[s]) /\ Explained(cycles[s], plans[bound[s]])
      BY <1>1 DEF Inv, CyclesReload, Typed, Explained
    <2>4. i \in Open(charged) /\ charged[i].end = cycles[s][i].end
      BY <2>3, ChargedIsExplained
    <2> HIDE DEF charged
    <2>5. charged[i].end <= clock
      BY <2>2, <2>4, SettledEnds
    <2> QED
      BY <2>4, <2>5 DEF EndsByRule
  <1>5. ASSUME NEW scopes, View(scopes) PROVE EndsByRule(s, i)
    <2>1. cycles'[s] = SettledExpired(cycles[s], clock)
      BY <1>1, <1>2, <1>5 DEF View, SettledCycles
    <2> QED
      BY <2>1, SettledEnds DEF EndsByRule
  <1> QED
    BY <1>3, <1>4, <1>5 DEF Traffic

LEMMA AdministrationEndsByRule ==
    ASSUME Inv, Administration, NEW s \in Scopes, NEW i \in Open(cycles[s]),
           i \notin Open(cycles'[s])
    PROVE  EndsByRule(s, i)
  <1>1. /\ i \in WindowIds /\ cycles[s][i] # NoCycle
        /\ bound[s] \in DOMAIN plans /\ bound[s] # NoPlan
        /\ i \in DOMAIN plans[bound[s]]
    BY DEF Inv, CyclesReload, Open
  <1>2. cycles'[s] # cycles[s]
    OBVIOUS
  <1>3. ASSUME NEW scopes, NEW p, BindTo(scopes, p), p # bound[s] PROVE EndsByRule(s, i)
    BY <1>2, <1>3 DEF BindTo, EndsByRule
  <1>4. ASSUME NEW p \in PlanIds, NEW scopes \in SUBSET Live, NEW windows,
               CreatePlan(p, windows, scopes)
        PROVE  EndsByRule(s, i)
    BY <1>1, <1>3, <1>4 DEF CreatePlan
  <1>5. ASSUME NEW p \in DOMAIN plans, NEW scopes, NEW windows, UpdatePlan(p, windows, scopes)
        PROVE  EndsByRule(s, i)
    <2>1. CASE (bound[s] = p) # (s \in scopes)
      <3>1. bound'[s] = IF s \in scopes THEN p ELSE NoPlan
        BY <1>5, <2>1 DEF UpdatePlan
      <3>2. bound'[s] # bound[s]
        BY <1>1, <2>1, <3>1
      <3> QED
        BY <3>2 DEF EndsByRule
    <2>2. CASE bound[s] = p /\ s \in scopes
      <3>1. cycles'[s] = [j \in WindowIds |-> IF j \in RescheduledWindows(windows, plans[p])
                                              THEN NoCycle ELSE cycles[s][j]]
        BY <1>5, <2>2 DEF UpdatePlan
      <3>2. i \in RescheduledWindows(windows, plans[p])
        BY <1>1, <3>1 DEF Open
      <3>3. plans'[p] = PreparedWindows(windows, plans[p])
        BY <1>5 DEF UpdatePlan
      <3>4. CASE i \notin DOMAIN windows
        BY <2>2, <3>3, <3>4 DEF PreparedWindows, EndsByRule
      <3>5. CASE i \in DOMAIN windows
        <4>1. ~SameSchedule(windows[i], plans[p][i])
          BY <3>2, <3>5 DEF RescheduledWindows
        <4>2. plans'[p][i] = windows[i]
          BY <3>3, <3>5, <4>1 DEF PreparedWindows
        <4> QED
          BY <2>2, <4>1, <4>2 DEF EndsByRule
      <3> QED
        BY <3>4, <3>5
    <2>3. CASE bound[s] # p /\ s \notin scopes
      BY <1>2, <1>5, <2>3 DEF UpdatePlan
    <2> QED
      BY <2>1, <2>2, <2>3
  <1>6. ASSUME NEW p \in PlanIds, DeletePlan(p) PROVE EndsByRule(s, i)
    BY <1>1, <1>3, <1>6 DEF DeletePlan
  <1>7. ASSUME NEW t \in Scopes, NEW p \in PlanIds, BindKey(t, p) PROVE EndsByRule(s, i)
    <2>1. s = t
      BY <1>2, <1>7 DEF BindKey, BindTo
    <2> QED
      BY <1>3, <1>7, <2>1 DEF BindKey
  <1>8. ASSUME NEW t \in Scopes, UnbindKey(t) PROVE EndsByRule(s, i)
    BY <1>1, <1>3, <1>8 DEF UnbindKey
  <1>9. ASSUME NEW scopes \in SUBSET Live, ResetQuota(scopes) PROVE EndsByRule(s, i)
    <2>1. s \in scopes
      BY <1>2, <1>9 DEF ResetQuota, Inv
    <2> QED
      BY <1>9, <2>1 DEF EndsByRule
  <1>10. ASSUME NEW keys, SyncKeys(keys) PROVE EndsByRule(s, i)
    BY <1>2, <1>10 DEF SyncKeys
  <1> QED
    BY <1>4, <1>5, <1>6, <1>7, <1>8, <1>9, <1>10 DEF Administration

(* What a key has used in a window is forgotten only when the cycle is over,  *)
(* with its plan, with the schedule of the window, or by a reset: not by late *)
(* usage, by a page that is looked at, by an edit of limits or of another     *)
(* window, nor by a synchronisation (plan.go:242, keys.go:270).               *)
THEOREM UsageIsForgottenByRule == Spec => CyclesEndByRule
  <1>1. Inv /\ [Next]_vars =>
          [\A s \in Scopes : \A i \in Open(cycles[s]) \ Open(cycles'[s]) :
             \/ cycles[s][i].end <= clock
             \/ bound'[s] # bound[s]
             \/ i \notin DOMAIN plans'[bound[s]]
             \/ ~SameSchedule(plans'[bound[s]][i], plans[bound[s]][i])
             \/ \E scopes \in SUBSET Live : s \in scopes /\ ResetQuota(scopes)]_vars
    <2> SUFFICES ASSUME Inv, Next, NEW s \in Scopes, NEW i \in Open(cycles[s]) \ Open(cycles'[s])
                 PROVE  EndsByRule(s, i)
      BY DEF EndsByRule
    <2>1. CASE Tick
      BY <2>1 DEF Tick
    <2> QED
      BY <2>1, TrafficEndsByRule, AdministrationEndsByRule DEF Next
  <1> QED
    BY <1>1, InvInit, InvNext, PTL DEF Spec, CyclesEndByRule

-----------------------------------------------------------------------------
(* What a cycle has used *)

UsageRecord == [scope : Scopes, at : Int \union {NoTime}, usage : Usages]

(* A cycle opened at o.at, when o.seen records had been handed in, is not      *)
(* charged before that instant, though an anchored period began earlier.       *)
OpenedAs(cycle, o) ==
    /\ o.at \in Int
    /\ o.seen \in Nat
    /\ cycle.start <= o.at
    /\ cycle.since = NoTime => cycle.start = o.at
    /\ cycle.since # NoTime => cycle.since = o.at

Due(records, s, o, end) ==
    {n \in DOMAIN records :
       /\ n > o.seen
       /\ records[n].scope = s
       /\ records[n].at # NoTime
       /\ o.at <= records[n].at /\ records[n].at < end}

UsageOf(records, m) == [n \in DOMAIN records |-> records[n].usage[m]]

AccountsFor(cycle, records, s, o) ==
    \A m \in Metrics :
       cycle.used[m] =
          Saturated(SumFunctionOnSet(UsageOf(records, m), Due(records, s, o, cycle.end)))

(* The strengthening: each open cycle also knows when it was opened.           *)
Counting ==
    /\ log \in Seq(UsageRecord)
    /\ \A s \in Scopes : \A i \in Open(cycles[s]) :
          /\ OpenedAs(cycles[s][i], opened[s][i])
          /\ opened[s][i].seen <= Len(log)
          /\ AccountsFor(cycles[s][i], log, s, opened[s][i])

LEMMA UsageTyped ==
    ASSUME NEW records \in Seq(UsageRecord), NEW m \in Metrics, NEW D \in SUBSET (DOMAIN records)
    PROVE  /\ IsFiniteSet(D)
           /\ \A n \in D : UsageOf(records, m)[n] = records[n].usage[m] /\ UsageOf(records, m)[n] \in Nat
           /\ SumFunctionOnSet(UsageOf(records, m), D) \in Nat
  <1>1. DOMAIN records = 1..Len(records) /\ Len(records) \in Nat
    OBVIOUS
  <1>2. IsFiniteSet(1..Len(records))
    BY <1>1, FS_Interval
  <1>3. IsFiniteSet(D)
    BY <1>1, <1>2, FS_Subset
  <1>4. ASSUME NEW n \in D
        PROVE  UsageOf(records, m)[n] = records[n].usage[m] /\ UsageOf(records, m)[n] \in Nat
    <2>1. records[n] \in UsageRecord
      BY <1>1
    <2>2. records[n].usage \in [Metrics -> Nat]
      BY <2>1, QuotaAssumption DEF UsageRecord
    <2> QED
      BY <2>2 DEF UsageOf
  <1>5. SumFunctionOnSet(UsageOf(records, m), D) \in Nat
    BY <1>3, <1>4, SumMonotonic
  <1> QED
    BY <1>3, <1>4, <1>5

(* Saturating as one adds is saturating the sum.                               *)
LEMMA SaturatedAdds ==
    ASSUME NEW a \in Nat, NEW b \in Nat
    PROVE  Saturated(Saturated(a) + b) = Saturated(a + b)
  BY QuotaAssumption DEF Saturated

(* A cycle that is opened now accounts for what it has to: nothing yet.        *)
LEMMA FreshAccounts ==
    ASSUME NEW records \in Seq(UsageRecord), NEW w \in Window, NEW now \in Int, NEW s
    PROVE  /\ OpenedAs(NewCycle(w, now), [at |-> now, seen |-> Len(records)])
           /\ AccountsFor(NewCycle(w, now), records, s, [at |-> now, seen |-> Len(records)])
           /\ NewCycle(w, now).end > now
  <1> DEFINE cycle == NewCycle(w, now)
             o == [at |-> now, seen |-> Len(records)]
  <1>1. cycle \in Cycle /\ ValidCycle(cycle, w)
    BY NewCycleIsValid
  <1>2. /\ cycle.since = (IF Floating(w) THEN NoTime ELSE now)
        /\ Floating(w) => cycle.start = now
        /\ cycle.used = [m \in Metrics |-> 0]
    BY DEF NewCycle
  <1>3. cycle.start \in Int /\ cycle.end \in Int /\ w.period \in Nat \ {0} /\ now # NoTime
    BY <1>1, QuotaAssumption DEF Cycle, Window
  <1>4. Len(records) \in Nat
    OBVIOUS
  <1> HIDE DEF cycle
  <1>5. cycle.start <= now /\ cycle.end > now
    BY <1>1, <1>2, <1>3 DEF ValidCycle
  <1>6. OpenedAs(cycle, o)
    BY <1>2, <1>3, <1>4, <1>5 DEF OpenedAs
  <1>7. Due(records, s, o, cycle.end) = {}
    <2>1. \A n \in DOMAIN records : ~(n > o.seen)
      BY <1>4
    <2> QED
      BY <2>1 DEF Due
  <1>8. AccountsFor(cycle, records, s, o)
    <2>1. ASSUME NEW m \in Metrics
          PROVE  cycle.used[m] = Saturated(SumFunctionOnSet(UsageOf(records, m), Due(records, s, o, cycle.end)))
      <3>1. SumFunctionOnSet(UsageOf(records, m), Due(records, s, o, cycle.end)) = 0
        BY <1>7, SumEmpty
      <3>2. Saturated(0) = 0
        BY QuotaAssumption DEF Saturated
      <3> QED
        BY <1>2, <3>1, <3>2
    <2> QED
      BY <2>1 DEF AccountsFor
  <1> QED
    BY <1>5, <1>6, <1>8 DEF cycle

(* One more record: the cycle is charged exactly if the record is due to it.   *)
LEMMA RecordAccounts ==
    ASSUME NEW records \in Seq(UsageRecord), NEW r \in UsageRecord, NEW s, NEW cycle \in Cycle,
           NEW o, OpenedAs(cycle, o), o.seen <= Len(records), AccountsFor(cycle, records, s, o),
           NEW charged,
           charged = IF r.scope = s /\ r.at # NoTime /\ Covers(cycle, r.at)
                     THEN Charge(cycle, r.usage) ELSE cycle
    PROVE  /\ OpenedAs(charged, o)
           /\ AccountsFor(charged, Append(records, r), s, o)
           /\ charged.end = cycle.end
  <1> DEFINE more == Append(records, r)
             last == Len(records) + 1
             due == Due(records, s, o, cycle.end)
  <1>1. /\ Len(records) \in Nat /\ DOMAIN records = 1..Len(records)
        /\ more \in Seq(UsageRecord) /\ DOMAIN more = 1..last
        /\ more[last] = r /\ \A n \in DOMAIN records : more[n] = records[n]
    OBVIOUS
  <1>2. r.usage \in Usages /\ r.at \in Int \union {NoTime}
    BY DEF UsageRecord
  <1>3. /\ charged.start = cycle.start /\ charged.end = cycle.end /\ charged.since = cycle.since
        /\ Charge(cycle, r.usage) \in Cycle
    BY <1>2, ChargedIsSame
  <1>4. OpenedAs(charged, o)
    BY <1>3 DEF OpenedAs
  <1> HIDE DEF more, last
  <1>5. \A n \in DOMAIN records : n \in DOMAIN more /\ n # last
    BY <1>1 DEF last
  <1>6. \A n \in DOMAIN more : n \in DOMAIN records \/ n = last
    BY <1>1 DEF last
  <1>7. last > o.seen /\ last \in DOMAIN more
    BY <1>1 DEF last, OpenedAs
  <1>8. (r.at # NoTime /\ Covers(cycle, r.at)) <=> (r.at # NoTime /\ o.at <= r.at /\ r.at < cycle.end)
    <2>1. cycle.start \in Int /\ o.at \in Int
      BY DEF OpenedAs, Cycle
    <2> QED
      BY <1>2, <2>1 DEF OpenedAs, Covers
  <1> DEFINE isDue == r.scope = s /\ r.at # NoTime /\ Covers(cycle, r.at)
  <1>9. Due(more, s, o, cycle.end) = IF isDue THEN due \union {last} ELSE due
    <2>1. \A n \in DOMAIN records : n \in Due(more, s, o, cycle.end) <=> n \in due
      BY <1>1, <1>5 DEF Due
    <2>2. last \in Due(more, s, o, cycle.end) <=> isDue
      BY <1>1, <1>7, <1>8 DEF Due
    <2>3. due \subseteq DOMAIN records /\ Due(more, s, o, cycle.end) \subseteq DOMAIN more
      BY DEF Due
    <2>4. PICK D : D = Due(more, s, o, cycle.end)
      OBVIOUS
    <2> HIDE DEF due, isDue
    <2>5. CASE isDue
      <3>1. \A n : n \in D <=> n \in due \union {last}
        BY <1>5, <1>6, <2>1, <2>2, <2>3, <2>4, <2>5
      <3> QED
        BY <2>4, <2>5, <3>1
    <2>6. CASE ~isDue
      <3>1. \A n : n \in D <=> n \in due
        BY <1>5, <1>6, <2>1, <2>2, <2>3, <2>4, <2>6
      <3> QED
        BY <2>4, <2>6, <3>1
    <2> QED
      BY <2>5, <2>6
  <1>10. ASSUME NEW m \in Metrics
         PROVE  charged.used[m] = Saturated(SumFunctionOnSet(UsageOf(more, m), Due(more, s, o, cycle.end)))
    <2>1. due \in SUBSET (DOMAIN records) /\ due \in SUBSET (DOMAIN more) /\ last \notin due
      BY <1>5 DEF Due
    <2>2. /\ IsFiniteSet(due)
          /\ SumFunctionOnSet(UsageOf(records, m), due) \in Nat
          /\ \A n \in due : UsageOf(records, m)[n] = records[n].usage[m]
      BY <2>1, UsageTyped
    <2>3. /\ \A n \in due : UsageOf(more, m)[n] = more[n].usage[m]
          /\ \A n \in due \union {last} : UsageOf(more, m)[n] \in Int
          /\ UsageOf(more, m)[last] = r.usage[m] /\ r.usage[m] \in Nat
      <3>1. due \union {last} \in SUBSET (DOMAIN more)
        BY <1>7, <2>1
      <3>2. more \in Seq(UsageRecord)
        BY <1>1
      <3> HIDE DEF due
      <3>3. \A n \in due \union {last} :
               UsageOf(more, m)[n] = more[n].usage[m] /\ UsageOf(more, m)[n] \in Nat
        BY <3>1, <3>2, UsageTyped
      <3>4. UsageOf(more, m)[last] = r.usage[m] /\ r.usage[m] \in Nat
        BY <1>1, <3>3
      <3> QED
        BY <3>3, <3>4
    <2>4. cycle.used[m] = Saturated(SumFunctionOnSet(UsageOf(records, m), due))
      BY DEF AccountsFor
    <2> HIDE DEF due
    <2>5. \A n \in due : UsageOf(more, m)[n] = UsageOf(records, m)[n]
      BY <1>1, <2>1, <2>2, <2>3
    <2>6. SumFunctionOnSet(UsageOf(more, m), due) = SumFunctionOnSet(UsageOf(records, m), due)
      BY <2>2, <2>5, SumsAgree
    <2>7. CASE ~isDue
      BY <1>9, <2>4, <2>6, <2>7
    <2>8. CASE isDue
      <3>1. SumFunctionOnSet(UsageOf(more, m), due \union {last})
               = r.usage[m] + SumFunctionOnSet(UsageOf(more, m), due)
        BY <2>1, <2>2, <2>3, SumAdds
      <3>2. charged.used[m] = Saturated(cycle.used[m] + r.usage[m])
        BY <2>8 DEF Charge, Cycle
      <3>3. PICK n : n = SumFunctionOnSet(UsageOf(records, m), due)
        OBVIOUS
      <3>4. PICK b : b = r.usage[m]
        OBVIOUS
      <3>5. n \in Nat /\ b \in Nat /\ charged.used[m] = Saturated(Saturated(n) + b)
        BY <2>2, <2>3, <2>4, <3>2, <3>3, <3>4
      <3>6. charged.used[m] = Saturated(n + b)
        BY <3>5, SaturatedAdds
      <3>7. SumFunctionOnSet(UsageOf(more, m), Due(more, s, o, cycle.end)) = n + b
        BY <1>9, <2>6, <2>8, <3>1, <3>3, <3>4, <3>5
      <3> QED
        BY <3>6, <3>7
    <2> QED
      BY <2>7, <2>8
  <1> QED
    BY <1>3, <1>4, <1>10 DEF AccountsFor, more

(* A step leaves an open cycle as it was, or opens one where none was or one   *)
(* was over; the record of a usage charges it.                                 *)
OpensOne(s, i) ==
    /\ cycles[s][i] = NoCycle \/ cycles[s][i].end <= clock
    /\ \E w \in Window : cycles'[s][i] = NewCycle(w, clock)

LEMMA AuthorizeOpens ==
    ASSUME Inv, NEW t \in Scopes, Authorize(t), NEW s \in Scopes, NEW i \in Open(cycles'[s])
    PROVE  cycles'[s][i] = cycles[s][i] \/ OpensOne(s, i)
  <1>1. /\ bound[t] \in DOMAIN plans /\ i \in WindowIds /\ cycles'[s][i] # NoCycle
        /\ s # t => cycles'[s] = cycles[s]
    BY DEF Authorize, Inv, CyclesReload, Open
  <1> DEFINE windows == plans[bound[t]]
             settled == SettledExpired(cycles[t], clock)
  <1>2. cycles'[t] = settled \/ cycles'[t] = Activated(settled, windows, clock)
    BY <1>1 DEF Authorize, Inv
  <1>3. /\ settled[i] = cycles[t][i] \/ settled[i] = NoCycle
        /\ settled[i] = NoCycle => cycles[t][i] = NoCycle \/ cycles[t][i].end <= clock
    BY <1>1 DEF SettledExpired
  <1>4. ASSUME s = t, cycles'[s][i] # cycles[s][i] PROVE OpensOne(s, i)
    <2>1. cycles'[t] = Activated(settled, windows, clock) /\ cycles'[t][i] # settled[i]
      BY <1>1, <1>2, <1>3, <1>4
    <2> HIDE DEF settled
    <2>2. i \in DOMAIN windows /\ settled[i] = NoCycle /\ cycles'[t][i] = NewCycle(windows[i], clock)
      BY <1>1, <2>1 DEF Activated
    <2>3. windows[i] \in Window
      BY <1>1, <2>2 DEF Inv, PlansTyped
    <2> QED
      BY <1>3, <1>4, <2>2, <2>3 DEF OpensOne
  <1> QED
    BY <1>1, <1>4

LEMMA RecordCharges ==
    ASSUME Inv, NEW t \in Scopes, NEW at, NEW usage \in Usages, RecordUsage(t, at, usage),
           NEW s \in Scopes, NEW i \in Open(cycles'[s])
    PROVE  /\ cycles[s][i] # NoCycle
           /\ cycles'[s][i] = IF t = s /\ at # NoTime /\ Covers(cycles[s][i], at)
                              THEN Charge(cycles[s][i], usage) ELSE cycles[s][i]
  <1>1. /\ i \in WindowIds /\ cycles'[s][i] # NoCycle
        /\ s # t => cycles'[s] = cycles[s]
    BY DEF RecordUsage, Inv, Open
  <1> DEFINE charged == IF bound[s] = NoPlan THEN cycles[s] ELSE Charged(cycles[s], at, usage)
  <1>2. ASSUME s = t
        PROVE  /\ cycles[s][i] # NoCycle
               /\ cycles'[s][i] = IF at # NoTime /\ Covers(cycles[s][i], at)
                                  THEN Charge(cycles[s][i], usage) ELSE cycles[s][i]
    <2>1. cycles'[s] = IF bound[s] \in DOMAIN plans THEN SettledExpired(charged, clock) ELSE charged
      BY <1>2 DEF RecordUsage, Inv
    <2>2. cycles'[s][i] = charged[i]
      BY <1>1, <2>1 DEF SettledExpired
    <2>3. CASE bound[s] = NoPlan
      <3>1. cycles[s][i] = NoCycle
        BY <1>1, <2>3 DEF Inv, CyclesReload, Open
      <3> QED
        BY <1>1, <2>2, <2>3, <3>1
    <2>4. CASE bound[s] # NoPlan
      <3>1. charged[i] = IF cycles[s][i] # NoCycle /\ at # NoTime /\ Covers(cycles[s][i], at)
                         THEN Charge(cycles[s][i], usage) ELSE cycles[s][i]
        BY <1>1, <2>4 DEF Charged
      <3>2. cycles[s][i] # NoCycle
        BY <1>1, <2>2, <3>1
      <3> HIDE DEF charged
      <3> QED
        BY <2>2, <3>1, <3>2
    <2> QED
      BY <2>3, <2>4
  <1> QED
    BY <1>1, <1>2

LEMMA ViewOpensNone ==
    ASSUME Inv, NEW scopes, View(scopes), NEW s \in Scopes, NEW i \in Open(cycles'[s])
    PROVE  cycles'[s][i] = cycles[s][i]
  <1>1. i \in WindowIds /\ cycles'[s][i] # NoCycle
    BY DEF Open
  <1>2. \/ cycles'[s] = cycles[s]
        \/ cycles'[s] = NoCycles
        \/ cycles'[s] = SettledExpired(cycles[s], clock)
    BY DEF View, SettledCycles
  <1> QED
    BY <1>1, <1>2 DEF NoCycles, SettledExpired

LEMMA AdministrationOpensNone ==
    ASSUME Inv, Administration, NEW s \in Scopes, NEW i \in Open(cycles'[s])
    PROVE  cycles'[s][i] = cycles[s][i]
  <1>1. i \in WindowIds /\ cycles'[s][i] # NoCycle /\ NoCycles[i] = NoCycle
    BY DEF Open, NoCycles
  <1>2. ASSUME NEW scopes, NEW p, BindTo(scopes, p) PROVE cycles'[s][i] = cycles[s][i]
    BY <1>1, <1>2 DEF BindTo
  <1>3. ASSUME NEW p, NEW windows, NEW scopes, UpdatePlan(p, windows, scopes)
        PROVE  cycles'[s][i] = cycles[s][i]
    BY <1>1, <1>3 DEF UpdatePlan
  <1>4. ASSUME NEW scopes, ResetQuota(scopes) PROVE cycles'[s][i] = cycles[s][i]
    BY <1>1, <1>4 DEF ResetQuota
  <1>5. ASSUME NEW keys, SyncKeys(keys) PROVE cycles'[s][i] = cycles[s][i]
    BY <1>5 DEF SyncKeys
  <1> QED
    BY <1>2, <1>3, <1>4, <1>5 DEF Administration, CreatePlan, DeletePlan, BindKey, UnbindKey

LEMMA CountingInit == Init => Counting
  BY DEF Init, Counting, Open, NoCycles

(* A step that records nothing.                                                *)
LEMMA SilentKeepsCounting ==
    ASSUME Inv, Counting, OpeningNoted, log' = log,
           \A s \in Scopes : \A i \in Open(cycles'[s]) :
              cycles'[s][i] = cycles[s][i] \/ OpensOne(s, i)
    PROVE  Counting'
  <1>1. ASSUME NEW s \in Scopes, NEW i \in Open(cycles'[s])
        PROVE  /\ OpenedAs(cycles'[s][i], opened'[s][i])
               /\ opened'[s][i].seen <= Len(log)
               /\ AccountsFor(cycles'[s][i], log, s, opened'[s][i])
    <2>1. i \in WindowIds /\ cycles'[s][i] # NoCycle
      BY DEF Open
    <2>2. opened'[s][i] =
             IF cycles[s][i] # NoCycle /\ cycles[s][i].end = cycles'[s][i].end
             THEN opened[s][i] ELSE [at |-> clock, seen |-> Len(log)]
      BY <2>1 DEF OpeningNoted
    <2>3. CASE cycles'[s][i] = cycles[s][i]
      <3>1. i \in Open(cycles[s]) /\ opened'[s][i] = opened[s][i]
        BY <2>1, <2>2, <2>3 DEF Open
      <3> QED
        BY <2>3, <3>1 DEF Counting
    <2>4. CASE OpensOne(s, i)
      <3>1. PICK w \in Window : cycles'[s][i] = NewCycle(w, clock)
        BY <2>4 DEF OpensOne
      <3>2. clock \in Int /\ log \in Seq(UsageRecord) /\ Len(log) \in Nat
        BY DEF Inv, Counting
      <3> DEFINE o == [at |-> clock, seen |-> Len(log)]
      <3>3. /\ OpenedAs(cycles'[s][i], o)
            /\ AccountsFor(cycles'[s][i], log, s, o)
            /\ cycles'[s][i].end > clock
        BY <3>1, <3>2, FreshAccounts
      <3>4. cycles[s][i] \in Cycle \union {NoCycle}
        BY <2>1 DEF Inv
      <3>5. ASSUME cycles[s][i] # NoCycle PROVE cycles[s][i].end # cycles'[s][i].end
        BY <2>4, <3>2, <3>3, <3>4, <3>5 DEF OpensOne, Cycle
      <3>6. opened'[s][i] = o /\ o.seen <= Len(log)
        BY <2>2, <3>2, <3>5
      <3> QED
        BY <3>3, <3>6
    <2> QED
      BY <2>3, <2>4
  <1> QED
    BY <1>1 DEF Counting

LEMMA RecordKeepsCounting ==
    ASSUME Inv, Counting, OpeningNoted, NEW t \in Scopes, NEW at \in Instants \union {NoTime},
           NEW usage \in Usages, RecordUsage(t, at, usage)
    PROVE  Counting'
  <1> DEFINE r == [scope |-> t, at |-> at, usage |-> usage]
  <1>1. log' = Append(log, r) /\ log \in Seq(UsageRecord)
    BY DEF RecordUsage, Counting
  <1>2. r \in UsageRecord
    BY QuotaAssumption DEF UsageRecord, Instants
  <1>3. log' \in Seq(UsageRecord) /\ Len(log') = Len(log) + 1 /\ Len(log) \in Nat
    BY <1>1, <1>2
  <1>4. ASSUME NEW s \in Scopes, NEW i \in Open(cycles'[s])
        PROVE  /\ OpenedAs(cycles'[s][i], opened'[s][i])
               /\ opened'[s][i].seen <= Len(log')
               /\ AccountsFor(cycles'[s][i], log', s, opened'[s][i])
    <2>1. i \in WindowIds /\ cycles'[s][i] # NoCycle
      BY DEF Open
    <2>2. /\ cycles[s][i] # NoCycle
          /\ cycles'[s][i] = IF t = s /\ at # NoTime /\ Covers(cycles[s][i], at)
                             THEN Charge(cycles[s][i], usage) ELSE cycles[s][i]
      BY RecordCharges
    <2>3. i \in Open(cycles[s]) /\ cycles[s][i] \in Cycle
      BY <2>1, <2>2 DEF Open, Inv
    <2> DEFINE o == opened[s][i]
    <2>4. OpenedAs(cycles[s][i], o) /\ o.seen <= Len(log) /\ AccountsFor(cycles[s][i], log, s, o)
      BY <2>3 DEF Counting
    <2>5. r.scope = t /\ r.at = at /\ r.usage = usage
      OBVIOUS
    <2>6. PICK c : c = cycles[s][i]
      OBVIOUS
    <2>7. PICK d : d = cycles'[s][i]
      OBVIOUS
    <2> HIDE DEF r, o
    <2>8. d = IF r.scope = s /\ r.at # NoTime /\ Covers(c, r.at) THEN Charge(c, r.usage) ELSE c
      BY <2>2, <2>5, <2>6, <2>7
    <2>9. /\ OpenedAs(d, o) /\ d.end = c.end
          /\ AccountsFor(d, Append(log, r), s, o)
      BY <1>1, <1>2, <2>3, <2>4, <2>6, <2>8, RecordAccounts
    <2>10. opened'[s][i] = o
      BY <2>1, <2>2, <2>6, <2>7, <2>9 DEF OpeningNoted, o
    <2>11. o.seen <= Len(log')
      BY <1>3, <2>4 DEF OpenedAs
    <2> QED
      BY <1>1, <2>7, <2>9, <2>10, <2>11
  <1> QED
    BY <1>3, <1>4 DEF Counting

LEMMA CountingNext == Inv /\ Counting /\ [Next]_vars => Counting'
  <1> SUFFICES ASSUME Inv, Counting, [Next]_vars PROVE Counting'
    OBVIOUS
  <1>1. CASE UNCHANGED vars
    BY <1>1 DEF vars, Counting
  <1>2. CASE Tick /\ OpeningNoted
    BY <1>2, SilentKeepsCounting DEF Tick
  <1>3. CASE Administration /\ OpeningNoted
    <2>1. log' = log
      BY <1>3 DEF Administration, CreatePlan, UpdatePlan, DeletePlan, BindKey, UnbindKey,
         ResetQuota, SyncKeys
    <2> QED
      BY <1>3, <2>1, AdministrationOpensNone, SilentKeepsCounting
  <1>4. ASSUME NEW s \in Scopes, Authorize(s), OpeningNoted PROVE Counting'
    <2>1. log' = log
      BY <1>4 DEF Authorize
    <2> QED
      BY <1>4, <2>1, AuthorizeOpens, SilentKeepsCounting
  <1>5. ASSUME NEW scopes, View(scopes), OpeningNoted PROVE Counting'
    <2>1. log' = log
      BY <1>5 DEF View
    <2> QED
      BY <1>5, <2>1, ViewOpensNone, SilentKeepsCounting
  <1>6. CASE Traffic /\ OpeningNoted
    BY <1>4, <1>5, <1>6, RecordKeepsCounting DEF Traffic
  <1> QED
    BY <1>1, <1>2, <1>3, <1>6 DEF Next

LEMMA CountingMeaning == Inv /\ Counting => UsedIsSinceOpening
  <1> SUFFICES ASSUME Inv, Counting, NEW s \in Scopes, NEW i \in Open(cycles[s]), NEW m \in Metrics
               PROVE  cycles[s][i].used[m] = Saturated(
                         SumFunctionOnSet([n \in DOMAIN log |-> log[n].usage[m]], Attributable(s, i)))
    BY DEF UsedIsSinceOpening
  <1>1. AccountsFor(cycles[s][i], log, s, opened[s][i])
    BY DEF Counting
  <1>2. Attributable(s, i) = Due(log, s, opened[s][i], cycles[s][i].end)
    BY DEF Attributable, Due
  <1> QED
    BY <1>1, <1>2 DEF AccountsFor, UsageOf

(* What a key has used of a window is, up to saturation, the sum of all usage  *)
(* of attempts begun between the admission that opened the cycle and its end,  *)
(* handed in since: late records of an earlier cycle, binding or reset are not *)
(* charged to it, and no edit, deletion or restore loses any (quota.go:187).   *)
THEOREM CyclesCountTheirOwn == Spec => []UsedIsSinceOpening
  <1>1. Init => Inv /\ Counting
    BY InvInit, CountingInit
  <1>2. Inv /\ Counting /\ [Next]_vars => Inv' /\ Counting'
    BY InvNext, CountingNext
  <1> QED
    BY <1>1, <1>2, CountingMeaning, PTL DEF Spec

-----------------------------------------------------------------------------
(* When a blocked key is admitted again *)

(* A window that no admission has opened is never exhausted.                   *)
LEMMA FreshIsNotExhausted ==
    ASSUME NEW w \in Window, NEW now
    PROVE  ~Exhausted(w, NewCycle(w, now).used)
  <1>1. NewCycle(w, now).used = [m \in Metrics |-> 0]
    BY DEF NewCycle
  <1>2. \A m \in Metrics : w.limit[m] \in Nat
    BY DEF Window
  <1> QED
    BY <1>1, <1>2 DEF Exhausted

LEMMA BlockedByOpen ==
    ASSUME NEW open, Typed(open), NEW windows, PlanTyped(windows), NEW now
    PROVE  BlockedWindows(open, windows, now)
              = {i \in DOMAIN windows : open[i] # NoCycle /\ Exhausted(windows[i], open[i].used)}
  <1>1. ASSUME NEW i \in DOMAIN windows
        PROVE  i \in BlockedWindows(open, windows, now)
                  <=> open[i] # NoCycle /\ Exhausted(windows[i], open[i].used)
    <2>1. windows[i] \in Window
      BY DEF PlanTyped
    <2>2. CASE open[i] # NoCycle
      BY <2>2 DEF BlockedWindows, ShownCycle
    <2>3. CASE open[i] = NoCycle
      BY <2>1, <2>3, FreshIsNotExhausted DEF BlockedWindows, ShownCycle
    <2> QED
      BY <2>2, <2>3
  <1> QED
    BY <1>1 DEF BlockedWindows

LEMMA RetryIsLastEnd ==
    ASSUME NEW open, Typed(open), NEW windows, PlanTyped(windows), NEW now,
           Blocked(open, windows, now)
    PROVE  LET blocked == BlockedWindows(open, windows, now)
           IN /\ \E i \in blocked : RetryAt(open, windows, now) = open[i].end
              /\ \A i \in blocked : open[i].end <= RetryAt(open, windows, now)
              /\ RetryAt(open, windows, now) \in Int
  <1> DEFINE blocked == BlockedWindows(open, windows, now)
             ends == {open[i].end : i \in blocked}
  <1>1. \A i \in blocked : i \in WindowIds /\ open[i] # NoCycle /\ open[i] \in Cycle
    BY BlockedByOpen DEF PlanTyped, Typed
  <1>2. \A i \in blocked : ShownCycle(open, windows[i], i, now).end = open[i].end
    BY <1>1 DEF ShownCycle
  <1>3. ends = {ShownCycle(open, windows[i], i, now).end : i \in blocked}
    BY <1>2
  <1>4. RetryAt(open, windows, now) = Max(ends)
    BY <1>3 DEF RetryAt
  <1>5. blocked # {} /\ IsFiniteSet(blocked)
    BY <1>1, FS_Subset, QuotaAssumption DEF Blocked
  <1>6. IsFiniteSet(ends)
    <2> DEFINE f == [i \in blocked |-> open[i].end]
    <2>1. f \in Surjection(blocked, ends)
      BY DEF Surjection
    <2> HIDE DEF f, ends, blocked
    <2> QED
      BY <1>5, <2>1, FS_Surjection
  <1>7. ends \subseteq Int /\ ends # {}
    BY <1>1, <1>5 DEF Cycle
  <1>8. \E m \in ends : \A n \in ends : n <= m
    BY <1>6, <1>7, LargestNumber
  <1>9. Max(ends) \in ends /\ \A n \in ends : n <= Max(ends)
    <2>1. \E m \in ends : \A n \in ends : m >= n
      BY <1>7, <1>8
    <2> QED
      BY <1>7, <2>1 DEF Max
  <1> QED
    BY <1>4, <1>7, <1>9

(* The Retry-After of a refusal is exact: with no further usage the key stays  *)
(* blocked until the last of its exhausted windows ends, and is admitted from  *)
(* that instant on (quota.go:88).                                              *)
THEOREM RefusalsAreHonest == Spec => []RetryIsExact
  <1>1. Inv => RetryIsExact
    <2> SUFFICES ASSUME Inv, NEW s \in Scopes, bound[s] \in DOMAIN plans PROVE
             LET windows == plans[bound[s]]
                 open == SettledExpired(cycles[s], clock)
             IN Blocked(open, windows, clock) =>
                  \A t \in clock..(RetryAt(open, windows, clock) + 1) :
                     Blocked(SettledExpired(open, t), windows, t) <=> t < RetryAt(open, windows, clock)
      BY DEF RetryIsExact
    <2> DEFINE windows == plans[bound[s]]
               open == SettledExpired(cycles[s], clock)
               retry == RetryAt(open, windows, clock)
    <2>1. Typed(open) /\ PlanTyped(windows) /\ clock \in Int
      BY DEF Inv, PlansTyped, PlanTyped, Typed, SettledExpired
    <2> HIDE DEF open, windows
    <2>2. ASSUME Blocked(open, windows, clock), NEW t \in clock..(retry + 1)
          PROVE  Blocked(SettledExpired(open, t), windows, t) <=> t < retry
      <3> DEFINE blocked == BlockedWindows(open, windows, clock)
                 later == SettledExpired(open, t)
      <3>1. /\ \E i \in blocked : retry = open[i].end
            /\ \A i \in blocked : open[i].end <= retry
            /\ retry \in Int
        BY <2>1, <2>2, RetryIsLastEnd
      <3>2. t \in Int
        BY <2>1, <3>1
      <3>3. blocked = {i \in DOMAIN windows : open[i] # NoCycle /\ Exhausted(windows[i], open[i].used)}
        BY <2>1, BlockedByOpen
      <3>4. Typed(later)
        BY <2>1 DEF Typed, SettledExpired
      <3>5. BlockedWindows(later, windows, t)
               = {i \in DOMAIN windows : later[i] # NoCycle /\ Exhausted(windows[i], later[i].used)}
        BY <2>1, <3>4, BlockedByOpen
      <3>6. \A i \in DOMAIN windows :
               /\ later[i] = IF open[i] # NoCycle /\ open[i].end <= t THEN NoCycle ELSE open[i]
               /\ open[i] # NoCycle => open[i].end \in Int
        BY <2>1 DEF PlanTyped, SettledExpired, Typed, Cycle
      <3> HIDE DEF later, retry
      <3>7. BlockedWindows(later, windows, t) = {i \in blocked : t < open[i].end}
        BY <3>2, <3>3, <3>5, <3>6
      <3>8. \A i \in blocked : open[i].end \in Int
        BY <3>3, <3>6
      <3>9. BlockedWindows(later, windows, t) # {} <=> t < retry
        <4> HIDE DEF blocked
        <4> QED
          BY <3>1, <3>2, <3>7, <3>8
      <3> QED
        BY <3>9 DEF Blocked, later
    <2> QED
      BY <2>2 DEF open, windows
  <1> QED
    BY <1>1, InvInit, InvNext, PTL DEF Spec

=============================================================================
