--------------------------- MODULE AdmissionProofs ---------------------------
(***************************************************************************)
(* Proofs about Admission for every set of calls, requests, keys, groups   *)
(* and limits.                                                             *)
(***************************************************************************)
EXTENDS Admission, FiniteSetTheorems, TLAPS

(* Releasing a slot, of whichever table, leaves the four tables well typed. *)
LEMMA ReleaseType ==
    ASSUME TypeOK, NEW r \in Ids, ReleaseSlot(r)
    PROVE  /\ activeRequests' \in [Requests -> Scopes \union {NoScope}]
           /\ activeByScope' \in [Scopes -> Nat]
           /\ groupSlots' \in [Requests -> Pairs \union {NoSlot}]
           /\ groupActive' \in [Pairs -> Nat]
  <1>1. \A n \in Nat : Less(n) \in Nat
    BY DEF Less
  <1>2. CASE /\ r \in Requests
             /\ activeRequests[r] # NoScope
             /\ activeRequests' = [activeRequests EXCEPT ![r] = NoScope]
             /\ activeByScope' = [activeByScope EXCEPT ![activeRequests[r]] = Less(@)]
             /\ UNCHANGED <<groupSlots, groupActive>>
    <2>1. activeRequests[r] \in Scopes
      BY <1>2 DEF TypeOK
    <2>2. Less(activeByScope[activeRequests[r]]) \in Nat
      BY <1>1, <2>1 DEF TypeOK
    <2> QED
      BY <1>2, <2>1, <2>2 DEF TypeOK
  <1>3. CASE /\ r \in Requests
             /\ activeRequests[r] = NoScope
             /\ groupSlots[r] # NoSlot
             /\ groupSlots' = [groupSlots EXCEPT ![r] = NoSlot]
             /\ groupActive' = [groupActive EXCEPT ![groupSlots[r]] = Less(@)]
             /\ UNCHANGED <<activeRequests, activeByScope>>
    <2>1. groupSlots[r] \in Pairs
      BY <1>3 DEF TypeOK
    <2>2. Less(groupActive[groupSlots[r]]) \in Nat
      BY <1>1, <2>1 DEF TypeOK
    <2> QED
      BY <1>3, <2>1, <2>2 DEF TypeOK
  <1>4. CASE (r \in Requests => ~Holds(r)) /\ UNCHANGED slotVars
    BY <1>4 DEF TypeOK, slotVars
  <1> QED
    BY <1>2, <1>3, <1>4 DEF ReleaseSlot

(* A call at a program point before its answer carries its arguments. *)
LEMMA DecidingCall ==
    ASSUME TypeOK, NEW c \in Calls, call[c].pc \in Points
    PROVE  call[c] \in Deciding
  BY DEF TypeOK, Points, Idle, Answered

-----------------------------------------------------------------------------
(* Type correctness *)

LEMMA TypeInit == Init => TypeOK
  BY BlankAssumption DEF Init, TypeOK, NoMarker, Marker

LEMMA TypeNext ==
    ASSUME TypeOK, MarkerCountsCalls, \A r \in Requests : IsFiniteSet(CallsOf(r)),
           [Next]_vars
    PROVE  TypeOK'
  <1> USE DEF TypeOK
  <1> USE DEF configVars, slotVars, historyVars
  <1>1. ASSUME NEW c \in Calls, NEW k \in Arrivals, Begin(c, k) PROVE TypeOK'
    <2>1. k \in Deciding /\ k.req \in Ids
      BY DEF Arrivals, Deciding, Points
    <2>2. admissions' \in [Requests -> Marker]
      BY <1>1, <2>1 DEF Begin, Marker, Ids
    <2> QED
      BY <1>1, <2>1, <2>2 DEF Begin
  <1>2. ASSUME NEW c \in Calls, Check(c) PROVE TypeOK'
    BY <1>2 DEF Check, Goto, Respond, Deciding, Answered, Idle, Points
  <1>3. ASSUME NEW c \in Calls, Lock(c) PROVE TypeOK'
    BY <1>3 DEF Lock, Goto, Answer, Respond, Deciding, Answered, Idle, Points
  <1>4. ASSUME NEW c \in Calls, AdmitLegacy(c) PROVE TypeOK'
    BY <1>4 DEF AdmitLegacy, Goto, Deciding, Answered, Idle, Points
  <1>5. ASSUME NEW c \in Calls, AdmitGroup(c) PROVE TypeOK'
    <2> DEFINE r == call[c].req
               p == <<call[c].scope, call[c].group>>
    <2>1. call[c] \in Deciding
      BY <1>5, DecidingCall DEF AdmitGroup, Points
    <2>2. r \in Ids /\ p \in Pairs
      BY <1>5, <2>1 DEF AdmitGroup, Deciding, Pairs
    <2>3. call' \in [Calls -> {Idle} \union Answered \union Deciding] /\ admissionsMu' = NoCall
      BY <1>5, <2>2 DEF AdmitGroup, Answer, Respond, Answered
    <2>4. CASE UNCHANGED <<slotVars, admitted>>
      BY <1>5, <2>3, <2>4 DEF AdmitGroup
    <2>5. CASE GroupAdmits(call[c]) /\ TakeGroupSlot(r, p) /\ admitted' = admitted \union {r}
      BY <1>5, <2>2, <2>3, <2>5 DEF AdmitGroup, GroupAdmits, TakeGroupSlot, Ids
    <2> QED
      BY <1>5, <2>4, <2>5 DEF AdmitGroup
  <1>6. ASSUME NEW c \in Calls, AcquireSlot(c) PROVE TypeOK'
    <2> DEFINE k == call[c]
    <2>1. k \in Deciding
      BY <1>6, DecidingCall DEF AcquireSlot, Points
    <2>2. CASE k.scope = NoScope /\ Goto(c, "authorize") /\ UNCHANGED <<admissionsMu, slotVars>>
      BY <1>6, <2>1, <2>2 DEF AcquireSlot, Goto, Deciding, Points
    <2>3. CASE Answer(c) /\ UNCHANGED slotVars
      BY <1>6, <2>1, <2>3 DEF AcquireSlot, Answer, Respond, Answered, Deciding
    <2>4. CASE /\ k.scope # NoScope
               /\ call' = [call EXCEPT ![c].pc = "authorize", ![c].acquired = TakesKeySlot(k)]
               /\ IF TakesKeySlot(k) THEN TakeKeySlot(k.req, k.scope) ELSE UNCHANGED slotVars
               /\ UNCHANGED admissionsMu
      <3>1. TakesKeySlot(k) \in BOOLEAN
        BY DEF TakesKeySlot
      <3>2. call' \in [Calls -> {Idle} \union Answered \union Deciding]
        BY <2>1, <2>4, <3>1 DEF Deciding, Points
      <3>3. CASE TakesKeySlot(k)
        BY <1>6, <2>1, <2>4, <3>2, <3>3 DEF AcquireSlot, TakesKeySlot, TakeKeySlot, Deciding, Ids
      <3>4. CASE ~TakesKeySlot(k)
        BY <1>6, <2>4, <3>2, <3>4 DEF AcquireSlot
      <3> QED
        BY <3>3, <3>4
    <2> QED
      BY <1>6, <2>2, <2>3, <2>4 DEF AcquireSlot
  <1>7. ASSUME NEW c \in Calls, Authorize(c) PROVE TypeOK'
    <2> DEFINE k == call[c]
    <2>1. k \in Deciding
      BY <1>7, DecidingCall DEF Authorize, Points
    <2>2. call' \in [Calls -> {Idle} \union Answered \union Deciding] /\ admissionsMu' = NoCall
      BY <1>7, <2>1 DEF Authorize, Answer, Respond, Answered, Deciding
    <2>3. admitted' \subseteq Requests
      BY <1>7, <2>1 DEF Authorize, Tracked, Deciding, Ids
    <2>4. CASE UNCHANGED slotVars
      BY <1>7, <2>2, <2>3, <2>4 DEF Authorize
    <2>5. CASE ReleaseSlot(k.req)
      <3>1. k.req \in Ids
        BY <2>1 DEF Deciding
      <3> HIDE DEF TypeOK
      <3>2. /\ activeRequests' \in [Requests -> Scopes \union {NoScope}]
            /\ activeByScope' \in [Scopes -> Nat]
            /\ groupSlots' \in [Requests -> Pairs \union {NoSlot}]
            /\ groupActive' \in [Pairs -> Nat]
        BY <2>5, <3>1, ReleaseType
      <3> QED
        BY <1>7, <2>2, <2>3, <3>2 DEF Authorize, TypeOK
    <2> QED
      BY <1>7, <2>4, <2>5 DEF Authorize
  <1>8. ASSUME NEW c \in Calls, End(c) PROVE TypeOK'
    <2> DEFINE r == call[c].req
    <2>1. call[c] \in Answered
      BY <1>8 DEF End, Idle, Deciding, Points
    <2>2. call' \in [Calls -> {Idle} \union Answered \union Deciding]
      BY <1>8 DEF End
    <2>3. CASE r = NoRequest
      BY <1>8, <2>2, <2>3 DEF End, EndAdmission
    <2>4. CASE r \in Requests
      <3>1. c \in CallsOf(r)
        BY <1>8, <2>1 DEF CallsOf, End, Idle, Answered
      <3>2. admissions[r].calls = Cardinality(CallsOf(r)) /\ IsFiniteSet(CallsOf(r))
        BY <2>4 DEF MarkerCountsCalls
      <3>3. admissions[r].calls \in Nat \ {0}
        BY <3>1, <3>2, FS_EmptySet, FS_CardinalityType
      <3>4. admissions[r].calls - 1 \in Nat
        BY <3>3
      <3>5. EndAdmission(r) \in [Requests -> Marker]
        BY <2>4, <3>4, BlankAssumption DEF EndAdmission, Marker, NoMarker
      <3> QED
        BY <1>8, <2>2, <3>5 DEF End
    <2> QED
      BY <2>1, <2>3, <2>4 DEF Answered, Ids
  <1>9. ASSUME NEW r \in Requests, Complete(r) PROVE TypeOK'
    <2>1. admissions' \in [Requests -> Marker]
      BY <1>9 DEF Complete, Marker
    <2>2. r \in Ids
      BY DEF Ids
    <2> HIDE DEF TypeOK
    <2>3. /\ activeRequests' \in [Requests -> Scopes \union {NoScope}]
          /\ activeByScope' \in [Scopes -> Nat]
          /\ groupSlots' \in [Requests -> Pairs \union {NoSlot}]
          /\ groupActive' \in [Pairs -> Nat]
      BY <1>9, <2>2, ReleaseType DEF Complete
    <2> QED
      BY <1>9, <2>1, <2>3 DEF Complete, TypeOK
  <1>10. CASE Administer
    <2>1. ASSUME NEW s \in Scopes, NEW limit \in Limits \union {0}, SetConcurrencyLimit(s, limit)
          PROVE  TypeOK'
      BY <2>1 DEF SetConcurrencyLimit
    <2>2. ASSUME NEW p \in Pairs, NEW limit \in Limits \union {Unlimited}, SaveGroupPlan(p, limit)
          PROVE  TypeOK'
      BY <2>2 DEF SaveGroupPlan
    <2>3. ASSUME NEW s \in Scopes, SwitchMode(s) PROVE TypeOK'
      BY <2>3 DEF SwitchMode
    <2>4. CASE Close
      BY <2>4 DEF Close
    <2> QED
      BY <1>10, <2>1, <2>2, <2>3, <2>4 DEF Administer
  <1>11. CASE UNCHANGED vars
    BY <1>11 DEF vars
  <1> QED
    BY <1>1, <1>2, <1>3, <1>4, <1>5, <1>6, <1>7, <1>8, <1>9, <1>10, <1>11
    DEF Next, Step

-----------------------------------------------------------------------------
(* The marker counts the calls in flight *)

Counted ==
    /\ TypeOK
    /\ MarkerCountsCalls
    /\ \A r \in Requests : IsFiniteSet(CallsOf(r))

(* A step of a call that neither arrives nor leaves keeps its request id. *)
LEMMA SameCalls ==
    ASSUME TypeOK, NEW c \in Calls,
           Check(c) \/ Lock(c) \/ AdmitLegacy(c) \/ AdmitGroup(c)
               \/ AcquireSlot(c) \/ Authorize(c)
    PROVE  /\ UNCHANGED admissions
           /\ \A r \in Requests : CallsOf(r)' = CallsOf(r)
  <1>1. call[c].pc \in Points /\ UNCHANGED admissions
    BY DEF Check, Lock, AdmitLegacy, AdmitGroup, AcquireSlot, Authorize, Points
  <1>2. call[c] \in Deciding
    BY <1>1, DecidingCall
  <1>3. \/ \E point \in Points : Goto(c, point)
        \/ Respond(c)
        \/ \E b \in BOOLEAN : call' = [call EXCEPT ![c].pc = "authorize", ![c].acquired = b]
    <2>1. CASE AcquireSlot(c)
      BY <2>1 DEF AcquireSlot, Goto, Answer, Points, TakesKeySlot
    <2>2. CASE ~AcquireSlot(c)
      BY <2>2 DEF Check, Lock, AdmitLegacy, AdmitGroup, Authorize, Answer, Points
    <2> QED
      BY <2>1, <2>2
  <1>4. call'[c] # Idle /\ call'[c].req = call[c].req /\ call[c] # Idle
    BY <1>2, <1>3 DEF TypeOK, Goto, Respond, Deciding, Idle, Points
  <1>5. \A d \in Calls \ {c} : call'[d] = call[d]
    BY <1>3 DEF TypeOK, Goto, Respond
  <1> QED
    BY <1>1, <1>4, <1>5 DEF CallsOf

LEMMA CountedNext == Counted /\ [Next]_vars => Counted'
  <1> SUFFICES ASSUME Counted, [Next]_vars PROVE Counted'
    OBVIOUS
  <1>1. TypeOK'
    BY TypeNext DEF Counted
  <1>2. ASSUME \A r \in Requests : CallsOf(r)' = CallsOf(r), UNCHANGED admissions
        PROVE  Counted'
    BY <1>1, <1>2 DEF Counted, MarkerCountsCalls
  <1>3. ASSUME NEW c \in Calls, NEW k \in Arrivals, Begin(c, k) PROVE Counted'
    <2>1. k # Idle /\ call[c] = Idle
      BY <1>3 DEF Arrivals, Idle, Begin
    <2>2. ASSUME NEW r \in Requests, r # k.req
          PROVE  CallsOf(r)' = CallsOf(r) /\ admissions'[r] = admissions[r]
      BY <1>3, <2>1, <2>2 DEF Begin, CallsOf, Counted, TypeOK, Arrivals
    <2>3. ASSUME k.req \in Requests
          PROVE  /\ CallsOf(k.req)' = CallsOf(k.req) \union {c}
                 /\ c \notin CallsOf(k.req)
                 /\ admissions'[k.req].calls = admissions[k.req].calls + 1
      BY <1>3, <2>1, <2>3, BlankAssumption DEF Begin, CallsOf, Counted, TypeOK, Arrivals, Marker
    <2>4. ASSUME NEW r \in Requests
          PROVE  /\ IsFiniteSet(CallsOf(r)')
                 /\ admissions'[r].calls = Cardinality(CallsOf(r)')
                 /\ admissions'[r].calls = 0 => admissions'[r] = NoMarker
      <3>1. CASE r # k.req
        BY <2>2, <3>1 DEF Counted, MarkerCountsCalls
      <3>2. CASE r = k.req
        <4>1. Cardinality(CallsOf(r)') = Cardinality(CallsOf(r)) + 1 /\ IsFiniteSet(CallsOf(r)')
          BY <2>3, <3>2, FS_AddElement DEF Counted
        <4>2. Cardinality(CallsOf(r)) \in Nat
          BY FS_CardinalityType DEF Counted
        <4> QED
          BY <2>3, <3>2, <4>1, <4>2 DEF Counted, MarkerCountsCalls
      <3> QED
        BY <3>1, <3>2
    <2> QED
      BY <1>1, <2>4 DEF Counted, MarkerCountsCalls
  <1>4. ASSUME NEW c \in Calls, End(c) PROVE Counted'
    <2> DEFINE q == call[c].req
    <2>1. call[c] \in Answered
      BY <1>4 DEF End, Counted, TypeOK, Deciding, Idle, Points
    <2>2. ASSUME NEW r \in Requests, r # q
          PROVE  CallsOf(r)' = CallsOf(r) /\ admissions'[r] = admissions[r]
      BY <1>4, <2>1, <2>2 DEF End, EndAdmission, CallsOf, Counted, TypeOK
    <2>3. ASSUME NEW r \in Requests, r = q
          PROVE  CallsOf(r)' = CallsOf(r) \ {c} /\ c \in CallsOf(r)
      BY <1>4, <2>1, <2>3 DEF End, CallsOf, Counted, TypeOK, Idle, Answered
    <2>4. ASSUME NEW r \in Requests
          PROVE  /\ IsFiniteSet(CallsOf(r)')
                 /\ admissions'[r].calls = Cardinality(CallsOf(r)')
                 /\ admissions'[r].calls = 0 => admissions'[r] = NoMarker
      <3>1. CASE r # q
        BY <2>2, <3>1 DEF Counted, MarkerCountsCalls
      <3>2. CASE r = q
        <4>1. Cardinality(CallsOf(r)') = Cardinality(CallsOf(r)) - 1 /\ IsFiniteSet(CallsOf(r)')
          BY <2>3, <3>2, FS_RemoveElement DEF Counted
        <4>2. admissions[r].calls \in Nat /\ admissions[r].calls = Cardinality(CallsOf(r))
          BY DEF Counted, MarkerCountsCalls, TypeOK, Marker
        <4>3. admissions' = EndAdmission(r) /\ r # NoRequest
          BY <1>4, <3>2, BlankAssumption DEF End
        <4>4. CASE admissions[r].calls = 1
          BY <4>1, <4>2, <4>3, <4>4 DEF EndAdmission, NoMarker, Counted, TypeOK
        <4>5. CASE admissions[r].calls # 1
          BY <4>1, <4>2, <4>3, <4>5 DEF EndAdmission, Counted, TypeOK, Marker
        <4> QED
          BY <4>4, <4>5
      <3> QED
        BY <3>1, <3>2
    <2> QED
      BY <1>1, <2>4 DEF Counted, MarkerCountsCalls
  <1>5. ASSUME NEW c \in Calls,
               Check(c) \/ Lock(c) \/ AdmitLegacy(c) \/ AdmitGroup(c)
                   \/ AcquireSlot(c) \/ Authorize(c)
        PROVE  Counted'
    BY <1>2, <1>5, SameCalls DEF Counted
  <1>6. ASSUME NEW r \in Requests, Complete(r) PROVE Counted'
    <2>1. \A q \in Requests : CallsOf(q)' = CallsOf(q)
      BY <1>6 DEF Complete, CallsOf
    <2>2. \A q \in Requests :
            /\ admissions'[q].calls = admissions[q].calls
            /\ admissions[q].calls = 0 => admissions'[q] = admissions[q]
      BY <1>6 DEF Complete, Counted, TypeOK, Marker
    <2> QED
      BY <1>1, <2>1, <2>2 DEF Counted, MarkerCountsCalls
  <1>7. CASE Administer \/ UNCHANGED vars
    <2>1. UNCHANGED <<call, admissions>>
      <3>1. CASE Administer
        BY <3>1 DEF Administer, SetConcurrencyLimit, SaveGroupPlan, SwitchMode, Close
      <3>2. CASE UNCHANGED vars
        BY <3>2 DEF vars
      <3> QED
        BY <1>7, <3>1, <3>2
    <2>2. \A r \in Requests : CallsOf(r)' = CallsOf(r)
      BY <2>1 DEF CallsOf
    <2> QED
      BY <1>2, <2>1, <2>2
  <1> QED
    BY <1>3, <1>4, <1>5, <1>6, <1>7 DEF Next, Step

(* Every state of every behaviour is well typed (all of Store's slot tables, *)
(* App's markers and the calls in flight). *)
THEOREM TypeCorrect == Spec => []TypeOK
  <1>1. Init => Counted
    <2> SUFFICES ASSUME Init PROVE Counted
      OBVIOUS
    <2>1. \A r \in Requests : CallsOf(r) = {}
      BY DEF Init, CallsOf
    <2> QED
      BY <2>1, TypeInit, FS_EmptySet DEF Counted, MarkerCountsCalls, Init, NoMarker
  <1>2. Counted => TypeOK
    BY DEF Counted
  <1> QED
    BY <1>1, <1>2, CountedNext, PTL DEF Spec

-----------------------------------------------------------------------------
(* Slots *)

Tables ==
    /\ OneSlotPerRequest
    /\ NoSlotAfterCompletion
    /\ AdmittedKeepsSlot
    /\ SlotIsAccountedFor

Safe == Counted /\ Coordinated /\ Tables

(* A release empties both tables of its request and touches no other. *)
LEMMA ReleaseEffect ==
    ASSUME TypeOK, OneSlotPerRequest, NEW r \in Ids, ReleaseSlot(r), NEW q \in Requests
    PROVE  /\ q # r => activeRequests'[q] = activeRequests[q] /\ groupSlots'[q] = groupSlots[q]
           /\ q = r => activeRequests'[q] = NoScope /\ groupSlots'[q] = NoSlot
  BY DEF ReleaseSlot, TypeOK, OneSlotPerRequest, Holds, slotVars

(* Only the call that holds admissionsMu is between Lock and its answer. *)
LEMMA SoleDecider ==
    ASSUME TypeOK, Coordinated, NEW c \in Calls, call[c].pc \in HoldsMutex, NEW d \in Calls,
           call[d].pc \in HoldsMutex
    PROVE  c = d /\ admissionsMu = c /\ call[c] \in Deciding /\ call[c].req \notin finished
  <1>1. call[c] \in Deciding
    BY DecidingCall DEF HoldsMutex, Points
  <1> QED
    BY <1>1 DEF Coordinated, HoldsMutex, Idle

LEMMA SafeBegin ==
    ASSUME Safe, TypeOK', NEW c \in Calls, NEW k \in Arrivals, Begin(c, k)
    PROVE  Coordinated' /\ Tables'
  <1> USE DEF Safe, Counted
  <1>1. UNCHANGED <<activeRequests, groupSlots, historyVars, admissionsMu>> /\ admissionsMu = NoCall
    BY DEF Begin, slotVars
  <1>2. call' = [call EXCEPT ![c] = k] /\ k.pc = "begun" /\ k.acquired = FALSE /\ k.req \notin finished
    BY DEF Begin, Arrivals
  <1>3. \A r \in Requests : admissions'[r].completed = admissions[r].completed
    BY DEF Begin, Arrivals, TypeOK, Marker
  <1>4. \A d \in Calls : call[d].pc \notin HoldsMutex /\ call'[d].pc \notin HoldsMutex
    BY <1>1, <1>2, BlankAssumption DEF Coordinated, HoldsMutex, TypeOK
  <1>5. Coordinated'
    <2>1. (\A d \in Calls : admissionsMu = d <=> call[d].pc \in HoldsMutex)'
      BY <1>1, <1>4, BlankAssumption
    <2>2. ASSUME NEW d \in Calls, call'[d] # Idle, call'[d].req \in finished'
          PROVE  call'[d].pc \notin HoldsMutex /\ admissions'[call'[d].req].completed
      BY <1>1, <1>2, <1>3, <1>4, <2>2 DEF Coordinated, TypeOK, historyVars
    <2>3. ASSUME NEW d \in Calls, call'[d].pc \in Points \ {"authorize"} PROVE ~call'[d].acquired
      BY <1>2, <2>3 DEF Coordinated, TypeOK
    <2> QED
      BY <1>4, <2>1, <2>2, <2>3 DEF Coordinated, HoldsMutex
  <1>6. Tables'
    BY <1>1 DEF Tables, OneSlotPerRequest, NoSlotAfterCompletion, AdmittedKeepsSlot,
       SlotIsAccountedFor, Holds, historyVars
  <1> QED
    BY <1>5, <1>6

LEMMA SafeEnd ==
    ASSUME Safe, TypeOK', NEW c \in Calls, End(c)
    PROVE  Coordinated' /\ Tables'
  <1> USE DEF Safe, Counted
  <1>1. UNCHANGED <<activeRequests, groupSlots, historyVars, admissionsMu>> /\ admissionsMu = NoCall
    BY DEF End, slotVars
  <1>2. call' = [call EXCEPT ![c] = Idle] /\ admissions' = EndAdmission(call[c].req) /\ call[c] # Idle
    BY DEF End, Idle
  <1>3. \A d \in Calls : call[d].pc \notin HoldsMutex /\ call'[d].pc \notin HoldsMutex
    BY <1>1, <1>2, BlankAssumption DEF Coordinated, HoldsMutex, TypeOK, Idle
  <1>4. ASSUME NEW d \in Calls, call'[d] # Idle, call'[d].req \in finished'
        PROVE  admissions'[call'[d].req].completed
    <2> DEFINE r == call[d].req
    <2>1. d # c /\ call'[d] = call[d] /\ r \in finished /\ r \in Requests
      BY <1>1, <1>2, <1>4 DEF TypeOK, historyVars
    <2>2. admissions[r].completed /\ call[d] # Idle
      BY <1>4, <2>1 DEF Coordinated
    <2>3. CASE call[c].req # r
      BY <1>2, <2>1, <2>2, <2>3 DEF EndAdmission, TypeOK
    <2>4. CASE call[c].req = r
      <3>1. c \in CallsOf(r) /\ d \in CallsOf(r)
        BY <1>2, <2>2, <2>4 DEF CallsOf
      <3>2. admissions[r].calls # 1
        BY <2>1, <3>1, FS_Singleton DEF MarkerCountsCalls
      <3>3. admissions' = [admissions EXCEPT ![r].calls = @ - 1]
        BY <1>2, <2>1, <2>4, <3>2, BlankAssumption DEF EndAdmission
      <3> QED
        BY <2>1, <2>2, <3>3 DEF TypeOK, Marker
    <2> QED
      BY <2>3, <2>4
  <1>5. Coordinated'
    <2>1. (\A d \in Calls : admissionsMu = d <=> call[d].pc \in HoldsMutex)'
      BY <1>1, <1>3, BlankAssumption
    <2>2. ASSUME NEW d \in Calls, call'[d].pc \in Points \ {"authorize"} PROVE ~call'[d].acquired
      BY <1>2, <2>2 DEF Coordinated, TypeOK, Idle, Points
    <2> QED
      BY <1>3, <1>4, <2>1, <2>2 DEF Coordinated, HoldsMutex
  <1>6. Tables'
    BY <1>1 DEF Tables, OneSlotPerRequest, NoSlotAfterCompletion, AdmittedKeepsSlot,
       SlotIsAccountedFor, Holds, historyVars
  <1> QED
    BY <1>5, <1>6

LEMMA SafeComplete ==
    ASSUME Safe, TypeOK', NEW r \in Requests, Complete(r)
    PROVE  Coordinated' /\ Tables'
  <1> USE DEF Safe, Counted
  <1>1. /\ UNCHANGED <<call, admitted, dropped, admissionsMu>> /\ admissionsMu = NoCall
        /\ finished' = finished \union {r}
    BY DEF Complete
  <1>2. \A d \in Calls : call[d].pc \notin HoldsMutex
    BY <1>1, BlankAssumption DEF Coordinated, HoldsMutex
  <1>3. ASSUME NEW q \in Requests
        PROVE  /\ q # r => activeRequests'[q] = activeRequests[q] /\ groupSlots'[q] = groupSlots[q]
               /\ q = r => activeRequests'[q] = NoScope /\ groupSlots'[q] = NoSlot
    BY ReleaseEffect DEF Complete, Tables, Ids
  <1>4. ASSUME NEW d \in Calls, call[d] # Idle, call[d].req \in finished'
        PROVE  admissions'[call[d].req].completed
    <2> DEFINE q == call[d].req
    <2>1. q \in Requests /\ d \in CallsOf(q)
      BY <1>1, <1>4 DEF TypeOK, CallsOf
    <2>2. admissions[q].calls # 0
      BY <2>1, FS_EmptySet DEF MarkerCountsCalls
    <2>3. CASE q = r
      BY <2>1, <2>2, <2>3 DEF Complete, TypeOK, Marker
    <2>4. CASE q # r
      BY <1>1, <1>4, <2>1, <2>4 DEF Complete, TypeOK, Coordinated
    <2> QED
      BY <2>3, <2>4
  <1>5. Coordinated'
    BY <1>1, <1>2, <1>4 DEF Coordinated, HoldsMutex
  <1>6. Tables'
    BY <1>1, <1>3 DEF Tables, OneSlotPerRequest, NoSlotAfterCompletion, AdmittedKeepsSlot,
       SlotIsAccountedFor, Holds, TypeOK
  <1> QED
    BY <1>5, <1>6

(* The other calls stay as they were while one of them moves. *)
LEMMA MoveCall ==
    ASSUME TypeOK, NEW c \in Calls, call[c] \in Deciding,
           (\E point \in Points : Goto(c, point)) \/ Respond(c)
    PROVE  /\ call'[c].req = call[c].req /\ call'[c] # Idle
           /\ \A d \in Calls \ {c} : call'[d] = call[d]
           /\ call'[c].pc \in Points =>
                call'[c] \in Deciding /\ call'[c].scope = call[c].scope
                /\ call'[c].generate = call[c].generate /\ call'[c].acquired = call[c].acquired
  BY DEF Goto, Respond, TypeOK, Deciding, Points, Idle

(* Check, Lock and AdmitLegacy move a call along and touch no slot. *)
LEMMA SafeMove ==
    ASSUME Safe, TypeOK', NEW c \in Calls, Check(c) \/ Lock(c) \/ AdmitLegacy(c)
    PROVE  Coordinated' /\ Tables'
  <1> USE DEF Safe, Counted
  <1>1. UNCHANGED <<activeRequests, groupSlots, historyVars, admissions>>
    BY DEF Check, Lock, AdmitLegacy, slotVars
  <1>2. call[c] \in Deciding /\ call[c].pc # "authorize" /\ ~call[c].acquired
    BY DecidingCall DEF Check, Lock, AdmitLegacy, Points, Coordinated
  <1>3. (\E point \in Points : Goto(c, point)) \/ Respond(c)
    BY DEF Check, Lock, AdmitLegacy, Answer, Points
  <1>4. /\ call'[c].req = call[c].req /\ call'[c] # Idle
        /\ \A d \in Calls \ {c} : call'[d] = call[d]
        /\ call'[c].pc \in Points => ~call'[c].acquired /\ call'[c].generate = call[c].generate
    BY <1>2, <1>3, MoveCall
  <1>5. call'[c].pc = "authorize" => ~call'[c].generate
    <2>1. CASE AdmitLegacy(c)
      BY <1>2, <2>1 DEF AdmitLegacy, Goto, TypeOK, Deciding
    <2>2. CASE Check(c) \/ Lock(c)
      BY <1>2, <2>2 DEF Check, Lock, Goto, Answer, Respond, TypeOK, Deciding
    <2> QED
      BY <2>1, <2>2
  <1>6. \A d \in Calls : admissionsMu' = d <=> call'[d].pc \in HoldsMutex
    <2>0. \A d \in Calls : admissionsMu = d <=> call[d].pc \in HoldsMutex
      BY DEF Coordinated
    <2>1. CASE Check(c)
      <3>1. UNCHANGED admissionsMu /\ call[c].pc = "begun" /\ call'[c].pc \in {"checked", "answered"}
        BY <1>2, <2>1 DEF Check, Goto, Respond, TypeOK, Deciding
      <3> QED
        BY <1>4, <2>0, <3>1 DEF HoldsMutex
    <2>2. CASE Lock(c)
      <3>1. \/ admissionsMu' = NoCall /\ call'[c].pc = "answered"
            \/ admissionsMu' = c /\ call'[c].pc = "locked"
        BY <1>2, <2>2 DEF Lock, Goto, Answer, Respond, TypeOK, Deciding
      <3>2. admissionsMu = NoCall
        BY <2>2 DEF Lock
      <3> QED
        BY <1>4, <2>0, <3>1, <3>2, BlankAssumption DEF HoldsMutex
    <2>3. CASE AdmitLegacy(c)
      <3>1. UNCHANGED admissionsMu /\ call[c].pc = "locked" /\ call'[c].pc \in {"acquire", "authorize"}
        BY <1>2, <2>3 DEF AdmitLegacy, Goto, TypeOK, Deciding
      <3> QED
        BY <1>4, <2>0, <3>1 DEF HoldsMutex
    <2> QED
      BY <2>1, <2>2, <2>3
  <1>7. ASSUME NEW d \in Calls, call'[d] # Idle, call'[d].req \in finished'
        PROVE  call'[d].pc \notin HoldsMutex /\ admissions'[call'[d].req].completed
    <2>1. CASE d # c
      BY <1>1, <1>4, <1>7, <2>1 DEF Coordinated, historyVars
    <2>2. CASE d = c
      <3>1. call[c].req \in finished /\ call[c] # Idle
        BY <1>1, <1>2, <1>4, <1>7, <2>2 DEF historyVars, Deciding, Idle
      <3>2. call[c].req \in Requests /\ call[c].pc \notin HoldsMutex /\ admissions[call[c].req].completed
        BY <3>1 DEF Coordinated, TypeOK
      <3>3. call[c].req # NoRequest /\ ~AdmitLegacy(c)
        BY <3>2, BlankAssumption DEF AdmitLegacy, HoldsMutex
      <3>4. CASE Check(c)
        BY <1>1, <1>2, <1>4, <2>2, <3>2, <3>4 DEF Check, HoldsMutex, Goto, Respond, TypeOK, Deciding
      <3>5. CASE Lock(c)
        BY <1>1, <1>2, <1>4, <2>2, <3>2, <3>3, <3>5 DEF Lock, HoldsMutex, Respond, Answer, TypeOK, Deciding
      <3> QED
        BY <3>3, <3>4, <3>5
    <2> QED
      BY <2>1, <2>2
  <1>8. Coordinated'
    <2>1. ASSUME NEW d \in Calls, call'[d].pc \in Points \ {"authorize"} PROVE ~call'[d].acquired
      BY <1>4, <2>1 DEF Coordinated
    <2>2. ASSUME NEW d \in Calls, call'[d].pc = "authorize", d # c
          PROVE  call'[d] = call[d]
      BY <1>4, <2>2
    <2>3. call'[c].pc = "authorize" => ~call'[c].acquired /\ ~Tracked(call'[c])
      BY <1>4, <1>5 DEF Points, Tracked
    <2>4. call'[c].pc = "acquire" => call'[c].generate
      BY <1>2, <1>4 DEF Check, Lock, AdmitLegacy, Goto, Answer, Respond, TypeOK, Deciding, Points
    <2> QED
      BY <1>1, <1>4, <1>6, <1>7, <2>1, <2>2, <2>3, <2>4 DEF Coordinated, Holds, historyVars
  <1>9. Tables'
    <2>1. ASSUME NEW r \in Requests, Holds(r), r \notin admitted
          PROVE  /\ admissionsMu' # NoCall /\ call'[admissionsMu'].req = r
                 /\ call'[admissionsMu'].acquired
      <3>1. /\ admissionsMu \in Calls /\ call[admissionsMu].req = r
            /\ call[admissionsMu].acquired /\ call[admissionsMu].pc \in HoldsMutex
        BY <2>1 DEF Tables, SlotIsAccountedFor, TypeOK, Coordinated
      <3>2. admissionsMu # c
        BY <1>2, <3>1
      <3>3. admissionsMu' = admissionsMu
        BY <1>4, <1>6, <3>1, <3>2
      <3> QED
        BY <1>4, <3>1, <3>2, <3>3, BlankAssumption
    <2> QED
      BY <1>1, <2>1 DEF Tables, OneSlotPerRequest, NoSlotAfterCompletion, AdmittedKeepsSlot,
         SlotIsAccountedFor, Holds, historyVars
  <1> QED
    BY <1>8, <1>9

(* What a call brings to Authorize (the last conjunct of Coordinated). *)
MayAuthorize(c) ==
    /\ Tracked(call[c]) => Holds(call[c].req) \/ call[c].req \in dropped
    /\ call[c].acquired =>
         /\ Tracked(call[c])
         /\ call[c].req \notin admitted \/ call[c].req \in dropped
         /\ groupSlots[call[c].req] = NoSlot

(* What a decision under admissionsMu must leave behind: either it is over, or *)
(* the call goes on to Authorize knowing what it acquired. *)
LEMMA DeciderMoves ==
    ASSUME Safe, NEW c \in Calls, call[c].pc \in HoldsMutex, UNCHANGED <<admissions, finished>>,
           \A d \in Calls \ {c} : call'[d] = call[d],
           call'[c].req = call[c].req,
           \/ call'[c].pc = "answered" /\ admissionsMu' = NoCall
           \/ /\ call'[c].pc = "authorize" /\ admissionsMu' = c
              /\ MayAuthorize(c)'
    PROVE  Coordinated'
  <1> USE DEF Safe, Counted
  <1>1. \A d \in Calls : call[d].pc \in HoldsMutex <=> d = c
    BY SoleDecider
  <1>2. call[c].req \notin finished
    BY SoleDecider
  <1>3. \A d \in Calls : admissionsMu' = d <=> call'[d].pc \in HoldsMutex
    BY <1>1, BlankAssumption DEF HoldsMutex
  <1>4. ASSUME NEW d \in Calls, call'[d] # Idle, call'[d].req \in finished'
        PROVE  call'[d].pc \notin HoldsMutex /\ admissions'[call'[d].req].completed
    BY <1>1, <1>2, <1>4 DEF Coordinated
  <1>5. ASSUME NEW d \in Calls, call'[d].pc \in Points \ {"authorize"} PROVE ~call'[d].acquired
    BY <1>5 DEF Coordinated, Points
  <1>6. ASSUME NEW d \in Calls, call'[d].pc = "authorize"
        PROVE  d = c /\ call'[c].pc = "authorize"
    BY <1>1, <1>6 DEF HoldsMutex
  <1> QED
    BY <1>3, <1>4, <1>5, <1>6, BlankAssumption DEF Coordinated, MayAuthorize, HoldsMutex

LEMMA SafeAdmitGroup ==
    ASSUME Safe, TypeOK', NEW c \in Calls, AdmitGroup(c)
    PROVE  Coordinated' /\ Tables'
  <1> USE DEF Safe, Counted
  <1>1. /\ call[c].pc = "locked" /\ call[c] \in Deciding /\ admissionsMu = c
        /\ call[c].req \notin finished /\ ~call[c].acquired
    BY SoleDecider DEF AdmitGroup, HoldsMutex, Coordinated, Points
  <1>2. /\ call'[c].pc = "answered" /\ call'[c].req = call[c].req /\ admissionsMu' = NoCall
        /\ \A d \in Calls \ {c} : call'[d] = call[d]
        /\ UNCHANGED <<admissions, finished, dropped>>
    BY <1>1 DEF AdmitGroup, Answer, Respond, TypeOK
  <1>3. Coordinated'
    BY <1>1, <1>2, DeciderMoves DEF HoldsMutex
  <1>4. \A r \in Requests : Holds(r) => r \in admitted
    BY <1>1 DEF Tables, SlotIsAccountedFor
  <1>5. CASE UNCHANGED <<activeRequests, groupSlots, admitted>>
    <2>1. \A r \in Requests : Holds(r)' = Holds(r)
      BY <1>5 DEF Holds
    <2>2. OneSlotPerRequest'
      BY <1>5 DEF Tables, OneSlotPerRequest
    <2>3. NoSlotAfterCompletion' /\ AdmittedKeepsSlot' /\ SlotIsAccountedFor'
      BY <1>2, <1>4, <1>5, <2>1 DEF Tables, NoSlotAfterCompletion, AdmittedKeepsSlot,
         SlotIsAccountedFor, TypeOK
    <2> QED
      BY <1>3, <2>2, <2>3 DEF Tables
  <1>6. CASE ~UNCHANGED <<activeRequests, groupSlots, admitted>>
    <2>1. PICK r \in Requests, p \in Pairs :
            /\ r = call[c].req /\ p = <<call[c].scope, call[c].group>>
            /\ groupSlots[r] \in {p, NoSlot}
            /\ TakeGroupSlot(r, p) /\ admitted' = admitted \union {r}
            /\ groupSlots[r] = NoSlot => activeRequests[r] = NoScope
      <3>1. GroupAdmits(call[c]) /\ call[c].generate
        BY <1>6 DEF AdmitGroup, slotVars
      <3>2. call[c].req \in Requests
        BY <1>1, <3>1 DEF GroupAdmits, Deciding, Ids
      <3>3. <<call[c].scope, call[c].group>> \in Pairs
        BY <1>6, <1>1 DEF AdmitGroup, TypeOK, Deciding, Pairs, slotVars
      <3>4. /\ TakeGroupSlot(call[c].req, <<call[c].scope, call[c].group>>)
            /\ admitted' = admitted \union {call[c].req}
        BY <1>6 DEF AdmitGroup, slotVars
      <3>5. /\ groupSlots[call[c].req] \in {<<call[c].scope, call[c].group>>, NoSlot}
            /\ groupSlots[call[c].req] = NoSlot => activeRequests[call[c].req] = NoScope
        BY <1>1, <3>1, <3>3, BlankAssumption DEF GroupAdmits, Pairs
      <3> QED
        BY <3>2, <3>3, <3>4, <3>5
    <2>2. /\ activeRequests' = activeRequests
          /\ groupSlots' = [groupSlots EXCEPT ![r] = p] /\ activeRequests[r] = NoScope
          /\ p # NoSlot
      BY <2>1, BlankAssumption DEF TakeGroupSlot, TypeOK, slotVars, Tables, OneSlotPerRequest, Pairs
    <2>3. \A q \in Requests : groupSlots'[q] = IF q = r THEN p ELSE groupSlots[q]
      BY <2>2 DEF TypeOK
    <2>4. \A q \in Requests : Holds(q)' <=> q = r \/ Holds(q)
      BY <2>2, <2>3 DEF Holds
    <2>5. OneSlotPerRequest'
      BY <2>2, <2>3 DEF Tables, OneSlotPerRequest
    <2>6. NoSlotAfterCompletion' /\ AdmittedKeepsSlot' /\ SlotIsAccountedFor'
      BY <1>1, <1>2, <1>4, <2>1, <2>4 DEF Tables, NoSlotAfterCompletion, AdmittedKeepsSlot,
         SlotIsAccountedFor, TypeOK
    <2> QED
      BY <1>3, <2>5, <2>6 DEF Tables
  <1> QED
    BY <1>3, <1>5, <1>6

LEMMA SafeAcquireSlot ==
    ASSUME Safe, TypeOK', NEW c \in Calls, AcquireSlot(c)
    PROVE  Coordinated' /\ Tables'
  <1> USE DEF Safe, Counted
  <1>1. /\ call[c].pc = "acquire" /\ call[c] \in Deciding /\ admissionsMu = c
        /\ call[c].req \notin finished /\ ~call[c].acquired
    BY SoleDecider DEF AcquireSlot, HoldsMutex, Coordinated, Points
  <1>2. UNCHANGED <<admissions, admitted, finished, dropped>>
    BY DEF AcquireSlot, historyVars
  <1>3. \A r \in Requests : Holds(r) => r \in admitted
    BY <1>1 DEF Tables, SlotIsAccountedFor
  <1>4. CASE UNCHANGED slotVars
    <2>1. /\ call'[c].req = call[c].req
          /\ \A d \in Calls \ {c} : call'[d] = call[d]
          /\ \/ call'[c].pc = "answered" /\ admissionsMu' = NoCall
             \/ /\ call'[c].pc = "authorize" /\ admissionsMu' = c /\ call'[c].acquired = FALSE
                /\ Tracked(call'[c]) => Holds(call'[c].req)
      <3>1. CASE call[c].scope = NoScope
        BY <1>1, <3>1 DEF AcquireSlot, Goto, TypeOK, Deciding, Tracked
      <3>2. CASE call[c].scope # NoScope /\ ~KeyAdmits(call[c])
        BY <1>1, <3>2 DEF AcquireSlot, Answer, Respond, TypeOK, Deciding
      <3>3. CASE call[c].scope # NoScope /\ KeyAdmits(call[c])
        <4>1. ~TakesKeySlot(call[c])
          BY <1>1, <1>4, <3>3 DEF AcquireSlot, TakesKeySlot, TakeKeySlot, KeyAdmits,
             TypeOK, Deciding, Ids, slotVars
        <4>2. call' = [call EXCEPT ![c].pc = "authorize", ![c].acquired = FALSE]
              /\ UNCHANGED admissionsMu
          BY <3>3, <4>1 DEF AcquireSlot, TakesKeySlot
        <4>3. /\ call'[c].pc = "authorize" /\ call'[c].acquired = FALSE
              /\ call'[c].req = call[c].req
              /\ \A d \in Calls \ {c} : call'[d] = call[d]
          BY <1>1, <4>2 DEF TypeOK, Deciding
        <4>4. Tracked(call'[c]) => activeRequests[call[c].req] # NoScope
          BY <4>1, <4>3 DEF Tracked, TakesKeySlot
        <4> QED
          BY <1>1, <4>2, <4>3, <4>4 DEF Holds
      <3> QED
        BY <3>1, <3>2, <3>3
    <2>2. Coordinated'
      BY <1>1, <1>2, <1>4, <2>1, DeciderMoves DEF HoldsMutex, MayAuthorize, Tracked, Holds, slotVars
    <2> QED
      BY <1>2, <1>3, <1>4, <2>2 DEF Tables, OneSlotPerRequest, NoSlotAfterCompletion,
         AdmittedKeepsSlot, SlotIsAccountedFor, Holds, slotVars
  <1>5. CASE ~UNCHANGED slotVars
    <2>1. PICK r \in Requests, s \in Scopes :
            /\ r = call[c].req /\ s = call[c].scope
            /\ activeRequests[r] = NoScope /\ groupSlots[r] = NoSlot
            /\ TakeKeySlot(r, s) /\ UNCHANGED admissionsMu
            /\ call' = [call EXCEPT ![c].pc = "authorize", ![c].acquired = TRUE]
      <3>1. /\ call[c].scope # NoScope /\ KeyAdmits(call[c]) /\ TakesKeySlot(call[c])
            /\ TakeKeySlot(call[c].req, call[c].scope) /\ UNCHANGED admissionsMu
            /\ call' = [call EXCEPT ![c].pc = "authorize", ![c].acquired = TakesKeySlot(call[c])]
        BY <1>5 DEF AcquireSlot
      <3>2. call[c].req \in Requests /\ call[c].scope \in Scopes
        BY <1>1, <3>1 DEF TakesKeySlot, Deciding, Ids
      <3>3. activeRequests[call[c].req] = NoScope /\ groupSlots[call[c].req] = NoSlot
        BY <3>1 DEF TakesKeySlot, KeyAdmits
      <3>4. TakesKeySlot(call[c]) = TRUE
        BY <3>1 DEF TakesKeySlot
      <3> QED
        BY <3>1, <3>2, <3>3, <3>4
    <2>2. /\ groupSlots' = groupSlots /\ s # NoScope
          /\ \A q \in Requests : activeRequests'[q] = IF q = r THEN s ELSE activeRequests[q]
      BY <2>1, BlankAssumption DEF TakeKeySlot, TypeOK
    <2>3. /\ call'[c].pc = "authorize" /\ call'[c].acquired /\ call'[c].req = r
          /\ call'[c].generate = call[c].generate /\ call'[c].scope = s
          /\ \A d \in Calls \ {c} : call'[d] = call[d]
      BY <1>1, <2>1 DEF TypeOK, Deciding
    <2>4. r \notin finished /\ (r \in admitted => r \in dropped)
      BY <1>1, <2>1 DEF Tables, AdmittedKeepsSlot, Holds
    <2>5. \A q \in Requests : Holds(q)' <=> q = r \/ Holds(q)
      BY <2>2 DEF Holds
    <2>6. MayAuthorize(c)'
      <3>1. Tracked(call'[c])
        BY <1>1, <2>2, <2>3, BlankAssumption DEF Coordinated, Tracked
      <3> QED
        BY <1>2, <2>1, <2>2, <2>3, <2>4, <2>5, <3>1 DEF MayAuthorize
    <2>7. Coordinated'
      BY <1>1, <1>2, <2>1, <2>3, <2>6, DeciderMoves DEF HoldsMutex
    <2>8. OneSlotPerRequest'
      BY <2>1, <2>2 DEF Tables, OneSlotPerRequest
    <2>9. NoSlotAfterCompletion' /\ AdmittedKeepsSlot' /\ SlotIsAccountedFor'
      BY <1>1, <1>2, <1>3, <2>1, <2>3, <2>4, <2>5, BlankAssumption
      DEF Tables, NoSlotAfterCompletion, AdmittedKeepsSlot, SlotIsAccountedFor, TypeOK
    <2> QED
      BY <2>7, <2>8, <2>9 DEF Tables
  <1> QED
    BY <1>4, <1>5

LEMMA SafeAuthorize ==
    ASSUME Safe, TypeOK', NEW c \in Calls, Authorize(c)
    PROVE  Coordinated' /\ Tables'
  <1> USE DEF Safe, Counted
  <1>1. /\ call[c].pc = "authorize" /\ call[c] \in Deciding /\ admissionsMu = c
        /\ call[c].req \notin finished /\ call[c].req \in Ids
    BY SoleDecider DEF Authorize, HoldsMutex, Deciding
  <1>2. /\ call'[c].pc = "answered" /\ call'[c].req = call[c].req /\ admissionsMu' = NoCall
        /\ \A d \in Calls \ {c} : call'[d] = call[d]
        /\ UNCHANGED <<admissions, finished, dropped>>
    BY <1>1 DEF Authorize, Answer, Respond, TypeOK
  <1>3. Coordinated'
    BY <1>1, <1>2, DeciderMoves DEF HoldsMutex
  <1>4. MayAuthorize(c)
    BY <1>1 DEF Coordinated, MayAuthorize
  <1>5. \A r \in Requests : Holds(r) => r \in admitted \/ (r = call[c].req /\ call[c].acquired)
    BY <1>1 DEF Tables, SlotIsAccountedFor
  <1>6. CASE /\ admitted' = IF Tracked(call[c]) THEN admitted \union {call[c].req} ELSE admitted
             /\ UNCHANGED slotVars
    <2>1. \A r \in Requests : Holds(r)' = Holds(r)
      BY <1>6 DEF Holds, slotVars
    <2>2. OneSlotPerRequest'
      BY <1>6 DEF Tables, OneSlotPerRequest, slotVars
    <2>3. call[c].acquired => Tracked(call[c])
      BY <1>1 DEF Coordinated
    <2>4. NoSlotAfterCompletion' /\ AdmittedKeepsSlot' /\ SlotIsAccountedFor'
      BY <1>1, <1>2, <1>4, <1>5, <1>6, <2>1, <2>3 DEF MayAuthorize, Tables, NoSlotAfterCompletion,
         AdmittedKeepsSlot, SlotIsAccountedFor, TypeOK
    <2> QED
      BY <1>3, <2>2, <2>4 DEF Tables
  <1>7. CASE call[c].acquired /\ ReleaseSlot(call[c].req) /\ UNCHANGED admitted
    <2>1. PICK r \in Requests : r = call[c].req
      BY <1>1, <1>4, <1>7 DEF MayAuthorize, Tracked, Ids
    <2>2. ASSUME NEW q \in Requests
          PROVE  /\ q # r => activeRequests'[q] = activeRequests[q] /\ groupSlots'[q] = groupSlots[q]
                 /\ q = r => activeRequests'[q] = NoScope /\ groupSlots'[q] = NoSlot
      BY <1>1, <1>7, <2>1, ReleaseEffect DEF Tables
    <2>3. \A q \in Requests : Holds(q)' <=> q # r /\ Holds(q)
      BY <2>2 DEF Holds
    <2>4. OneSlotPerRequest'
      BY <2>2 DEF Tables, OneSlotPerRequest
    <2>5. NoSlotAfterCompletion' /\ AdmittedKeepsSlot' /\ SlotIsAccountedFor'
      BY <1>1, <1>2, <1>4, <1>5, <1>7, <2>1, <2>3 DEF MayAuthorize, Tables, NoSlotAfterCompletion,
         AdmittedKeepsSlot, SlotIsAccountedFor, TypeOK
    <2> QED
      BY <1>3, <2>4, <2>5 DEF Tables
  <1>8. CASE ~call[c].acquired /\ UNCHANGED <<slotVars, admitted>>
    <2>1. \A r \in Requests : Holds(r)' = Holds(r)
      BY <1>8 DEF Holds, slotVars
    <2>2. OneSlotPerRequest'
      BY <1>8 DEF Tables, OneSlotPerRequest, slotVars
    <2>3. NoSlotAfterCompletion' /\ AdmittedKeepsSlot' /\ SlotIsAccountedFor'
      BY <1>2, <1>5, <1>8, <2>1 DEF Tables, NoSlotAfterCompletion,
         AdmittedKeepsSlot, SlotIsAccountedFor, TypeOK
    <2> QED
      BY <1>3, <2>2, <2>3 DEF Tables
  <1> QED
    BY <1>6, <1>7, <1>8 DEF Authorize

LEMMA SafeAdminister ==
    ASSUME Safe, TypeOK', Administer
    PROVE  Coordinated' /\ Tables'
  <1> USE DEF Safe, Counted
  <1>1. UNCHANGED <<admissions, admissionsMu, call, admitted, finished>>
    BY DEF Administer, SetConcurrencyLimit, SaveGroupPlan, SwitchMode, Close, historyVars
  <1>2. CASE Close
    <2>1. \A r \in Requests : activeRequests'[r] = NoScope /\ groupSlots'[r] = NoSlot
      BY <1>2 DEF Close
    <2>2. \A r \in Requests : ~Holds(r)' /\ (r \in dropped' <=> r \in dropped \/ Holds(r))
      BY <1>2, <2>1 DEF Close, Holds
    <2>3. ASSUME NEW c \in Calls, call[c].pc = "authorize", MayAuthorize(c) PROVE MayAuthorize(c)'
      <3>1. call[c] \in Deciding
        BY <2>3, DecidingCall DEF Points
      <3>2. Tracked(call[c]) => call[c].req \in Requests
        BY <3>1 DEF Tracked, Deciding, Ids
      <3> QED
        BY <1>1, <2>1, <2>2, <2>3, <3>2 DEF MayAuthorize, Tracked
    <2>4. Coordinated'
      BY <1>1, <2>3 DEF Coordinated, MayAuthorize
    <2>5. Tables'
      BY <1>1, <2>1, <2>2 DEF Tables, OneSlotPerRequest, NoSlotAfterCompletion,
         AdmittedKeepsSlot, SlotIsAccountedFor, TypeOK
    <2> QED
      BY <2>4, <2>5
  <1>3. CASE ~Close
    <2>1. UNCHANGED <<activeRequests, groupSlots, dropped>>
      BY <1>3 DEF Administer, SetConcurrencyLimit, SaveGroupPlan, SwitchMode, historyVars, slotVars
    <2>2. Coordinated'
      BY <1>1, <2>1 DEF Coordinated, Holds
    <2>3. Tables'
      BY <1>1, <2>1 DEF Tables, OneSlotPerRequest, NoSlotAfterCompletion,
         AdmittedKeepsSlot, SlotIsAccountedFor, Holds
    <2> QED
      BY <2>2, <2>3
  <1> QED
    BY <1>2, <1>3

LEMMA SafeInit == Init => Safe
  <1> SUFFICES ASSUME Init PROVE Safe
    OBVIOUS
  <1>1. \A r \in Requests : CallsOf(r) = {}
    BY DEF Init, CallsOf
  <1>2. Counted
    BY <1>1, TypeInit, FS_EmptySet DEF Counted, MarkerCountsCalls, Init, NoMarker
  <1>3. Coordinated
    BY BlankAssumption DEF Init, Coordinated, Idle, HoldsMutex, Points
  <1> QED
    BY <1>2, <1>3 DEF Safe, Tables, Init, OneSlotPerRequest, NoSlotAfterCompletion,
       AdmittedKeepsSlot, SlotIsAccountedFor, Holds

LEMMA SafeNext == Safe /\ [Next]_vars => Safe'
  <1> SUFFICES ASSUME Safe, [Next]_vars PROVE Safe'
    OBVIOUS
  <1>1. Counted'
    BY CountedNext DEF Safe
  <1>2. TypeOK'
    BY <1>1 DEF Counted
  <1>3. Coordinated' /\ Tables'
    <2>1. ASSUME NEW c \in Calls, Step(c) PROVE Coordinated' /\ Tables'
      BY <1>2, <2>1, SafeMove, SafeAdmitGroup, SafeAcquireSlot, SafeAuthorize, SafeEnd DEF Step
    <2>2. ASSUME NEW c \in Calls, NEW k \in Arrivals, Begin(c, k) PROVE Coordinated' /\ Tables'
      BY <1>2, <2>2, SafeBegin
    <2>3. ASSUME NEW r \in Requests, Complete(r) PROVE Coordinated' /\ Tables'
      BY <1>2, <2>3, SafeComplete
    <2>4. CASE Administer
      BY <1>2, <2>4, SafeAdminister
    <2>5. CASE UNCHANGED vars
      BY <2>5 DEF vars, slotVars, historyVars, Safe, Coordinated, Tables, OneSlotPerRequest,
         NoSlotAfterCompletion, AdmittedKeepsSlot, SlotIsAccountedFor, Holds
    <2> QED
      BY <2>1, <2>2, <2>3, <2>4, <2>5 DEF Next
  <1> QED
    BY <1>1, <1>3 DEF Safe

LEMMA SafeAlways == Spec => []Safe
  BY SafeInit, SafeNext, PTL DEF Spec

-----------------------------------------------------------------------------
(* The counters and the slots they count *)

Exact ==
    /\ CountersExact
    /\ \A s \in Scopes : IsFiniteSet(KeyHolders(s))
    /\ \A p \in Pairs : IsFiniteSet(GroupHolders(p))

(* Decrementing with deletion at zero is exact while the counter is. *)
LEMMA LessIsExact ==
    ASSUME NEW S, IsFiniteSet(S), NEW r \in S
    PROVE  Less(Cardinality(S)) = Cardinality(S \ {r}) /\ IsFiniteSet(S \ {r})
  <1>1. Cardinality(S) \in Nat /\ Cardinality(S \ {r}) = Cardinality(S) - 1 /\ IsFiniteSet(S \ {r})
    BY FS_RemoveElement, FS_CardinalityType
  <1>2. Cardinality(S \ {r}) \in Nat
    BY <1>1, FS_CardinalityType
  <1> QED
    BY <1>1, <1>2 DEF Less

LEMMA SameSlotsExact == ASSUME Exact, UNCHANGED slotVars PROVE Exact'
  <1>1. \A s \in Scopes : KeyHolders(s)' = KeyHolders(s)
    BY DEF KeyHolders, slotVars
  <1>2. \A p \in Pairs : GroupHolders(p)' = GroupHolders(p)
    BY DEF GroupHolders, slotVars
  <1> QED
    BY <1>1, <1>2 DEF Exact, CountersExact, slotVars

LEMMA TakeKeySlotExact ==
    ASSUME TypeOK, Exact, NEW r \in Requests, NEW s \in Scopes,
           activeRequests[r] = NoScope, TakeKeySlot(r, s)
    PROVE  Exact'
  <1>1. \A p \in Pairs : GroupHolders(p)' = GroupHolders(p)
    BY DEF GroupHolders, TakeKeySlot
  <1>2. r \notin KeyHolders(s) /\ KeyHolders(s)' = KeyHolders(s) \union {r}
    BY BlankAssumption DEF KeyHolders, TakeKeySlot, TypeOK
  <1>3. \A t \in Scopes \ {s} : KeyHolders(t)' = KeyHolders(t)
    BY BlankAssumption DEF KeyHolders, TakeKeySlot, TypeOK
  <1>4. IsFiniteSet(KeyHolders(s)') /\ Cardinality(KeyHolders(s)') = activeByScope[s] + 1
    BY <1>2, FS_AddElement DEF Exact, CountersExact
  <1>5. \A t \in Scopes : activeByScope'[t] = IF t = s THEN activeByScope[s] + 1 ELSE activeByScope[t]
    BY DEF TakeKeySlot, TypeOK
  <1> QED
    BY <1>1, <1>3, <1>4, <1>5 DEF Exact, CountersExact, TakeKeySlot

LEMMA TakeGroupSlotExact ==
    ASSUME TypeOK, Exact, NEW r \in Requests, NEW p \in Pairs,
           groupSlots[r] \in {p, NoSlot}, TakeGroupSlot(r, p)
    PROVE  Exact'
  <1>1. CASE groupSlots[r] = p
    BY <1>1, SameSlotsExact DEF TakeGroupSlot
  <1>2. CASE groupSlots[r] # p
    <2>1. \A s \in Scopes : KeyHolders(s)' = KeyHolders(s)
      BY <1>2 DEF KeyHolders, TakeGroupSlot
    <2>2. r \notin GroupHolders(p) /\ GroupHolders(p)' = GroupHolders(p) \union {r}
      BY <1>2 DEF GroupHolders, TakeGroupSlot, TypeOK
    <2>3. \A q \in Pairs \ {p} : GroupHolders(q)' = GroupHolders(q)
      BY <1>2, BlankAssumption DEF GroupHolders, TakeGroupSlot, TypeOK, Pairs
    <2>4. IsFiniteSet(GroupHolders(p)') /\ Cardinality(GroupHolders(p)') = groupActive[p] + 1
      BY <2>2, FS_AddElement DEF Exact, CountersExact
    <2>5. \A q \in Pairs : groupActive'[q] = IF q = p THEN groupActive[p] + 1 ELSE groupActive[q]
      BY <1>2 DEF TakeGroupSlot, TypeOK
    <2> QED
      BY <1>2, <2>1, <2>3, <2>4, <2>5 DEF Exact, CountersExact, TakeGroupSlot
  <1> QED
    BY <1>1, <1>2

LEMMA ReleaseExact ==
    ASSUME TypeOK, Exact, NEW r \in Ids, ReleaseSlot(r)
    PROVE  Exact'
  <1>1. CASE UNCHANGED slotVars
    BY <1>1, SameSlotsExact
  <1>2. ASSUME NEW s \in Scopes, r \in Requests, s = activeRequests[r],
               activeRequests' = [activeRequests EXCEPT ![r] = NoScope],
               activeByScope' = [activeByScope EXCEPT ![s] = Less(@)],
               UNCHANGED <<groupSlots, groupActive>>
        PROVE  Exact'
    <2>1. \A p \in Pairs : GroupHolders(p)' = GroupHolders(p)
      BY <1>2 DEF GroupHolders
    <2>2. r \in KeyHolders(s) /\ KeyHolders(s)' = KeyHolders(s) \ {r}
      BY <1>2, BlankAssumption DEF KeyHolders, TypeOK
    <2>3. \A t \in Scopes \ {s} : KeyHolders(t)' = KeyHolders(t)
      BY <1>2, BlankAssumption DEF KeyHolders, TypeOK
    <2>4. IsFiniteSet(KeyHolders(s)') /\ Cardinality(KeyHolders(s)') = Less(activeByScope[s])
      BY <2>2, LessIsExact DEF Exact, CountersExact
    <2>5. \A t \in Scopes : activeByScope'[t] = IF t = s THEN Less(activeByScope[s]) ELSE activeByScope[t]
      BY <1>2 DEF TypeOK
    <2> QED
      BY <1>2, <2>1, <2>3, <2>4, <2>5 DEF Exact, CountersExact
  <1>3. ASSUME NEW p \in Pairs, r \in Requests, p = groupSlots[r],
               groupSlots' = [groupSlots EXCEPT ![r] = NoSlot],
               groupActive' = [groupActive EXCEPT ![p] = Less(@)],
               UNCHANGED <<activeRequests, activeByScope>>
        PROVE  Exact'
    <2>1. \A s \in Scopes : KeyHolders(s)' = KeyHolders(s)
      BY <1>3 DEF KeyHolders
    <2>2. r \in GroupHolders(p) /\ GroupHolders(p)' = GroupHolders(p) \ {r}
      BY <1>3, BlankAssumption DEF GroupHolders, TypeOK, Pairs
    <2>3. \A q \in Pairs \ {p} : GroupHolders(q)' = GroupHolders(q)
      BY <1>3, BlankAssumption DEF GroupHolders, TypeOK, Pairs
    <2>4. IsFiniteSet(GroupHolders(p)') /\ Cardinality(GroupHolders(p)') = Less(groupActive[p])
      BY <2>2, LessIsExact DEF Exact, CountersExact
    <2>5. \A q \in Pairs : groupActive'[q] = IF q = p THEN Less(groupActive[p]) ELSE groupActive[q]
      BY <1>3 DEF TypeOK
    <2> QED
      BY <1>3, <2>1, <2>3, <2>4, <2>5 DEF Exact, CountersExact
  <1> QED
    <2>1. CASE r \in Requests /\ activeRequests[r] # NoScope
      BY <1>1, <1>2, <2>1 DEF ReleaseSlot, TypeOK, Holds
    <2>2. CASE r \in Requests /\ activeRequests[r] = NoScope /\ groupSlots[r] # NoSlot
      BY <1>1, <1>3, <2>2 DEF ReleaseSlot, TypeOK, Holds
    <2>3. CASE ~(r \in Requests /\ Holds(r))
      BY <1>1, <2>3 DEF ReleaseSlot, Holds
    <2> QED
      BY <2>1, <2>2, <2>3 DEF Holds

(* The slot each deciding step takes, if it takes one. *)
LEMMA AcquireSlotTakes ==
    ASSUME Safe, NEW c \in Calls, AcquireSlot(c), ~UNCHANGED slotVars
    PROVE  \E r \in Requests, s \in Scopes :
              /\ r = call[c].req /\ s = call[c].scope
              /\ activeRequests[r] = NoScope /\ KeyHasRoom(call[c]) /\ TakeKeySlot(r, s)
  <1>1. call[c] \in Deciding
    BY DecidingCall DEF AcquireSlot, Points, Safe, Counted
  <1>2. /\ call[c].scope # NoScope /\ KeyAdmits(call[c]) /\ TakesKeySlot(call[c])
        /\ TakeKeySlot(call[c].req, call[c].scope)
    BY DEF AcquireSlot
  <1>3. call[c].req \in Requests /\ call[c].scope \in Scopes
    BY <1>1, <1>2 DEF TakesKeySlot, Deciding, Ids
  <1>4. activeRequests[call[c].req] = NoScope /\ KeyHasRoom(call[c])
    BY <1>1, <1>2, <1>3, BlankAssumption DEF TakesKeySlot, KeyAdmits
  <1> QED
    BY <1>2, <1>3, <1>4

LEMMA AdmitGroupTakes ==
    ASSUME Safe, NEW c \in Calls, AdmitGroup(c), ~UNCHANGED slotVars
    PROVE  \E r \in Requests, p \in Pairs :
              /\ r = call[c].req /\ p = <<call[c].scope, call[c].group>>
              /\ groupSlots[r] = NoSlot /\ GroupHasRoom(p) /\ TakeGroupSlot(r, p)
  <1>1. call[c] \in Deciding
    BY DecidingCall DEF AdmitGroup, Points, Safe, Counted
  <1>2. GroupAdmits(call[c]) /\ TakeGroupSlot(call[c].req, <<call[c].scope, call[c].group>>)
    BY DEF AdmitGroup
  <1>3. call[c].req \in Requests
    BY <1>1, <1>2 DEF GroupAdmits, Deciding, Ids
  <1>4. <<call[c].scope, call[c].group>> \in Pairs
    BY <1>1 DEF AdmitGroup, Safe, Counted, TypeOK, Deciding, Pairs
  <1>5. groupSlots[call[c].req] # <<call[c].scope, call[c].group>>
    BY <1>2 DEF TakeGroupSlot
  <1> QED
    BY <1>2, <1>3, <1>4, <1>5 DEF GroupAdmits

LEMMA CloseEmpties ==
    ASSUME Close
    PROVE  /\ \A s \in Scopes : KeyHolders(s)' = {} /\ activeByScope'[s] = 0
           /\ \A p \in Pairs : GroupHolders(p)' = {} /\ groupActive'[p] = 0
  BY BlankAssumption DEF Close, KeyHolders, GroupHolders, Pairs

LEMMA QuietSteps ==
    ASSUME [Next]_vars,
           ~\E c \in Calls : AdmitGroup(c) \/ AcquireSlot(c) \/ Authorize(c),
           ~\E r \in Requests : Complete(r),
           ~Close
    PROVE  UNCHANGED slotVars
  <1>1. ASSUME NEW c \in Calls, Check(c) \/ Lock(c) \/ AdmitLegacy(c) \/ End(c) PROVE UNCHANGED slotVars
    BY <1>1 DEF Check, Lock, AdmitLegacy, End
  <1>2. ASSUME NEW c \in Calls, NEW k \in Arrivals, Begin(c, k) PROVE UNCHANGED slotVars
    BY <1>2 DEF Begin
  <1>3. CASE Administer
    BY <1>3 DEF Administer, SetConcurrencyLimit, SaveGroupPlan, SwitchMode
  <1> QED
    BY <1>1, <1>2, <1>3 DEF Next, Step, vars

(* Every step leaves the slots alone, takes one that has room, gives one back *)
(* or throws all of them away. *)
LEMMA SlotSteps ==
    ASSUME Safe, [Next]_vars
    PROVE  \/ UNCHANGED slotVars
           \/ \E c \in Calls, r \in Requests, s \in Scopes :
                /\ r = call[c].req /\ s = call[c].scope /\ activeRequests[r] = NoScope
                /\ KeyHasRoom(call[c]) /\ TakeKeySlot(r, s)
           \/ \E r \in Requests, p \in Pairs :
                groupSlots[r] = NoSlot /\ GroupHasRoom(p) /\ TakeGroupSlot(r, p)
           \/ \E r \in Ids : ReleaseSlot(r)
           \/ Close
  <1>1. ASSUME NEW c \in Calls, Authorize(c), ~UNCHANGED slotVars
        PROVE  \E r \in Ids : ReleaseSlot(r)
    <2>1. call[c] \in Deciding
      BY <1>1, DecidingCall DEF Authorize, Points, Safe, Counted
    <2> QED
      BY <1>1, <2>1 DEF Authorize, Deciding
  <1>2. ASSUME NEW r \in Requests, Complete(r) PROVE r \in Ids /\ ReleaseSlot(r)
    BY <1>2 DEF Complete, Ids
  <1>3. ASSUME NEW c \in Calls, AcquireSlot(c), ~UNCHANGED slotVars
        PROVE  \E r \in Requests, s \in Scopes :
                /\ r = call[c].req /\ s = call[c].scope /\ activeRequests[r] = NoScope
                /\ KeyHasRoom(call[c]) /\ TakeKeySlot(r, s)
    BY <1>3, AcquireSlotTakes
  <1>4. ASSUME NEW c \in Calls, AdmitGroup(c), ~UNCHANGED slotVars
        PROVE  \E r \in Requests, p \in Pairs :
                groupSlots[r] = NoSlot /\ GroupHasRoom(p) /\ TakeGroupSlot(r, p)
    BY <1>4, AdmitGroupTakes
  <1> QED
    BY <1>1, <1>2, <1>3, <1>4, QuietSteps

LEMMA ExactNext == Safe /\ Exact /\ [Next]_vars => Exact'
  <1> SUFFICES ASSUME Safe, Exact, [Next]_vars PROVE Exact'
    OBVIOUS
  <1>1. TypeOK
    BY DEF Safe, Counted
  <1>2. Close => Exact'
    BY CloseEmpties, FS_EmptySet DEF Exact, CountersExact
  <1> QED
    BY <1>1, <1>2, SlotSteps, SameSlotsExact, TakeKeySlotExact, TakeGroupSlotExact, ReleaseExact

LEMMA ExactInit == Init => Exact
  <1> SUFFICES ASSUME Init PROVE Exact
    OBVIOUS
  <1>1. /\ \A s \in Scopes : KeyHolders(s) = {} /\ activeByScope[s] = 0
        /\ \A p \in Pairs : GroupHolders(p) = {} /\ groupActive[p] = 0
    BY BlankAssumption DEF Init, KeyHolders, GroupHolders, Pairs
  <1> QED
    BY <1>1, FS_EmptySet DEF Exact, CountersExact

-----------------------------------------------------------------------------
(* Theorems *)

(* A request is charged to one concurrency table only (AcquireSlot checks *)
(* groupSlots, AdmitGroup checks activeRequests). *)
THEOREM OneTable == Spec => []OneSlotPerRequest
  <1>1. Safe => OneSlotPerRequest
    BY DEF Safe, Tables
  <1> QED
    BY <1>1, SafeAlways, PTL

(* No slot outlives the completion of its request, however the completion and *)
(* the admission calls interleave (requestAdmission). *)
THEOREM NothingAfterCompletion == Spec => []NoSlotAfterCompletion
  <1>1. Safe => NoSlotAfterCompletion
    BY DEF Safe, Tables
  <1> QED
    BY <1>1, SafeAlways, PTL

(* An admitted request keeps its slot (AcquireSlot's Acquired = false, the *)
(* deferred rollback of interceptBeforeAuth). *)
THEOREM AdmissionHolds == Spec => []AdmittedKeepsSlot
  <1>1. Safe => AdmittedKeepsSlot
    BY DEF Safe, Tables
  <1> QED
    BY <1>1, SafeAlways, PTL

(* A refused request occupies no slot once admissionsMu is free. *)
THEOREM RefusalHoldsNothing == Spec => []SlotIsAccountedFor
  <1>1. Safe => SlotIsAccountedFor
    BY DEF Safe, Tables
  <1> QED
    BY <1>1, SafeAlways, PTL

(* The markers count the calls in flight (beginAdmission, endAdmission). *)
THEOREM MarkersCount == Spec => []MarkerCountsCalls
  <1>1. Safe => MarkerCountsCalls
    BY DEF Safe, Counted
  <1> QED
    BY <1>1, SafeAlways, PTL

(* activeByScope and groupActive equal the number of slots really held. *)
THEOREM CountersNeverDrift == Spec => []CountersExact
  <1>1. Init => Safe /\ Exact
    BY SafeInit, ExactInit
  <1>2. (Safe /\ Exact) /\ [Next]_vars => (Safe /\ Exact)'
    BY SafeNext, ExactNext
  <1>3. Exact => CountersExact
    BY DEF Exact
  <1> QED
    BY <1>1, <1>2, <1>3, PTL DEF Spec

(* Counters, slots and the requests they are held for always agree           *)
(* (AcquireSlot, AdmitGroup, ReleaseSlot).                                   *)
THEOREM SlotsAlwaysBalance == Spec => []SlotsBalance
  <1>1. CountersExact /\ OneSlotPerRequest /\ SlotIsAccountedFor => SlotsBalance
    BY DEF SlotsBalance
  <1> QED
    BY <1>1, CountersNeverDrift, OneTable, RefusalHoldsNothing, PTL

(* Because the counters are exact, a limit compared with a counter is a limit *)
(* on the slots themselves. *)
LEMMA TakesWithinLimit ==
    ASSUME Safe, Exact, [Next]_vars
    PROVE  WithinLimit
  <1> USE DEF Safe, Counted
  <1>1. /\ \A s \in Scopes : activeByScope[s] = Cardinality(KeyHolders(s))
        /\ \A s \in Scopes : activeByScope'[s] = Cardinality(KeyHolders(s)')
        /\ \A p \in Pairs : groupActive[p] = Cardinality(GroupHolders(p))
        /\ \A p \in Pairs : groupActive'[p] = Cardinality(GroupHolders(p)')
    BY ExactNext DEF Exact, CountersExact
  <1>2. /\ \A s \in Scopes : activeByScope[s] \in Nat /\ keyLimit[s] \in Nat
        /\ \A p \in Pairs : /\ groupActive[p] \in Nat
                            /\ groupLimit[p] # Unlimited => groupLimit[p] \in Nat
    <2>1. \A s \in Scopes : activeByScope[s] \in Nat /\ keyLimit[s] \in Limits \union {0}
      BY DEF TypeOK
    <2>2. \A p \in Pairs : groupActive[p] \in Nat /\ groupLimit[p] \in Limits \union {Unlimited}
      BY DEF TypeOK
    <2>3. ASSUME NEW n \in Limits PROVE n \in Nat
      BY LimitsAssumption
    <2> QED
      BY <2>1, <2>2, <2>3
  <1>3. SUFFICES
        /\ \A s \in Scopes :
             \/ activeByScope'[s] \in Nat /\ activeByScope'[s] <= activeByScope[s]
             \/ activeByScope'[s] <= keyLimit[s]
             \/ keyLimit[s] = 0
        /\ \A p \in Pairs :
             \/ groupActive'[p] \in Nat /\ groupActive'[p] <= groupActive[p]
             \/ groupLimit[p] = Unlimited
             \/ groupActive'[p] <= groupLimit[p]
    BY <1>1, <1>2 DEF WithinLimit
  <1>4. CASE UNCHANGED slotVars
    BY <1>2, <1>4 DEF slotVars
  <1>5. ASSUME NEW c \in Calls, NEW r \in Requests, NEW s \in Scopes, s = call[c].scope,
               KeyHasRoom(call[c]), TakeKeySlot(r, s)
        PROVE  /\ \A t \in Scopes :
                    \/ activeByScope'[t] = activeByScope[t]
                    \/ activeByScope'[t] <= keyLimit[t]
                    \/ keyLimit[t] = 0
               /\ UNCHANGED groupActive
    BY <1>2, <1>5 DEF TakeKeySlot, KeyHasRoom, TypeOK
  <1>6. ASSUME NEW r \in Requests, NEW p \in Pairs, GroupHasRoom(p), TakeGroupSlot(r, p)
        PROVE  /\ \A q \in Pairs :
                    \/ groupActive'[q] = groupActive[q]
                    \/ groupLimit[q] = Unlimited
                    \/ groupActive'[q] <= groupLimit[q]
               /\ UNCHANGED activeByScope
    BY <1>2, <1>6 DEF TakeGroupSlot, GroupHasRoom, TypeOK, slotVars
  <1>7. ASSUME NEW r \in Ids, ReleaseSlot(r)
        PROVE  /\ \A s \in Scopes : activeByScope'[s] \in Nat /\ activeByScope'[s] <= activeByScope[s]
               /\ \A p \in Pairs : groupActive'[p] \in Nat /\ groupActive'[p] <= groupActive[p]
    BY <1>2, <1>7 DEF ReleaseSlot, Less, TypeOK, slotVars, Pairs
  <1>8. CASE Close
    BY <1>2, <1>8, CloseEmpties
  <1> QED
    BY <1>2, <1>4, <1>5, <1>6, <1>7, <1>8, SlotSteps

(* A concurrency limit is never exceeded by the step that takes a slot, at the *)
(* limit in force then (AcquireSlot, AdmitGroup). *)
THEOREM LimitsHold == Spec => AcquiresWithinLimit
  <1>1. Init => Safe /\ Exact
    BY SafeInit, ExactInit
  <1>2. (Safe /\ Exact) /\ [Next]_vars => (Safe /\ Exact)'
    BY SafeNext, ExactNext
  <1>3. (Safe /\ Exact) /\ [Next]_vars => [WithinLimit]_vars
    BY TakesWithinLimit
  <1> QED
    BY <1>1, <1>2, <1>3, PTL DEF Spec, AcquiresWithinLimit

=============================================================================
