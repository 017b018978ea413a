------------------------------ MODULE Admission ------------------------------
(***************************************************************************)
(* Admission of proxied requests and the concurrency slots they hold.      *)
(*                                                                         *)
(* The host invokes request.intercept_before and request.complete          *)
(* concurrently.  A call of the first is a thread that walks through       *)
(* interceptBeforeAuth; every critical section of App.admissionsMu and of  *)
(* Store.mu is one step, so completions, limit changes, the midnight       *)
(* switch of a key's billing mode and Close interleave between them.       *)
(*                                                                         *)
(* Whether routing, pricing, the group ledger or the key's quota refuse a  *)
(* request is a nondeterministic choice here.  Nested helper calls take no *)
(* marker and no slot and are not modelled.                                *)
(***************************************************************************)
EXTENDS Naturals, FiniteSets

CONSTANTS
    Calls,      \* threads the host may have inside request.intercept_before
    Requests,   \* lifecycle request ids
    Scopes,     \* hashed API keys
    Groups,     \* published resource groups
    Limits,     \* finite concurrency limits an administrator may set
    NoRequest,  \* the blank request id
    NoScope,    \* the blank scope: a caller the host could not attribute
    NoSlot,     \* absence of an entry of groupSlots
    NoCall,     \* App.admissionsMu is free
    Unlimited   \* a null concurrency limit of a group policy

ASSUME LimitsAssumption == Limits \subseteq Nat \ {0}

ASSUME BlankAssumption ==
    /\ NoRequest \notin Requests
    /\ NoScope \notin Scopes
    /\ NoCall \notin Calls
    /\ NoSlot \notin Scopes \X Groups
    /\ Unlimited \notin Nat

VARIABLES
    keyLimit,        \* KeyState.ConcurrencyLimit; 0 tracks without a limit
    groupLimit,      \* ConcurrencyLimit of the policy a key has for a group
    grouped,         \* keys whose binding at the present instant is grouped
    admissions,      \* App.admissions: marker of the calls in flight
    admissionsMu,    \* the call that holds App.admissionsMu, or NoCall
    activeRequests,  \* Store.activeRequests: scope holding a key slot
    activeByScope,   \* Store.activeByScope: number of key slots of a scope
    groupSlots,      \* Store.groupSlots: <<scope, group>> of a group slot
    groupActive,     \* Store.groupActive: number of slots of a pair
    call,            \* program counter and arguments of each thread
    admitted,        \* history: requests admitted that must hold a slot
    finished,        \* history: requests whose completion was delivered
    dropped          \* history: requests whose slot Close threw away

slotVars == <<activeRequests, activeByScope, groupSlots, groupActive>>
configVars == <<keyLimit, groupLimit, grouped>>
historyVars == <<admitted, finished, dropped>>
vars == <<configVars, admissions, admissionsMu, slotVars, call, historyVars>>

-----------------------------------------------------------------------------
(* State *)

Pairs == Scopes \X Groups
Ids == Requests \union {NoRequest}
Marker == [calls : Nat, completed : BOOLEAN]
NoMarker == [calls |-> 0, completed |-> FALSE]

(* The critical section that a call inside the plugin enters next. *)
Points == {"begun", "checked", "locked", "acquire", "authorize"}
HoldsMutex == {"locked", "acquire", "authorize"}

Idle == [pc |-> "idle"]
Answered == [pc : {"answered"}, req : Ids]
Deciding == [pc : Points, req : Ids, scope : Scopes \union {NoScope},
             group : Groups, generate : BOOLEAN, acquired : BOOLEAN]

Arrivals == [pc : {"begun"}, req : Ids, scope : Scopes \union {NoScope},
             group : Groups, generate : BOOLEAN, acquired : {FALSE}]

CallsOf(r) == {c \in Calls : call[c] # Idle /\ call[c].req = r}
KeyHolders(s) == {r \in Requests : activeRequests[r] = s}
GroupHolders(p) == {r \in Requests : groupSlots[r] = p}
Holds(r) == activeRequests[r] # NoScope \/ groupSlots[r] # NoSlot

Init ==
    /\ keyLimit \in [Scopes -> Limits \union {0}]
    /\ groupLimit \in [Pairs -> Limits \union {Unlimited}]
    /\ grouped \in SUBSET Scopes
    /\ admissions = [r \in Requests |-> NoMarker]
    /\ admissionsMu = NoCall
    /\ activeRequests = [r \in Requests |-> NoScope]
    /\ activeByScope = [s \in Scopes |-> 0]
    /\ groupSlots = [r \in Requests |-> NoSlot]
    /\ groupActive = [p \in Pairs |-> 0]
    /\ call = [c \in Calls |-> Idle]
    /\ admitted = {}
    /\ finished = {}
    /\ dropped = {}

-----------------------------------------------------------------------------
(* Store: slot tables.  Each operator runs inside one section of Store.mu. *)

(* A counter that reaches zero is deleted from its map. *)
Less(n) == IF n > 1 THEN n - 1 ELSE 0

ReleaseSlot(r) ==
    \/ /\ r \in Requests
       /\ activeRequests[r] # NoScope
       /\ activeRequests' = [activeRequests EXCEPT ![r] = NoScope]
       /\ activeByScope' = [activeByScope EXCEPT ![activeRequests[r]] = Less(@)]
       /\ UNCHANGED <<groupSlots, groupActive>>
    \/ /\ r \in Requests
       /\ activeRequests[r] = NoScope
       /\ groupSlots[r] # NoSlot
       /\ groupSlots' = [groupSlots EXCEPT ![r] = NoSlot]
       /\ groupActive' = [groupActive EXCEPT ![groupSlots[r]] = Less(@)]
       /\ UNCHANGED <<activeRequests, activeByScope>>
    \/ /\ r \in Requests => ~Holds(r)
       /\ UNCHANGED slotVars

(* AcquireSlot finds room for a new key slot of k.  A request without an id *)
(* is let through only while the key has no limit. *)
KeyHasRoom(k) ==
    \/ keyLimit[k.scope] = 0
    \/ k.req # NoRequest /\ activeByScope[k.scope] < keyLimit[k.scope]

KeyAdmits(k) ==
    IF k.req = NoRequest THEN KeyHasRoom(k)
    ELSE /\ groupSlots[k.req] = NoSlot
         /\ \/ activeRequests[k.req] = k.scope
            \/ activeRequests[k.req] = NoScope /\ KeyHasRoom(k)

(* A definition named for a mistake (Again, IgnoresMarker, ...) is a faulty    *)
(* variant of the one that follows it, used only to test the properties.      *)
TakesKeySlotAgain(k) == k.req # NoRequest

TakesKeySlot(k) == k.req # NoRequest /\ activeRequests[k.req] = NoScope

GroupHasRoom(p) == groupLimit[p] # Unlimited => groupActive[p] < groupLimit[p]

GroupAdmits(k) ==
    /\ k.req # NoRequest
    /\ \/ groupSlots[k.req] = <<k.scope, k.group>>
       \/ /\ groupSlots[k.req] = NoSlot
          /\ activeRequests[k.req] = NoScope
          /\ GroupHasRoom(<<k.scope, k.group>>)

-----------------------------------------------------------------------------
(* App: request.intercept_before *)

Goto(c, point) == call' = [call EXCEPT ![c].pc = point]

(* The response is ready; what is left is the deferred endAdmission. *)
Respond(c) == call' = [call EXCEPT ![c] = [pc |-> "answered", req |-> @.req]]

AnswerKeepsLock(c) == Respond(c) /\ UNCHANGED admissionsMu

(* A response decided under admissionsMu: the deferred unlock runs as well. *)
Answer(c) == Respond(c) /\ admissionsMu' = NoCall

(* beginAdmission.  The host starts no call for a request it has completed. *)
Begin(c, k) ==
    /\ call[c] = Idle
    /\ admissionsMu = NoCall
    /\ k.req \notin finished
    /\ call' = [call EXCEPT ![c] = k]
    /\ admissions' = IF k.req = NoRequest THEN admissions
                     ELSE [admissions EXCEPT ![k.req].calls = @ + 1]
    /\ UNCHANGED <<configVars, admissionsMu, slotVars, historyVars>>

(* Enabled, routing and price.  A disabled plugin answers at once, letting the *)
(* request through; a refusal answers too; neither has touched a slot. *)
Check(c) ==
    /\ call[c].pc = "begun"
    /\ Goto(c, "checked") \/ Respond(c)
    /\ UNCHANGED <<configVars, admissions, admissionsMu, slotVars, historyVars>>

LockIgnoresMarker(c) ==
    /\ call[c].pc = "checked"
    /\ admissionsMu = NoCall
    /\ Goto(c, "locked") /\ admissionsMu' = c
    /\ UNCHANGED <<configVars, admissions, slotVars, historyVars>>

(* admissionsMu is taken and the completion marker is read under it. *)
Lock(c) ==
    /\ call[c].pc = "checked"
    /\ admissionsMu = NoCall
    /\ IF call[c].req # NoRequest /\ admissions[call[c].req].completed
       THEN Answer(c)
       ELSE Goto(c, "locked") /\ admissionsMu' = c
    /\ UNCHANGED <<configVars, admissions, slotVars, historyVars>>

(* AdmitGroup does not handle a key in legacy mode. *)
AdmitLegacy(c) ==
    /\ call[c].pc = "locked"
    /\ call[c].scope \notin grouped
    /\ Goto(c, IF call[c].generate THEN "acquire" ELSE "authorize")
    /\ UNCHANGED <<configVars, admissions, admissionsMu, slotVars, historyVars>>

TakeGroupSlot(r, p) ==
    IF groupSlots[r] = p THEN UNCHANGED slotVars
    ELSE /\ groupSlots' = [groupSlots EXCEPT ![r] = p]
         /\ groupActive' = [groupActive EXCEPT ![p] = @ + 1]
         /\ UNCHANGED <<activeRequests, activeByScope>>

(* AdmitGroup of a grouped key: policy, ledger and slot in one section. *)
AdmitGroup(c) ==
    /\ call[c].pc = "locked"
    /\ call[c].scope \in grouped
    /\ Answer(c)
    /\ \/ /\ call[c].generate
          /\ GroupAdmits(call[c])
          /\ TakeGroupSlot(call[c].req, <<call[c].scope, call[c].group>>)
          /\ admitted' = admitted \union {call[c].req}
       \/ UNCHANGED <<slotVars, admitted>>
    /\ UNCHANGED <<configVars, admissions, finished, dropped>>

TakeKeySlot(r, s) ==
    /\ activeRequests' = [activeRequests EXCEPT ![r] = s]
    /\ activeByScope' = [activeByScope EXCEPT ![s] = @ + 1]
    /\ UNCHANGED <<groupSlots, groupActive>>

AcquireSlot(c) ==
    /\ call[c].pc = "acquire"
    /\ LET k == call[c] IN
       \/ /\ k.scope = NoScope
          /\ Goto(c, "authorize")
          /\ UNCHANGED <<admissionsMu, slotVars>>
       \/ /\ k.scope # NoScope
          /\ ~KeyAdmits(k)
          /\ Answer(c)
          /\ UNCHANGED slotVars
       \/ /\ k.scope # NoScope
          /\ KeyAdmits(k)
          /\ call' = [call EXCEPT ![c].pc = "authorize",
                                  ![c].acquired = TakesKeySlot(k)]
          /\ IF TakesKeySlot(k) THEN TakeKeySlot(k.req, k.scope)
             ELSE UNCHANGED slotVars
          /\ UNCHANGED admissionsMu
    /\ UNCHANGED <<configVars, admissions, historyVars>>

(* The request of k is tracked: it was answered while owning a slot. *)
Tracked(k) == k.generate /\ k.scope # NoScope /\ k.req # NoRequest

AuthorizeRollsBackAny(c) ==
    /\ call[c].pc = "authorize"
    /\ Answer(c)
    /\ \/ /\ admitted' = IF Tracked(call[c]) THEN admitted \union {call[c].req}
                         ELSE admitted
          /\ UNCHANGED slotVars
       \/ /\ IF call[c].generate THEN ReleaseSlot(call[c].req)
             ELSE UNCHANGED slotVars
          /\ UNCHANGED admitted
    /\ UNCHANGED <<configVars, admissions, finished, dropped>>

(* Authorize, then the deferred rollback of a slot this call acquired. *)
Authorize(c) ==
    /\ call[c].pc = "authorize"
    /\ Answer(c)
    /\ \/ /\ admitted' = IF Tracked(call[c]) THEN admitted \union {call[c].req}
                         ELSE admitted
          /\ UNCHANGED slotVars
       \/ /\ IF call[c].acquired THEN ReleaseSlot(call[c].req)
             ELSE UNCHANGED slotVars
          /\ UNCHANGED admitted
    /\ UNCHANGED <<configVars, admissions, finished, dropped>>

(* endAdmission: the last call of a request deletes its marker. *)
EndAdmission(r) ==
    IF r = NoRequest THEN admissions
    ELSE IF admissions[r].calls = 1 THEN [admissions EXCEPT ![r] = NoMarker]
    ELSE [admissions EXCEPT ![r].calls = @ - 1]

End(c) ==
    /\ call[c].pc = "answered"
    /\ admissionsMu = NoCall
    /\ call' = [call EXCEPT ![c] = Idle]
    /\ admissions' = EndAdmission(call[c].req)
    /\ UNCHANGED <<configVars, admissionsMu, slotVars, historyVars>>

-----------------------------------------------------------------------------
(* App: request.complete.  Delivered for any request, also one the plugin *)
(* never saw, and any number of times. *)
Complete(r) ==
    /\ admissionsMu = NoCall
    /\ admissions' = IF admissions[r].calls = 0 THEN admissions
                     ELSE [admissions EXCEPT ![r].completed = TRUE]
    /\ ReleaseSlot(r)
    /\ finished' = finished \union {r}
    /\ UNCHANGED <<configVars, admissionsMu, call, admitted, dropped>>

-----------------------------------------------------------------------------
(* Store: configuration and lifecycle, under Store.mu only *)

SetConcurrencyLimit(s, limit) ==
    /\ keyLimit' = [keyLimit EXCEPT ![s] = limit]
    /\ UNCHANGED <<groupLimit, grouped, admissions, admissionsMu,
                   slotVars, call, historyVars>>

SaveGroupPlan(p, limit) ==
    /\ groupLimit' = [groupLimit EXCEPT ![p] = limit]
    /\ UNCHANGED <<keyLimit, grouped, admissions, admissionsMu,
                   slotVars, call, historyVars>>

(* A scheduled binding period begins or ends while requests are in flight. *)
SwitchMode(s) ==
    /\ grouped' = IF s \in grouped THEN grouped \ {s} ELSE grouped \union {s}
    /\ UNCHANGED <<keyLimit, groupLimit, admissions, admissionsMu,
                   slotVars, call, historyVars>>

(* Shutdown.  plugin.reconfigure, by contrast, keeps the slots whichever *)
(* database it opens. *)
Close ==
    /\ activeRequests' = [r \in Requests |-> NoScope]
    /\ activeByScope' = [s \in Scopes |-> 0]
    /\ groupSlots' = [r \in Requests |-> NoSlot]
    /\ groupActive' = [p \in Pairs |-> 0]
    /\ dropped' = dropped \union {r \in Requests : Holds(r)}
    /\ UNCHANGED <<configVars, admissions, admissionsMu, call, admitted, finished>>

-----------------------------------------------------------------------------

Step(c) ==
    \/ Check(c) \/ Lock(c) \/ AdmitLegacy(c) \/ AdmitGroup(c)
    \/ AcquireSlot(c) \/ Authorize(c) \/ End(c)

Administer ==
    \/ \E s \in Scopes, limit \in Limits \union {0} : SetConcurrencyLimit(s, limit)
    \/ \E p \in Pairs, limit \in Limits \union {Unlimited} : SaveGroupPlan(p, limit)
    \/ \E s \in Scopes : SwitchMode(s)
    \/ Close

Next ==
    \/ \E c \in Calls : Step(c) \/ \E k \in Arrivals : Begin(c, k)
    \/ \E r \in Requests : Complete(r)
    \/ Administer

Spec == Init /\ [][Next]_vars

-----------------------------------------------------------------------------
(* Properties *)

TypeOK ==
    /\ keyLimit \in [Scopes -> Limits \union {0}]
    /\ groupLimit \in [Pairs -> Limits \union {Unlimited}]
    /\ grouped \subseteq Scopes
    /\ admissions \in [Requests -> Marker]
    /\ admissionsMu \in Calls \union {NoCall}
    /\ activeRequests \in [Requests -> Scopes \union {NoScope}]
    /\ activeByScope \in [Scopes -> Nat]
    /\ groupSlots \in [Requests -> Pairs \union {NoSlot}]
    /\ groupActive \in [Pairs -> Nat]
    /\ call \in [Calls -> {Idle} \union Answered \union Deciding]
    /\ admitted \subseteq Requests
    /\ finished \subseteq Requests
    /\ dropped \subseteq Requests

(* The counters the limits are compared with never drift from the slots that *)
(* are really held, whatever mix of duplicates, rollbacks, mode switches and *)
(* completions came before (activeByScope, groupActive). *)
CountersExact ==
    /\ \A s \in Scopes : activeByScope[s] = Cardinality(KeyHolders(s))
    /\ \A p \in Pairs : groupActive[p] = Cardinality(GroupHolders(p))

(* A request is charged to one concurrency table only, even when its key *)
(* changes billing mode between two of its calls (AcquireSlot, AdmitGroup). *)
OneSlotPerRequest ==
    \A r \in Requests : activeRequests[r] = NoScope \/ groupSlots[r] = NoSlot

(* A completed request holds no slot, even if it completed while one of its *)
(* admission calls was still under way (intercept.go: requestAdmission). *)
NoSlotAfterCompletion == \A r \in finished : ~Holds(r)

(* An admitted request keeps its slot until it completes: no refused *)
(* duplicate rolls it back (concurrency.go: Acquired = false). *)
AdmittedKeepsSlot ==
    \A r \in admitted \ (finished \union dropped) : Holds(r)

(* A refused admission occupies nothing: a slot belongs to an admitted *)
(* request or to the one call that is deciding about it right now. *)
SlotIsAccountedFor ==
    \A r \in Requests : Holds(r) =>
        \/ r \in admitted
        \/ /\ admissionsMu # NoCall
           /\ call[admissionsMu].req = r
           /\ call[admissionsMu].acquired

(* Slots, the counters the limits are compared with, and the calls and       *)
(* requests they are held for agree: no slot is counted twice, taken twice   *)
(* or left behind (concurrency.go, AdmitGroup).                              *)
SlotsBalance == CountersExact /\ OneSlotPerRequest /\ SlotIsAccountedFor

(* The marker of a request counts exactly its calls in flight, so that a *)
(* completion finds it and the last call removes it. *)
MarkerCountsCalls ==
    \A r \in Requests :
        /\ admissions[r].calls = Cardinality(CallsOf(r))
        /\ admissions[r].calls = 0 => admissions[r] = NoMarker

(* What makes the properties above inductive.  Between the marker and the *)
(* mutex, a completed request has no call that could still decide about it; *)
(* between acquisition and decision, a slot to roll back is nobody else's. *)
Coordinated ==
    /\ \A c \in Calls : admissionsMu = c <=> call[c].pc \in HoldsMutex
    /\ \A c \in Calls : call[c] # Idle /\ call[c].req \in finished =>
         /\ call[c].pc \notin HoldsMutex
         /\ admissions[call[c].req].completed
    /\ \A c \in Calls : call[c].pc \in Points \ {"authorize"} => ~call[c].acquired
    /\ \A c \in Calls : call[c].pc = "acquire" => call[c].generate
    /\ \A c \in Calls : call[c].pc = "authorize" =>
         /\ Tracked(call[c]) => Holds(call[c].req) \/ call[c].req \in dropped
         /\ call[c].acquired =>
              /\ Tracked(call[c])
              /\ call[c].req \notin admitted \/ call[c].req \in dropped
              /\ groupSlots[call[c].req] = NoSlot

(* No step that takes a slot leaves more holders than the limit in force at *)
(* that step, although limits change and the counter was read earlier. *)
WithinLimit ==
    /\ \A s \in Scopes :
         LET n == Cardinality(KeyHolders(s)')
         IN  n > Cardinality(KeyHolders(s)) /\ keyLimit[s] # 0 => n <= keyLimit[s]
    /\ \A p \in Pairs :
         LET n == Cardinality(GroupHolders(p)')
         IN  n > Cardinality(GroupHolders(p)) /\ groupLimit[p] # Unlimited =>
                 n <= groupLimit[p]
AcquiresWithinLimit == [][WithinLimit]_vars

(* A slot never changes hands: from its reservation to its release it counts *)
(* against the same key and group. *)
SlotOwnerFixed ==
    [][\A r \in Requests : Holds(r) /\ Holds(r)' =>
          /\ activeRequests'[r] = activeRequests[r]
          /\ groupSlots'[r] = groupSlots[r]]_vars

-----------------------------------------------------------------------------
(* Liveness *)

(* Go's mutexes do not starve a waiter, a call inside the plugin runs on, and *)
(* the host completes every request once; repeats are not relied on. *)
Fairness ==
    /\ \A c \in Calls :
         /\ WF_vars(Check(c))
         /\ SF_vars(Lock(c))
         /\ WF_vars(AdmitLegacy(c) \/ AdmitGroup(c))
         /\ WF_vars(AcquireSlot(c))
         /\ WF_vars(Authorize(c))
         /\ SF_vars(End(c))
    /\ \A r \in Requests : SF_vars(r \notin finished /\ Complete(r))

FairSpec == Spec /\ Fairness

(* Every admission call returns to the host: nobody waits for ever on *)
(* admissionsMu. *)
CallsReturn == \A c \in Calls : call[c] # Idle ~> call[c] = Idle

(* Every slot is given back in the end, for good. *)
SlotsDrain == \A r \in Requests : <>[]~Holds(r)

=============================================================================
