---------------------------- MODULE SubsetScheduler ----------------------------
(***************************************************************************)
(* The smooth weighted round robin that spreads a key's requests over the   *)
(* credentials its rules allow. The set of candidates changes from call to  *)
(* call: the credit of a credential that is not offered stays as it is.     *)
(***************************************************************************)
EXTENDS Integers, FiniteSetsExt, Functions

CONSTANTS
    Keys,            \* hashed API keys
    PoolKeys,        \* a model and the credential policy of a key
    Candidates,      \* credentials; their numbers order their ids
    Weights,         \* weights a host may give; those below 1 exclude
    MaxPools,        \* maxPoolsPerKey
    MaxCredentials,  \* maxCredentialsPerPool
    WaitBound,       \* offers that a credential may have to wait for
    None             \* no credential

ASSUME SchedulerAssumption ==
    /\ Candidates \subseteq Nat /\ IsFiniteSet(Candidates)
    /\ Weights \subseteq Int
    /\ MaxPools \in Nat \ {0}
    /\ MaxCredentials \in Nat
    /\ None \notin Nat

VARIABLES
    pools,   \* the schedule states a scope has, by pool
    answer,  \* the credential picked last
    waited,  \* history: offers since a credential was picked or credits reset
    dropped  \* history: the credits that a pool of too many credentials lost

schedulerVars == <<pools, answer, waited, dropped>>

NoState == [current |-> <<>>, weights |-> <<>>]

Credit(state, c) == IF c \in DOMAIN state.current THEN state.current[c] ELSE 0

SchedulerInit ==
    /\ pools = [s \in Keys |-> <<>>]
    /\ answer = None
    /\ waited = [s \in Keys |-> [p \in PoolKeys |-> [c \in Candidates |-> 0]]]
    /\ dropped = [s \in Keys |-> [p \in PoolKeys |-> 0]]

-----------------------------------------------------------------------------

(* A host's offer gives each credential that it presents a weight. *)
Positive(offer) == {c \in DOMAIN offer : offer[c] > 0}

(* A new pool beyond the limit discards all progress of the key. *)
Flushes(s, p) == p \notin DOMAIN pools[s] /\ Cardinality(DOMAIN pools[s]) >= MaxPools

StateOf(s, p) == IF p \in DOMAIN pools[s] THEN pools[s][p] ELSE NoState

WeightsChanged(state, offer) ==
    \E c \in Positive(offer) \intersect DOMAIN state.weights : state.weights[c] # offer[c]

Overflows(state, offer) ==
    ~WeightsChanged(state, offer) /\ Cardinality(DOMAIN state.current) > MaxCredentials

(* A changed weight forgets all credits, an overflow those not offered now. *)
Resets(state, offer) == WeightsChanged(state, offer) \/ Overflows(state, offer)

Dropped(state, offer) == SumFunctionOnSet(state.current, DOMAIN state.current \ Positive(offer))

(* The state in which the credits of this call are added. *)
Prepared(state, offer) ==
    LET positive == Positive(offer)
        weights == [c \in DOMAIN state.weights \union positive |->
                      IF c \in positive THEN offer[c] ELSE state.weights[c]]
        current == IF WeightsChanged(state, offer) THEN <<>> ELSE state.current
    IN IF Overflows(state, offer)
       THEN [current |-> [c \in positive |-> Credit(state, c)],
             weights |-> [c \in positive |-> offer[c]]]
       ELSE [current |-> current, weights |-> weights]

CreditedOfOffered(state, offer) ==
    [c \in Positive(offer) |-> Credit(state, c) + offer[c]]

Credited(state, offer) ==
    [c \in DOMAIN state.current \union Positive(offer) |->
       IF c \in Positive(offer) THEN Credit(state, c) + offer[c] ELSE state.current[c]]

(* The highest credit, and among those the lowest id. *)
Selected(state, offer) ==
    LET credited == Credited(state, offer)
    IN Min({c \in Positive(offer) : \A d \in Positive(offer) : credited[c] >= credited[d]})

TotalWeight(offer) == SumFunctionOnSet(offer, Positive(offer))

(* The one that is picked pays what all that were offered gained. *)
Settled(state, offer) ==
    [Credited(state, offer) EXCEPT ![Selected(state, offer)] = @ - TotalWeight(offer)]

(* No or one usable candidate needs no schedule. *)
PickDirectly(offer) ==
    /\ Cardinality(Positive(offer)) <= 1
    /\ answer' = IF Positive(offer) = {} THEN None ELSE Min(Positive(offer))
    /\ UNCHANGED <<pools, waited, dropped>>

Pick(s, p, offer) ==
    /\ Cardinality(Positive(offer)) > 1
    /\ LET state == Prepared(StateOf(s, p), offer)
           picked == Selected(state, offer)
           kept == IF Flushes(s, p) THEN {} ELSE DOMAIN pools[s]
       IN /\ pools' = [pools EXCEPT ![s] = [q \in kept \union {p} |->
                IF q = p THEN [state EXCEPT !.current = Settled(state, offer)]
                ELSE pools[s][q]]]
          /\ answer' = picked
          /\ waited' = [waited EXCEPT ![s] = [q \in PoolKeys |->
                IF q # p THEN IF q \in kept THEN @[q] ELSE [c \in Candidates |-> 0]
                ELSE [c \in Candidates |->
                   IF c = picked THEN 0
                   ELSE (IF c \in Positive(offer) THEN 1 ELSE 0)
                        + (IF Resets(StateOf(s, p), offer) THEN 0 ELSE @[p][c])]]]
          /\ dropped' = [dropped EXCEPT ![s] = [q \in PoolKeys |->
                IF q # p THEN IF q \in kept THEN @[q] ELSE 0
                ELSE IF WeightsChanged(StateOf(s, p), offer) THEN 0
                ELSE IF Overflows(StateOf(s, p), offer) THEN @[q] + Dropped(StateOf(s, p), offer)
                ELSE @[q]]]

(* prune: only keys that exist keep their schedules. *)
Prune(scopes) ==
    /\ pools' = [s \in Keys |-> IF s \in scopes THEN pools[s] ELSE <<>>]
    /\ waited' = [s \in Keys |-> IF s \in scopes THEN waited[s]
                                   ELSE [p \in PoolKeys |-> [c \in Candidates |-> 0]]]
    /\ dropped' = [s \in Keys |-> IF s \in scopes THEN dropped[s] ELSE [p \in PoolKeys |-> 0]]
    /\ UNCHANGED answer

WeightedOffers == UNION {[D -> Weights] : D \in SUBSET Candidates}

SchedulerNext ==
    \/ \E offer \in WeightedOffers : PickDirectly(offer)
    \/ \E s \in Keys, p \in PoolKeys, offer \in WeightedOffers : Pick(s, p, offer)
    \/ \E scopes \in SUBSET Keys : Prune(scopes)

SchedulerSpec == SchedulerInit /\ [][SchedulerNext]_schedulerVars

-----------------------------------------------------------------------------
(* Properties *)

(* The credits of a pool cancel out: what some are owed, others have had in *)
(* excess, whatever subsets were offered, but for those that an overflow of *)
(* the pool has dropped. *)
CreditsBalance ==
    \A s \in Keys : \A p \in DOMAIN pools[s] :
       SumFunction(pools[s][p].current) + dropped[s][p] = 0

(* No starvation: a credential that keeps being offered with the same weights *)
(* is picked after a bounded number of its offers, whichever others come and *)
(* go in between. *)
BoundedWait ==
    \A s \in Keys, p \in PoolKeys, c \in Candidates : waited[s][p][c] <= WaitBound

(* Smooth weighted round-robin over changing subsets is fair: nobody waits for *)
(* ever, and what one credential gains another one has paid (scheduler.go).    *)
NoneStarves == BoundedWait /\ CreditsBalance

=============================================================================
