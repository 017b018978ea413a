---------------------------- MODULE ReferencePrices ----------------------------
(***************************************************************************)
(* Prices of a model that has no custom or builtin price: a catalogue that *)
(* one caller at a time downloads and commits, a cache of lookups, a       *)
(* cooldown after failures, and databases that are replaced under calls.   *)
(*                                                                         *)
(* One model stands for all: a catalogue is reduced to the price it gives  *)
(* that model, the cache to its entry for it.  storageMu is explicit where *)
(* it matters: a call that reads holds it shared, from Miss to Read, and   *)
(* commits, failure records and close, which take it exclusively, wait.    *)
(***************************************************************************)
EXTENDS Integers, FiniteSets

CONSTANTS
    Callers,    \* host calls
    Kinds,      \* of calls: "admission", "usage", "ensure", "manual"
    Managers,   \* one per database that is ever opened
    Prices,     \* what a catalogue may say of the model
    Absent,     \* it does not list the model
    NoCatalog,  \* nothing was ever downloaded
    Nobody,     \* no caller, no manager
    Empty,      \* no cache entry
    FreshFor,   \* how long a catalogue is fresh: 24 hours
    MissFor,    \* the same, when it does not list the model: 1 hour
    Backoffs,   \* cooldowns after a failure: 1 minute to 1 hour
    Horizon,    \* bound on the clock, for TLC
    MaxRefreshes    \* bound on refreshes after which no call begins, for TLC

ASSUME ReferenceAssumption ==
    /\ Absent \notin Prices /\ NoCatalog \notin Prices \union {Absent}
    /\ Empty \notin Prices \union {Absent} /\ Nobody \notin Callers \union Managers
    /\ {"none", "error", "switched", "custom"} \intersect (Prices \union {Absent}) = {}
    /\ Prices # {}
    /\ MissFor \in Nat /\ FreshFor \in Nat /\ MissFor <= FreshFor
    /\ Backoffs \subseteq Nat \ {0}

VARIABLES
    clock,      \* Store.Now()
    current,    \* Store.referencePrices
    retired,    \* managers that Configure has swapped out
    closed,     \* those of them whose database it has closed
    db,         \* metadata and prices in the database of a manager
    meta,       \* referencePriceManager.metadata
    cache,      \* referencePriceManager.entries
    flight,     \* refreshDone: the caller that refreshes
    sequence,   \* refreshSequence
    failed,     \* lastRefreshError
    pc,
    call        \* local variables of the calls

VARIABLES       \* history, read by no action
    offered,    \* what the database in use said of the model during a call
    downloads   \* downloads that calls began at this instant unasked

managers == <<current, retired, closed, db, meta, cache, flight, sequence, failed>>
vars == <<clock, managers, pc, call, offered, downloads>>

-----------------------------------------------------------------------------
Catalogs == Prices \union {Absent}
Metadata == [content : Catalogs \union {NoCatalog}, fetchedAt : Nat, retryAfter : Nat]
NoMetadata == [content |-> NoCatalog, fetchedAt |-> 0, retryAfter |-> 0]

Refreshing == {"download", "load", "commit", "fail", "publish"}
Errors == {"none", "storage", "other"}

NoCall == [kind |-> "usage", manager |-> Nobody, observed |-> 0,
           found |-> Absent, meta |-> NoMetadata, next |-> NoMetadata,
           error |-> "none", again |-> FALSE, answer |-> "none"]

Usable(metadata) == metadata.content # NoCatalog

(* referencePricesNeedRefresh *)
NeedsRefresh(metadata, found) ==
    \/ ~Usable(metadata)
    \/ clock - metadata.fetchedAt > FreshFor
    \/ found = Absent /\ clock - metadata.fetchedAt > MissFor

Goes(c, place) == pc' = [pc EXCEPT ![c] = place]
Sets(c, locals) == call' = [call EXCEPT ![c] = locals]
Manager(c) == call[c].manager

Readers(m) == {c \in Callers : pc[c] = "reading" /\ Manager(c) = m}

Asking(c) == call[c].kind \in {"admission", "usage"} /\ pc[c] \notin {"idle", "done"}

OfferOf(d) == IF Usable(d) THEN d.content ELSE Absent

Init ==
    /\ clock = 0
    /\ current \in Managers
    /\ retired = {}
    /\ closed = {}
    /\ db \in [Managers -> {[NoMetadata EXCEPT !.content = p] : p \in Catalogs \union {NoCatalog}}]
    /\ meta = db
    /\ cache = [m \in Managers |-> Empty]
    /\ flight = [m \in Managers |-> Nobody]
    /\ sequence = [m \in Managers |-> 0]
    /\ failed = [m \in Managers |-> "none"]
    /\ pc = [c \in Callers |-> "idle"]
    /\ call = [c \in Callers |-> NoCall]
    /\ offered = [c \in Callers |-> {}]
    /\ downloads = [m \in Managers |-> 0]

-----------------------------------------------------------------------------
(* The calls *)

(* ResolveModelPrice of a model that has no custom price yet: admission may *)
(* refresh, usage never does.                                               *)
Resolve(c, kind) ==
    /\ pc[c] = "idle"
    /\ kind \in {"admission", "usage"}
    /\ offered' = [offered EXCEPT ![c] = {OfferOf(db[current])}]
    /\ Goes(c, "lookup")
    /\ Sets(c, [NoCall EXCEPT !.kind = kind, !.manager = current])
    /\ UNCHANGED <<clock, managers, downloads>>

(* EnsureReferencePrices and RefreshReferencePrices. *)
Request(c, kind) ==
    /\ pc[c] = "idle"
    /\ kind \in {"ensure", "manual"}
    /\ Goes(c, "refresh")
    /\ Sets(c, [NoCall EXCEPT !.kind = kind, !.manager = current, !.observed = sequence[current],
                              !.found = CHOOSE p \in Prices : TRUE])
    /\ UNCHANGED <<clock, managers, offered, downloads>>

(* lookup answers from the cache, or goes to the database. *)
Lookup(c) ==
    LET m == Manager(c) IN
    /\ pc[c] = "lookup"
    /\ \/ /\ cache[m] # Empty
          /\ Goes(c, "looked")
          /\ Sets(c, [call[c] EXCEPT !.found = cache[m], !.meta = meta[m], !.observed = sequence[m]])
       \/ /\ cache[m] = Empty
          /\ Goes(c, "miss")
          /\ UNCHANGED call
    /\ UNCHANGED <<clock, managers, offered, downloads>>

Miss(c) ==
    LET m == Manager(c) IN
    /\ pc[c] = "miss"
    /\ \/ /\ m \in closed
          /\ Goes(c, "looked")
          /\ Sets(c, [call[c] EXCEPT !.error = "other"])
       \/ /\ m \notin closed /\ ~Usable(meta[m])
          /\ Goes(c, "looked")
          /\ Sets(c, [call[c] EXCEPT !.meta = meta[m], !.observed = sequence[m]])
       \/ /\ m \notin closed /\ Usable(meta[m])
          /\ Goes(c, "reading")
          /\ UNCHANGED call
    /\ UNCHANGED <<clock, managers, offered, downloads>>

Read(c) ==
    LET m == Manager(c) IN
    /\ pc[c] = "reading"
    /\ Goes(c, "looked")
    /\ \/ /\ Sets(c, [call[c] EXCEPT !.error = "other"])
          /\ UNCHANGED cache
       \/ /\ cache' = [cache EXCEPT ![m] = db[m].content]
          /\ Sets(c, [call[c] EXCEPT !.found = db[m].content, !.meta = meta[m], !.observed = sequence[m]])
    /\ UNCHANGED <<clock, current, retired, closed, db, meta, flight, sequence,
                   failed, offered, downloads>>

(* The locals that are still of use. *)
ToLookup(locals) == [NoCall EXCEPT !.kind = locals.kind, !.manager = locals.manager, !.again = TRUE]
ToRecheck(locals, error) ==
    [NoCall EXCEPT !.manager = locals.manager, !.found = locals.found, !.error = error]

Looked(c) ==
    /\ pc[c] = "looked"
    /\ IF /\ call[c].kind = "admission" /\ ~call[c].again /\ call[c].error = "none"
          /\ NeedsRefresh(call[c].meta, call[c].found)
       THEN Goes(c, "refresh") /\ Sets(c, [call[c] EXCEPT !.meta = NoMetadata])
       ELSE Goes(c, "recheck") /\ Sets(c, ToRecheck(call[c], call[c].error))
    /\ UNCHANGED <<clock, managers, offered, downloads>>

ReturnsToLookup(c, locals, error) ==
    IF locals.kind \in {"ensure", "manual"}
    THEN Goes(c, "done") /\ Sets(c, NoCall)
    ELSE Goes(c, "lookup") /\ Sets(c, [ToLookup(locals) EXCEPT !.again = FALSE])

(* What a call does when refresh returns. *)
Returns(c, locals, error) ==
    IF locals.kind \in {"ensure", "manual"}
    THEN Goes(c, "done") /\ Sets(c, NoCall)
    ELSE IF error = "none"
    THEN Goes(c, "lookup") /\ Sets(c, ToLookup(locals))
    ELSE /\ Goes(c, "recheck")
         /\ Sets(c, ToRecheck(locals, IF locals.found = Absent /\ error = "storage"
                               THEN "storage" ELSE "none"))

(* refresh joins the one under way, or what ended since the call looked, or *)
(* does nothing when nothing is due.                                        *)
Join(c) ==
    LET m == Manager(c) IN
    /\ pc[c] = "refresh"
    /\ flight[m] # Nobody
    /\ Goes(c, "wait")
    /\ Sets(c, [call[c] EXCEPT !.observed = sequence[m]])
    /\ UNCHANGED <<clock, managers, offered, downloads>>

DueIgnoringCooldown(c) ==
    \/ call[c].kind = "manual"
    \/ NeedsRefresh(meta[Manager(c)], call[c].found)

Due(c) ==
    \/ call[c].kind = "manual"
    \/ /\ NeedsRefresh(meta[Manager(c)], call[c].found)
       /\ meta[Manager(c)].retryAfter <= clock

SkipRefresh(c) ==
    LET m == Manager(c) IN
    /\ pc[c] = "refresh"
    /\ flight[m] = Nobody
    /\ \/ call[c].observed # sequence[m] /\ Returns(c, call[c], failed[m])
       \/ call[c].observed = sequence[m] /\ ~Due(c) /\ Returns(c, call[c], "none")
    /\ UNCHANGED <<clock, managers, offered, downloads>>

StartRefresh(c) ==
    LET m == Manager(c) IN
    /\ pc[c] = "refresh"
    /\ flight[m] = Nobody
    /\ call[c].observed = sequence[m]
    /\ Due(c)
    /\ flight' = [flight EXCEPT ![m] = c]
    /\ downloads' = IF call[c].kind = "manual" THEN downloads ELSE [downloads EXCEPT ![m] = @ + 1]
    /\ Goes(c, "download")
    /\ Sets(c, [call[c] EXCEPT !.meta = meta[m]])
    /\ UNCHANGED <<clock, current, retired, closed, db, meta, cache, sequence,
                   failed, offered>>

(* The 40 seconds of a waiting call run out. *)
WaitTimesOut(c) ==
    /\ pc[c] = "wait"
    /\ Returns(c, call[c], "other")
    /\ UNCHANGED <<clock, managers, offered, downloads>>

Waited(c) ==
    LET m == Manager(c) IN
    /\ pc[c] = "wait"
    /\ sequence[m] # call[c].observed
    /\ Returns(c, call[c], failed[m])
    /\ UNCHANGED <<clock, managers, offered, downloads>>

(* downloadAndCommit: the network, the parser and SQLite may all fail.     *)
Fails(c, error) ==
    /\ Goes(c, "fail")
    /\ Sets(c, [call[c] EXCEPT !.next = NoMetadata, !.answer = error])

Download(c) ==
    /\ pc[c] = "download"
    /\ \/ Fails(c, "other")
       \/ \E content \in Catalogs :
             Goes(c, "load") /\ Sets(c, [call[c] EXCEPT !.next.content = content])
    /\ UNCHANGED <<clock, managers, offered, downloads>>

LoadMetadata(c) ==
    /\ pc[c] = "load"
    /\ \/ Manager(c) \in closed /\ Fails(c, "other")
       \/ Manager(c) \notin closed /\ Fails(c, "storage")
       \/ Manager(c) \notin closed /\ call[c].next.content # db[Manager(c)].content
          /\ Fails(c, "other")
       \/ /\ Manager(c) \notin closed
          /\ Goes(c, "commit")
          /\ Sets(c, [call[c] EXCEPT !.next.fetchedAt = clock])
    /\ UNCHANGED <<clock, managers, offered, downloads>>

ForgetsNothing(m, content) == UNCHANGED cache

Forgets(m, content) ==
    cache' = IF content = db[m].content THEN cache ELSE [cache EXCEPT ![m] = Empty]

Offers(m, metadata) ==
    offered' = IF m # current THEN offered
               ELSE [c \in Callers |->
                       IF Asking(c) THEN offered[c] \union {OfferOf(metadata)} ELSE offered[c]]

CommitAnyway(c) ==
    LET m == Manager(c) IN
    /\ pc[c] = "commit"
    /\ db' = [db EXCEPT ![m] = call[c].next]
    /\ meta' = [meta EXCEPT ![m] = call[c].next]
    /\ Forgets(m, call[c].next.content)
    /\ Goes(c, "publish")
    /\ Sets(c, [call[c] EXCEPT !.answer = "none"])
    /\ Offers(m, call[c].next)
    /\ UNCHANGED <<clock, current, retired, closed, flight, sequence, failed, downloads>>

Commit(c) ==
    LET m == Manager(c) IN
    /\ pc[c] = "commit"
    /\ Readers(m) = {}
    /\ \/ /\ m \in closed /\ Fails(c, "other")
          /\ UNCHANGED <<db, meta, cache, offered>>
       \/ /\ m \notin closed /\ Fails(c, "storage")
          /\ UNCHANGED <<db, meta, cache, offered>>
       \/ /\ m \notin closed
          /\ db' = [db EXCEPT ![m] = call[c].next]
          /\ meta' = [meta EXCEPT ![m] = call[c].next]
          /\ Forgets(m, call[c].next.content)
          /\ Goes(c, "publish")
          /\ Sets(c, [call[c] EXCEPT !.answer = "none"])
          /\ Offers(m, call[c].next)
    /\ UNCHANGED <<clock, current, retired, closed, flight, sequence, failed, downloads>>

(* The failure is recorded with a cooldown, in the database if it can be.  *)
RecordFailure(c) ==
    LET m == Manager(c) IN
    /\ pc[c] = "fail"
    /\ Readers(m) = {}
    /\ \E backoff \in Backoffs :
          LET next == [call[c].meta EXCEPT !.retryAfter = clock + backoff] IN
          /\ Goes(c, "publish")
          /\ \/ /\ m \notin closed
                /\ db' = [db EXCEPT ![m] = next]
                /\ Sets(c, [call[c] EXCEPT !.next = next])
             \/ /\ m \notin closed
                /\ Sets(c, [call[c] EXCEPT !.next = next, !.answer = "storage"])
                /\ UNCHANGED db
             \/ /\ m \in closed
                /\ Sets(c, [call[c] EXCEPT !.next = next])
                /\ UNCHANGED db
    /\ UNCHANGED <<clock, current, retired, closed, meta, cache, flight, sequence,
                   failed, offered, downloads>>

Publish(c) ==
    LET m == Manager(c) IN
    /\ pc[c] = "publish"
    /\ meta' = [meta EXCEPT ![m] = call[c].next]
    /\ failed' = [failed EXCEPT ![m] = call[c].answer]
    /\ sequence' = [sequence EXCEPT ![m] = @ + 1]
    /\ flight' = [flight EXCEPT ![m] = Nobody]
    /\ Returns(c, call[c], call[c].answer)
    /\ UNCHANGED <<clock, current, retired, closed, db, cache, offered, downloads>>

AnswerWithoutRecheck(c) ==
    IF call[c].error # "none" THEN "error" ELSE call[c].found

(* ResolveModelPrice looks again at what may have changed meanwhile: a      *)
(* custom price set during the call takes precedence.                       *)
Answer(c) ==
    IF current # Manager(c) THEN "switched"
    ELSE IF call[c].error # "none" THEN "error"
    ELSE call[c].found

Recheck(c) ==
    /\ pc[c] = "recheck"
    /\ Goes(c, "done")
    /\ \E answer \in {Answer(c)} \union (IF current = Manager(c) THEN {"custom"} ELSE {}) :
          Sets(c, [NoCall EXCEPT !.answer = answer])
    /\ UNCHANGED <<clock, managers, offered, downloads>>

Return(c) ==
    /\ pc[c] = "done"
    /\ Goes(c, "idle")
    /\ Sets(c, NoCall)
    /\ offered' = [offered EXCEPT ![c] = {}]
    /\ UNCHANGED <<clock, managers, downloads>>

-----------------------------------------------------------------------------
(* The world around the calls *)

Tick ==
    /\ clock < Horizon
    /\ clock' = clock + 1
    /\ downloads' = [m \in Managers |-> 0]
    /\ UNCHANGED <<managers, pc, call, offered>>

(* Configure swaps in a manager it has opened and then closes the previous *)
(* one; cfgMu keeps two of them apart.                                     *)
Switch(m) ==
    /\ m \notin retired \union {current}
    /\ retired = closed
    /\ current' = m
    /\ retired' = retired \union {current}
    /\ offered' = [c \in Callers |->
                     IF Asking(c) THEN {OfferOf(db[m])} ELSE offered[c]]
    /\ UNCHANGED <<clock, closed, db, meta, cache, flight, sequence, failed,
                   pc, call, downloads>>

CloseRetired(m) ==
    /\ m \in retired \ closed
    /\ Readers(m) = {}
    /\ closed' = closed \union {m}
    /\ UNCHANGED <<clock, current, retired, db, meta, cache, flight, sequence, failed,
                   pc, call, offered, downloads>>

(* A lookup of another model pushes this one out of the cache, or a new    *)
(* catalogue changes only other models.                                    *)
Evict(m) ==
    /\ cache[m] # Empty
    /\ cache' = [cache EXCEPT ![m] = Empty]
    /\ UNCHANGED <<clock, current, retired, closed, db, meta, flight, sequence, failed,
                   pc, call, offered, downloads>>

-----------------------------------------------------------------------------
Enter(c) ==
    /\ sequence[current] < MaxRefreshes
    /\ \/ \E kind \in Kinds \intersect {"admission", "usage"} : Resolve(c, kind)
       \/ \E kind \in Kinds \intersect {"ensure", "manual"} : Request(c, kind)

Step(c) ==
    \/ Lookup(c) \/ Miss(c) \/ Read(c) \/ Looked(c)
    \/ Join(c) \/ SkipRefresh(c) \/ StartRefresh(c) \/ WaitTimesOut(c) \/ Waited(c)
    \/ Download(c) \/ LoadMetadata(c) \/ Commit(c) \/ RecordFailure(c) \/ Publish(c)
    \/ Recheck(c) \/ Return(c)

Environment ==
    \/ Tick
    \/ \E m \in Managers : Switch(m) \/ CloseRetired(m) \/ Evict(m)

Next == (\E c \in Callers : Enter(c) \/ Step(c)) \/ Environment

(* A goroutine runs on, every wait for the network, for SQLite and for     *)
(* another call is cut off by a deadline, and a writer waiting for         *)
(* storageMu is preferred to new readers.                                  *)
Fairness == \A c \in Callers : WF_vars(Step(c)) /\ SF_vars(Commit(c)) /\ SF_vars(RecordFailure(c))

Spec == Init /\ [][Next]_vars
FairSpec == Spec /\ Fairness

-----------------------------------------------------------------------------
(* One call at most refreshes a manager, and the flight names it: the      *)
(* claim and the release of refreshDone frame everything refresh does.     *)
OneRefresh ==
    \A c \in Callers : pc[c] \in Refreshing => flight[Manager(c)] = c

(* What the cache and the metadata in memory say is what the database      *)
(* says, whatever lookups, commits, failures and evictions interleave.     *)
CacheIsPublished ==
    \A m \in Managers :
        /\ cache[m] \in {Empty, db[m].content}
        /\ meta[m].content = db[m].content

(* A price that ResolveModelPrice returns from the catalogue is one that   *)
(* the database in use gave the model at some moment of the call: never    *)
(* that of a database Configure has replaced.                              *)
AnswerWasOffered ==
    \A c \in Callers :
        pc[c] = "done" /\ call[c].answer \in Catalogs => call[c].answer \in offered[c]

(* Concurrent calls that all find the catalogue old, or keep finding a     *)
(* failed download, begin one download between them at an instant.         *)
OneDownload == \A m \in Managers : downloads[m] <= 1

(* No refresh writes to a database after Configure has closed it, however  *)
(* late its download ends.                                                 *)
NothingAfterClose ==
    [][\A m \in closed : db'[m] = db[m]]_vars

(* A host call that asks for a price or for a refresh is answered. *)
CallsReturn == \A c \in Callers : pc[c] \in {"lookup", "refresh"} ~> pc[c] = "done"
================================================================================
