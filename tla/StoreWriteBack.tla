----------------------------- MODULE StoreWriteBack ----------------------------
(***************************************************************************)
(* Store.mu's write-back cache over the SQLite repository: calls change    *)
(* the working set in memory, save the parts they changed in one           *)
(* transaction, and keep what could not be saved for the next write, while *)
(* the host reconfigures the plugin, closes it, or dies.                   *)
(*                                                                         *)
(* The value of a part of the state (a key, a ledger, the configuration)   *)
(* is abstracted to the set of changes applied to it.  Normal and failed   *)
(* requests share one queue of pending events here; retention is left out. *)
(***************************************************************************)
EXTENDS Integers, Sequences, FiniteSets, Functions

CONSTANTS
    Callers,    \* host calls that run concurrently
    Parts,      \* what Changes can name: keys, ledgers, configuration tables
    Usage,      \* usage records: changes that carry a request event
    Other,      \* all other changes: settlements and management edits
    Files,      \* database paths
    NoFile,     \* no repository
    MaxPending  \* maxPendingRequestRecords

Ops == Usage \union Other

ASSUME WriteBackAssumption ==
    /\ NoFile \notin Files
    /\ MaxPending \in Nat \ {0}
    /\ Usage \intersect Other = {}

VARIABLES
    memory,     \* Store.state
    file,       \* Store.path and Store.repo
    dirty,      \* Store.dirty
    disk,       \* the committed contents of each database file
    loading,    \* the snapshot that a Configure in progress has loaded
    pc,         \* what a call still has to report after it released Store.mu
    lastError,  \* Store.lastError # ""
    admission   \* the answer of AdmitGroup in the last step, if it was one

VARIABLES       \* history, read by no action
    outcome,    \* what became of each change
    gone,       \* events dropped by the bound or lost with the process
    outage      \* whether the last write failed, and the onsets reported since
                \* the last one that succeeded

storeVars == <<memory, file, dirty, disk, loading>>
vars == <<memory, file, dirty, disk, loading, pc, lastError, admission,
          outcome, gone, outage>>

-----------------------------------------------------------------------------
(* Changes and their merging *)

Pending == {events \in Seq(Usage) : Len(events) <= MaxPending}
Changes == [parts : SUBSET Parts, events : Pending]
NoChanges == [parts |-> {}, events |-> <<>>]
Contents == [Parts -> SUBSET Ops]
Disk == [parts : Contents, events : Seq(Usage)]
Fresh == [p \in Parts |-> {}]
Loaded == [file : Files, parts : Contents]
NotLoading == [file |-> NoFile, parts |-> Fresh]

(* withBoundedRequestRecords: the latest records stay. *)
Bounded(events) ==
    SubSeq(events, IF Len(events) > MaxPending THEN Len(events) - MaxPending + 1 ELSE 1, Len(events))

Merge(pending, touched, events) ==
    [parts |-> pending.parts \union touched, events |-> Bounded(pending.events \o events)]

(* The oldest events that merging discards. *)
Dropped(events) == Range(dirty.events \o events) \ Range(Bounded(dirty.events \o events))

Changed(op, touched) ==
    [p \in Parts |-> IF p \in touched THEN memory[p] \union {op} ELSE memory[p]]

(* Repository.Save: one transaction that upserts the current value of the  *)
(* parts listed and appends the events.                                    *)
Saved(contents, state, changes) ==
    [parts |-> [p \in Parts |-> IF p \in changes.parts THEN state[p] ELSE contents.parts[p]],
     events |-> contents.events \o changes.events]

-----------------------------------------------------------------------------
Init ==
    /\ memory = Fresh
    /\ file = NoFile
    /\ dirty = NoChanges
    /\ disk = [f \in Files |-> [parts |-> Fresh, events |-> <<>>]]
    /\ loading = NotLoading
    /\ pc = [c \in Callers |-> "idle"]
    /\ lastError = FALSE
    /\ admission = "none"
    /\ outcome = [op \in Ops |-> "unused"]
    /\ gone = {}
    /\ outage = [failed |-> FALSE, onsets |-> 0]

NothingToWrite(changes) == file = NoFile \/ changes = NoChanges

WriteKeepsQueue(state, changes) ==
    /\ ~NothingToWrite(changes)
    /\ disk' = [disk EXCEPT ![file] = Saved(@, state, changes)]
    /\ dirty' = changes
    /\ outage' = [failed |-> FALSE, onsets |-> 0]

(* The transaction commits. *)
Write(state, changes) ==
    /\ ~NothingToWrite(changes)
    /\ disk' = [disk EXCEPT ![file] = Saved(@, state, changes)]
    /\ dirty' = NoChanges
    /\ outage' = [failed |-> FALSE, onsets |-> 0]

(* A transaction that fails leaves nothing behind. *)
WriteFails(changes) ==
    /\ ~NothingToWrite(changes)
    /\ outage' = [outage EXCEPT !.failed = TRUE]
    /\ UNCHANGED disk

DoesNotWrite(changes) == NothingToWrite(changes) /\ UNCHANGED <<dirty, disk, pc, outage>>

Reports(c, result) == pc' = [pc EXCEPT ![c] = result]

(* What updateResult keeps when its write failed. *)
KeepsOnlyLatest(touched, events) ==
    dirty' = Merge(NoChanges, touched, events)

Keeps(touched, events) == dirty' = Merge(dirty, touched, events)

(* updateResult in its critical section: usage records, settled cycles.     *)
Update(c, op, touched) ==
    LET events  == IF op \in Usage THEN <<op>> ELSE <<>>
        changes == Merge(dirty, touched, events)
    IN  /\ pc[c] = "idle"
        /\ outcome[op] = "unused"
        /\ outcome' = [outcome EXCEPT ![op] = "live"]
        /\ memory' = Changed(op, touched)
        /\ admission' = "none"
        /\ \/ DoesNotWrite(changes)
           \/ Write(memory', changes) /\ Reports(c, "saved")
           \/ WriteFails(changes) /\ Keeps(touched, events) /\ Reports(c, "failed")
        /\ gone' = gone \union IF file = NoFile THEN Range(events) ELSE Dropped(events)
        /\ UNCHANGED <<file, loading, lastError>>

(* What is left of an edit whose write failed. *)
DiscardAndRetryLater(op, touched) ==
    dirty' = Merge(dirty, touched, <<>>) /\ memory' = Changed(op, touched)

Discard(op, touched) == UNCHANGED <<memory, dirty>>

(* editConfiguration in its critical section.  An edit that its own         *)
(* validation rejects returns before the write and changes nothing.         *)
Edit(c, op, touched) ==
    LET changes == Merge(dirty, touched, <<>>)
    IN  /\ pc[c] = "idle"
        /\ op \in Other
        /\ outcome[op] = "unused"
        /\ admission' = "none"
        /\ \/ /\ DoesNotWrite(changes)
              /\ memory' = Changed(op, touched)
              /\ outcome' = [outcome EXCEPT ![op] = "live"]
           \/ /\ Write(Changed(op, touched), changes)
              /\ memory' = Changed(op, touched)
              /\ outcome' = [outcome EXCEPT ![op] = IF touched = {} THEN "live" ELSE "saved"]
              /\ Reports(c, "saved")
           \/ /\ WriteFails(changes)
              /\ Discard(op, touched)
              /\ outcome' = [outcome EXCEPT ![op] = "refused"]
              /\ Reports(c, "failed")
        /\ UNCHANGED <<file, loading, lastError, gone>>

AdmitIgnoringFailure ==
    /\ \/ DoesNotWrite(dirty) /\ admission' = "allowed"
       \/ Write(memory, dirty) /\ admission' = "allowed" /\ UNCHANGED pc
       \/ WriteFails(dirty) /\ admission' = "allowed" /\ UNCHANGED <<dirty, pc>>
    /\ UNCHANGED <<memory, file, loading, lastError, outcome, gone>>

(* AdmitGroup for a key in grouped mode, up to its decision.  It reports    *)
(* neither the success of its write nor the failure.  (Nothing is pending   *)
(* without a repository, so its test of s.repo never decides.)              *)
AdmitGroup ==
    /\ \/ DoesNotWrite(dirty) /\ admission' = "allowed"
       \/ Write(memory, dirty) /\ admission' = "allowed" /\ UNCHANGED pc
       \/ WriteFails(dirty) /\ admission' = "accounting_unavailable" /\ UNCHANGED <<dirty, pc>>
    /\ UNCHANGED <<memory, file, loading, lastError, outcome, gone>>

(* recordWriteError, after Store.mu was released. *)
RecordWriteError(c) ==
    /\ pc[c] = "failed"
    /\ lastError' = TRUE
    /\ outage' = [outage EXCEPT !.onsets = IF lastError THEN @ ELSE @ + 1]
    /\ Reports(c, "idle")
    /\ admission' = "none"
    /\ UNCHANGED <<storeVars, outcome, gone>>

RecordWriteSuccess(c) ==
    /\ pc[c] = "saved"
    /\ lastError' = FALSE
    /\ Reports(c, "idle")
    /\ admission' = "none"
    /\ UNCHANGED <<storeVars, outcome, gone, outage>>

(* Configure and Close drop the pending changes with the queue. *)
Lost == Range(dirty.events)

LoadAnything(f) == loading = NotLoading

(* Configure, which cfgMu serialises, acts on another path and loads it first. *)
Load(f) == loading = NotLoading /\ f # file

BeginConfigure(f) ==
    /\ Load(f)
    /\ loading' = [file |-> f, parts |-> disk[f].parts]
    /\ admission' = "none"
    /\ UNCHANGED <<memory, file, dirty, disk, pc, lastError, outcome, gone, outage>>

(* The reference prices of the new file cannot be opened. *)
ConfigureFails ==
    /\ loading # NotLoading
    /\ loading' = NotLoading
    /\ admission' = "none"
    /\ UNCHANGED <<memory, file, dirty, disk, pc, lastError, outcome, gone, outage>>

FinishConfigure ==
    /\ loading # NotLoading
    /\ loading' = NotLoading
    /\ memory' = loading.parts
    /\ file' = loading.file
    /\ dirty' = NoChanges
    /\ gone' = gone \union Lost
    /\ admission' = "none"
    /\ UNCHANGED <<disk, pc, lastError, outcome, outage>>

Close ==
    /\ loading = NotLoading
    /\ file' = NoFile
    /\ dirty' = NoChanges
    /\ gone' = gone \union Lost
    /\ admission' = "none"
    /\ UNCHANGED <<memory, disk, loading, pc, lastError, outcome, outage>>

(* The process dies; a transaction under way was committed or was not. *)
Crash ==
    /\ memory' = Fresh
    /\ file' = NoFile
    /\ dirty' = NoChanges
    /\ gone' = gone \union Lost
    /\ loading' = NotLoading
    /\ pc' = [c \in Callers |-> "idle"]
    /\ lastError' = FALSE
    /\ admission' = "none"
    /\ outage' = [failed |-> FALSE, onsets |-> 0]
    /\ UNCHANGED <<disk, outcome>>

Next ==
    \/ \E c \in Callers, op \in Ops, touched \in SUBSET Parts : Update(c, op, touched)
    \/ \E c \in Callers, op \in Other, touched \in SUBSET Parts : Edit(c, op, touched)
    \/ AdmitGroup
    \/ \E c \in Callers : RecordWriteError(c)
    \/ \E c \in Callers : RecordWriteSuccess(c)
    \/ \E f \in Files : BeginConfigure(f)
    \/ ConfigureFails
    \/ FinishConfigure
    \/ Close
    \/ Crash

Spec == Init /\ [][Next]_vars

-----------------------------------------------------------------------------
(* Properties *)

TypeOK ==
    /\ memory \in Contents
    /\ file \in Files \union {NoFile}
    /\ dirty \in Changes
    /\ disk \in [Files -> Disk]
    /\ loading \in Loaded \union {NotLoading}
    /\ pc \in [Callers -> {"idle", "failed", "saved"}]
    /\ lastError \in BOOLEAN
    /\ admission \in {"none", "allowed", "accounting_unavailable"}
    /\ outcome \in [Ops -> {"unused", "live", "saved", "refused"}]
    /\ gone \subseteq Usage
    /\ outage \in [failed : BOOLEAN, onsets : Nat]

(* What memory and the file in use disagree on is marked dirty, so the next *)
(* write, which saves nothing else, leaves them equal: no failed write, no   *)
(* edit and no reconfiguration leaves an unsaved change that nobody retries. *)
OnlyDirtyDiffers ==
    file # NoFile => \A p \in Parts \ dirty.parts : memory[p] = disk[file].parts[p]

(* The places of a request event: where it is pending, and where on disk.     *)
Queue(f) == IF f = NoFile THEN dirty.events ELSE disk[f].events
Places(e) ==
    UNION {{f} \X {i \in DOMAIN Queue(f) : Queue(f)[i] = e} : f \in Files \union {NoFile}}

OnDisk(e, f) == e \in Range(disk[f].events)
ChargedOnDisk(e, f) == \E p \in Parts : e \in disk[f].parts[p]

(* Retries neither duplicate a request event nor lose it: it is on one disk *)
(* once, or pending once, or the bound or the end of the process took it.    *)
EventsExactlyOnce ==
    \A e \in Usage :
        Cardinality(Places(e)) = IF outcome[e] = "unused" \/ e \in gone THEN 0 ELSE 1

(* A ledger on disk contains no charge whose event is neither there nor was *)
(* dropped at the bound, and misses no part of a charge whose event is there. *)
ChargedWithEvent ==
    /\ \A f \in Files, e \in Usage : ChargedOnDisk(e, f) => OnDisk(e, f) \/ e \in gone
    /\ file # NoFile => \A e \in Usage, p \in Parts :
          OnDisk(e, file) /\ e \in memory[p] => e \in disk[file].parts[p]

(* What the database holds of usage, in its events and in its ledgers, is the *)
(* same usage, once.                                                          *)
LedgersMatchEvents == EventsExactlyOnce /\ ChargedWithEvent

(* group_schema.sql: raw cost and original event commit atomically.         *)
EveryChargeHasItsEvent ==
    \A f \in Files, e \in Usage : ChargedOnDisk(e, f) => OnDisk(e, f)

(* A request of a key in grouped mode is let in only on a ledger that the   *)
(* file in use holds, completely.                                           *)
AdmittedOnSavedLedger ==
    admission = "allowed" /\ file # NoFile =>
        memory = disk[file].parts /\ dirty = NoChanges

(* An edit that answered with an error is nowhere, at no later time: not in *)
(* memory, not on a disk that a retry of pending usage wrote.               *)
RefusedEditLeavesNoTrace ==
    \A e \in Other : outcome[e] = "refused" =>
        \A p \in Parts : e \notin memory[p] /\ \A f \in Files : e \notin disk[f].parts[p]

(* An edit that was acknowledged over a file stays on disk, whatever fails, *)
(* crashes or is reconfigured later.                                        *)
AcknowledgedEditLasts ==
    \A e \in Other : outcome[e] = "saved" => \E f \in Files, p \in Parts : e \in disk[f].parts[p]

(* store.go: after a failed write, pending changes are retried on the next  *)
(* write, so while the process lives they leave the queue only by being saved. *)
PendingIsRetried ==
    [][file' # NoFile => \A p \in dirty.parts \ dirty'.parts :
          memory[p] \subseteq disk'[file].parts[p]]_vars

(* store.go: report the onset of an outage and then stay quiet until a write *)
(* succeeds.                                                                 *)
QuietDuringOutage == outage.onsets <= 1

(* The same comment: an outage is reported, once no call has yet to report. *)
OnsetIsReported ==
    (\A c \in Callers : pc[c] = "idle") /\ outage.failed => outage.onsets > 0

(* All-or-nothing writes of the whole working set.                          *)
Store == INSTANCE DurableStore WITH
    working <- memory, open <- file, stored <- [f \in Files |-> disk[f].parts]

ImplementsDurableStore == Store!Spec

================================================================================
