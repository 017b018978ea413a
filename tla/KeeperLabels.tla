----------------------------- MODULE KeeperLabels -----------------------------
(***************************************************************************)
(* Shared labels: the notes of keys and credentials belong to a remote      *)
(* Keeper that other clients edit too.  The plugin reads them whole, keeps  *)
(* a cache in its database, and edits one by reading, checking, writing and *)
(* reading back.  Calls of the plugin take turns (keeperMu); the Keeper     *)
(* changes between any two requests of a call, a request may fail with or   *)
(* without effect, and a write that was given up may still land later.      *)
(* The database can be exchanged in the middle of a call, and its labels    *)
(* with it: configure takes keeperMu only afterwards, to connect anew.      *)
(*                                                                         *)
(* A 401 is answered by one login and one repetition inside request: what   *)
(* it adds is one more way to fail without effect.                         *)
(***************************************************************************)
EXTENDS Naturals, FiniteSets

CONSTANTS
    Instances,    \* Keepers, by their URL
    Disabled,     \* no keeper_url
    Kinds,        \* a label's kind: the order is that of the two GETs
    Subjects,     \* callers' hashed keys and credentials
    KindOf,       \* kind of each subject
    Inventories,  \* credentials that the host may list
    Ids,          \* numeric ids, per instance and kind
    Values,       \* texts of a label
    Gone,         \* an id without a row
    Any,          \* an edit that expects no particular value
    NoEdit,       \* a refresh
    Tables,       \* what a Keeper may hold at first: rows by kind and id
    Databases,    \* labels that a database may hold when it is opened, by instance
    MaxForeign,   \* bound on changes by other clients, for TLC
    MaxLate,      \* bound on writes that may still land, for TLC
    MaxConfiguring \* bound on calls to configure under way, for TLC

ASSUME KeeperAssumption ==
    /\ Disabled \notin Instances /\ Any \notin Values
    /\ Kinds = {"downstream_key", "upstream_identity"}
    /\ KindOf \in [Subjects -> Kinds] /\ Inventories \subseteq SUBSET Subjects
    /\ Gone \notin [subject : Subjects, value : Values]
    /\ \A table \in Tables : \A kind \in Kinds, id \in Ids :
          table[kind][id] # Gone => KindOf[table[kind][id].subject] = kind
    /\ Tables \subseteq [Kinds -> [Ids -> [subject : Subjects, value : Values] \union {Gone}]]
    /\ Databases \subseteq [Instances -> SUBSET [subject : Subjects, id : Ids, value : Values]]

Row == [subject : Subjects, value : Values]
Label == [subject : Subjects, id : Ids, value : Values]

Edits == [subject : Subjects, value : Values, expected : Values \union {Any}]

Idle == [step |-> "idle", edit |-> NoEdit, known |-> {}, labels |-> {}, row |-> {}]

VARIABLES
    remote,    \* rows of each Keeper by kind and id
    late,      \* writes that were given up and may still land
    keeper,    \* App.keeper: the instance of the client, or Disabled
    age,       \* time since keeperLast: 0 below 30 s, 1 below a minute, 2 above
    failed,    \* App.keeperError # ""
    cached,    \* GroupState.Labels of the database in use, by instance
    configuring, \* keepers of calls to configure that have their database in use
    call,      \* the call that holds keeperMu; row is the label its edit chose
    answer,    \* what the last call was answered, if it was an edit
    current,   \* history: the cache equals the last whole reading
    unsaved,   \* history: the database refused the labels that an edit read back
    touched,   \* history: the write of this call was or may be carried out
    disturbed, \* history: the Keeper changed since this call's check or write
    foreign    \* number of changes by other clients

app == <<keeper, age, failed>>
history == <<current, unsaved, touched, disturbed, foreign>>
keeperVars == <<remote, late, app, cached, configuring, call, answer, history>>

KeeperInit ==
    /\ remote \in [Instances -> Tables]
    /\ late = {}
    /\ keeper \in Instances \union {Disabled}
    /\ age = 2
    /\ failed = FALSE
    /\ cached \in Databases
    /\ configuring = {}
    /\ call = Idle
    /\ answer = "none"
    /\ current = FALSE
    /\ unsaved = FALSE
    /\ touched = FALSE
    /\ disturbed = FALSE
    /\ foreign = 0

-----------------------------------------------------------------------------
(* The Keeper and its other clients *)

Rows(table, kind) ==
    {[subject |-> table[kind][id].subject, id |-> id, value |-> table[kind][id].value] :
        id \in {i \in Ids : table[kind][i] # Gone}}

(* Another client edits, deletes, creates or replaces a row. *)
ForeignChange(k, kind, id, row) ==
    /\ foreign < MaxForeign
    /\ remote[k][kind][id] # row
    /\ row # Gone => KindOf[row.subject] = kind
    /\ remote' = [remote EXCEPT ![k][kind][id] = row]
    /\ foreign' = foreign + 1
    /\ disturbed' = (call # Idle)
    /\ UNCHANGED <<late, app, cached, configuring, call, answer, current, unsaved, touched>>

Written(w) ==
    IF remote[w.instance][w.kind][w.id] = Gone THEN remote
    ELSE [remote EXCEPT ![w.instance][w.kind][w.id].value = w.value]

LateWrite(w) ==
    /\ w \in late
    /\ remote' = Written(w)
    /\ late' = late \ {w}
    /\ disturbed' = (call # Idle)
    /\ UNCHANGED <<app, cached, configuring, call, answer, current, unsaved, touched, foreign>>

-----------------------------------------------------------------------------
(* Configuration *)

Returned == call' = Idle /\ touched' = FALSE /\ disturbed' = FALSE

Tick ==
    /\ age < 2
    /\ age' = age + 1
    /\ UNCHANGED <<remote, late, keeper, failed, cached, configuring, call, answer, history>>

(* Store.Configure, under routingMu: whatever call holds keeperMu, another *)
(* path brings the labels of another database. *)
Configure(k) ==
    /\ configuring' = configuring \union {k}
    /\ Cardinality(configuring') <= MaxConfiguring
    /\ \/ UNCHANGED <<cached, current>>
       \/ cached' \in Databases /\ current' = FALSE
    /\ UNCHANGED <<remote, late, app, call, answer, unsaved, touched, disturbed, foreign>>

Connected(k) ==
    /\ keeper' = k
    /\ age' = 2
    /\ failed' = FALSE
    /\ UNCHANGED <<remote, late, cached, current, unsaved, foreign>>

(* The other half of configure, under keeperMu. *)
Reconnect(k) ==
    /\ k \in configuring /\ call = Idle
    /\ Connected(k)
    /\ configuring' = configuring \ {k}
    /\ UNCHANGED <<call, answer, touched, disturbed>>

(* The cache is in the database, the rest is not. *)
Restart(k) ==
    /\ call # Idle \/ configuring # {}
    /\ Connected(k)
    /\ Returned
    /\ configuring' = {}
    /\ answer' = "none"

-----------------------------------------------------------------------------
(* Calls *)

(* refreshKeeper: listings leave a Keeper alone that was asked just before. *)
Refresh(force) ==
    /\ call = Idle /\ keeper # Disabled
    /\ force \/ age > 0
    /\ age' = 0
    /\ call' = [Idle EXCEPT !.step = "inventory"]
    /\ answer' = "none"
    /\ UNCHANGED <<remote, late, keeper, failed, cached, configuring, history>>

(* updateSharedLabel: the key page edits without an expected value. *)
Update(edit) ==
    /\ call = Idle
    /\ IF keeper = Disabled
       THEN answer' = "refused" /\ UNCHANGED call
       ELSE answer' = "none" /\ call' = [Idle EXCEPT !.step = "inventory", !.edit = edit]
    /\ UNCHANGED <<remote, late, app, cached, configuring, history>>

(* A call ends without a result; the code of a refusal does not matter. *)
Ended(result) ==
    /\ Returned
    /\ answer' = IF call.edit = NoEdit THEN "none" ELSE result
    /\ UNCHANGED <<cached, keeper, age, unsaved, foreign>>

Failed(result) == Ended(result) /\ failed' = TRUE

(* refreshCredentialInventory, then keeperResolver: every key is known, and *)
(* the credentials that the host lists.  An edit leaves keeperError alone. *)
RefreshInventory(known) ==
    /\ call.step = "inventory"
    /\ \/ /\ Ended("refused")
          /\ failed' = IF call.edit = NoEdit THEN TRUE ELSE failed
       \/ /\ call' = [call EXCEPT !.step = "keys",
                 !.known = known \union {s \in Subjects : KindOf[s] = "downstream_key"}]
          /\ UNCHANGED <<app, cached, answer, unsaved, touched, disturbed, foreign>>
    /\ UNCHANGED <<remote, late, configuring, current>>

Ambiguous(labels) == \E l, m \in labels : l # m /\ l.subject = m.subject

ReadingRefused == Failed("refused")

(* A reading that fails; the one that follows an edit's write leaves its *)
(* outcome open. *)
ReadingFailed == Failed(IF call.row = {} THEN "refused" ELSE "write_outcome_unknown")

(* The GET that an edit checks its subject's label against. *)
ReadForCheck(kind) == call.row = {} /\ call.edit # NoEdit /\ KindOf[call.edit.subject] = kind

(* One GET of snapshot: unresolved rows are skipped, two of one subject refused. *)
Get(kind, next) ==
    LET found == {l \in Rows(remote[keeper], kind) : l.subject \in call.known}
        labels == call.labels \union found
    IN
    /\ \/ ReadingFailed /\ UNCHANGED current   \* no answer, or an ambiguous identity
       \/ /\ ~Ambiguous(labels)
          /\ call' = [call EXCEPT !.labels = labels, !.step = next]
          /\ current' = IF kind = "upstream_identity" THEN cached[keeper] = labels ELSE current
          /\ disturbed' = (disturbed /\ ~ReadForCheck(kind))
          /\ UNCHANGED <<app, cached, answer, unsaved, touched, foreign>>
    /\ UNCHANGED <<remote, late, configuring>>

GetKeys == call.step = "keys" /\ Get("downstream_key", "credentials")

GetCredentials ==
    /\ call.step = "credentials"
    /\ Get("upstream_identity",
           IF call.edit # NoEdit /\ call.row = {} THEN "select" ELSE "save")

SelectCached ==
    LET chosen == {l \in cached[keeper] : l.subject = call.edit.subject} IN
    /\ call.step = "select"
    /\ \/ chosen = {} /\ Failed("refused")
       \/ /\ \E l \in chosen : call' = [call EXCEPT !.step = "patch", !.row = {l}]
          /\ UNCHANGED <<app, cached, answer, unsaved, touched, disturbed, foreign>>
    /\ UNCHANGED <<remote, late, configuring, current>>

(* The label to edit, as the Keeper holds it now. *)
Select ==
    LET chosen == {l \in call.labels : l.subject = call.edit.subject} IN
    /\ call.step = "select"
    /\ \/ chosen = {} /\ Failed("refused")
       \/ /\ call.edit.expected # Any
          /\ \E l \in chosen : l.value # call.edit.expected
          /\ Failed("refused")
       \/ /\ \E l \in chosen :
               /\ call.edit.expected \in {Any, l.value}
               /\ call' = [call EXCEPT !.step = "patch", !.row = {l}]
          /\ UNCHANGED <<app, cached, answer, unsaved, touched, disturbed, foreign>>
    /\ UNCHANGED <<remote, late, configuring, current>>

(* A PATCH that is refused, or whose login fails, was not carried out; one *)
(* that gets no answer or an error of the server was, was not, or will be. *)
Patch ==
    \E l \in call.row :
        LET w == [instance |-> keeper, kind |-> KindOf[l.subject], id |-> l.id,
                  value |-> call.edit.value] IN
        /\ call.step = "patch"
        /\ \/ /\ Failed("refused")
              /\ UNCHANGED <<remote, late>>
           \/ /\ Failed("write_outcome_unknown")
              /\ \/ remote' = Written(w) /\ UNCHANGED late
                 \/ /\ Cardinality(late \union {w}) <= MaxLate
                    /\ late' = late \union {w}
                    /\ UNCHANGED remote
                 \/ UNCHANGED <<late, remote>>
           \/ /\ remote[keeper][w.kind][w.id] # Gone
              /\ remote' = Written(w)
              /\ touched' = TRUE
              /\ disturbed' = FALSE
              /\ call' = [call EXCEPT !.step = "keys", !.labels = {}]
              /\ UNCHANGED <<late, app, cached, answer, unsaved, foreign>>
        /\ UNCHANGED <<configuring, current>>

Confirmed == \E l \in call.labels : l.subject = call.edit.subject /\ l.value = call.edit.value

SavedAlongside ==
    /\ cached' = [cached EXCEPT ![keeper] = @ \union call.labels]
    /\ failed' = FALSE
    /\ Returned
    /\ current' = (cached[keeper] \subseteq call.labels)
    /\ unsaved' = FALSE
    /\ UNCHANGED <<keeper, foreign>>

(* CacheSharedLabels: in place of all labels of the instance, or not at all. *)
Saved ==
    /\ cached' = [cached EXCEPT ![keeper] = call.labels]
    /\ failed' = FALSE
    /\ Returned
    /\ current' = TRUE
    /\ unsaved' = FALSE
    /\ UNCHANGED <<keeper, foreign>>

Save ==
    /\ call.step = "save"
    /\ \/ /\ call.edit = NoEdit
          /\ \/ Saved /\ UNCHANGED <<age, answer>>
             \/ Failed("refused") /\ UNCHANGED current
       \/ /\ call.edit # NoEdit /\ ~Confirmed
          /\ Failed("write_outcome_unknown")
          /\ UNCHANGED current
       \/ /\ call.edit # NoEdit /\ Confirmed
          /\ \/ Saved /\ age' = 0 /\ answer' = "ok"
             \/ /\ Returned
                /\ answer' = "write_outcome_unknown"
                /\ unsaved' = TRUE
                /\ UNCHANGED <<app, cached, current, foreign>>
    /\ UNCHANGED <<remote, late, configuring>>

(* What sharedLabels says of the labels that it shows in the same section of *)
(* keeperMu.  A usage page asks this in a later section than the one in which *)
(* it took its label, and a reading in between makes an old label current:    *)
(* nothing is stated of those pages. *)
Stale == failed \/ age = 2

KeeperNext ==
    \/ \E k \in Instances, kind \in Kinds, id \in Ids, row \in Row \union {Gone} :
          ForeignChange(k, kind, id, row)
    \/ \E w \in late : LateWrite(w)
    \/ Tick
    \/ \E k \in Instances \union {Disabled} : Configure(k)
    \/ \E k \in Instances \union {Disabled} : Reconnect(k)
    \/ \E k \in Instances \union {Disabled} : Restart(k)
    \/ \E force \in BOOLEAN : Refresh(force)
    \/ \E edit \in Edits : Update(edit)
    \/ \E known \in Inventories : RefreshInventory(known)
    \/ GetKeys
    \/ GetCredentials
    \/ Select
    \/ Patch
    \/ Save

KeeperSpec == KeeperInit /\ [][KeeperNext]_keeperVars

-----------------------------------------------------------------------------
(* Properties *)

KeeperTypeOK ==
    /\ remote \in [Instances -> [Kinds -> [Ids -> Row \union {Gone}]]]
    /\ late \subseteq [instance : Instances, kind : Kinds, id : Ids, value : Values]
    /\ keeper \in Instances \union {Disabled}
    /\ age \in 0..2
    /\ cached \in [Instances -> SUBSET Label]
    /\ configuring \subseteq Instances \union {Disabled}
    /\ call.edit \in Edits \union {NoEdit} /\ call.labels \subseteq Label

(* An edit that is refused was not and will not be carried out: neither a *)
(* failing login nor a failing read-back is told as a failed write, nor is *)
(* a write that may still land. *)
RefusedMeansUntouched ==
    [][call # Idle /\ call' = Idle /\ answer' = "refused"
          => ~touched /\ UNCHANGED <<remote, late>>]_keeperVars

(* An edit replaces the value that it checked: where no other client wrote *)
(* since, the row it changes is still the one of its subject with the value *)
(* that was read. *)
OverwritesWhatItChecked ==
    [][\A l \in call.row :
          (/\ call.step = "patch" /\ call'.step # "patch" /\ remote' # remote /\ ~disturbed)
              => /\ remote[keeper][KindOf[call.edit.subject]][l.id]
                       = [subject |-> call.edit.subject, value |-> l.value]
                 /\ call.edit.expected \in {Any, l.value}]_keeperVars

(* The labels that sharedLabels lists as current are those of the last whole *)
(* reading of the configured Keeper: whatever a later reading or edit saw of *)
(* it and did not store marks them as stale, and so does a new database, also *)
(* one that came in the middle of a call.  There are two exceptions: labels  *)
(* that an edit has read back and the database refused, and the time between *)
(* the two halves of configure. *)
CurrentIsLastRead ==
    (call = Idle /\ keeper # Disabled /\ ~Stale /\ ~unsaved /\ configuring = {}) => current

=============================================================================
