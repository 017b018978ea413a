# Verification of cpa-key-billing

TLA+ models, TLC checks and TLAPS proofs for the CPA plugin `cpa-key-billing`
(Go, `internal/` and `cmd/`). The plugin runs inside a proxy host. The host calls
it over a C ABI for every request (admission before authentication, scheduling of
upstream credentials, completion, usage) and forwards the management page's API
calls. Calls arrive concurrently, from as many threads as the host likes; the
plugin starts no goroutine of its own. Everything it keeps lives in memory under a
few mutexes and is written through to SQLite.

## 1. Inventory

| component | source | state | operations | what makes it correct |
|---|---|---|---|---|
| admission | `plugin/intercept.go`, `billing/concurrency.go`, slots of `billing/group_account.go` | completion markers per request id, two slot tables and their counters, concurrency limits | begin/check/admit/acquire/authorise/end of one intercept call, completion, limit changes, reconfigure/close | a request is charged to one table, never after its completion; counters equal slots; limits hold; slots drain |
| binding schedule | `billing/group_config.go`, `group_types.go` | per key: revision and periods of a billing mode | look, schedule, key sync | disjoint and gapless periods, changes at midnight only, no lost update |
| group ledger | `billing/group_account.go`, `group_config.go`, `group_types.go` | per key, group and business day: raw cost, credit, reset cutoff, error, counts; unclassified counter | record usage, reset, publish, archive, save plan | raw cost is the sum of the priced events, a reset forgives exactly what began before it, an unbookable amount closes admission, a record's class never changes |
| write-back | `billing/store.go`, `billing/repository.go`, `sqlite/repository.go` | live state, pending changes, disk | live update, management edit, admission retry, configure, close, crash | disk plus pending changes is memory; a failed edit leaves no trace; nothing recorded is forgotten |
| group ownership | `billing/group_config.go`, `group_types.go`, `sqlite/groups.go`, `group_schema.sql` | groups, members, status, owners; plans that grant groups; the same in tables | create, update, publish, archive, save plan | one owner per model; the owner of a past instant never changes; the database holds what memory does |
| legacy quota | `billing/quota.go`, `plan.go`, `keys.go`, `enforce.go`, `account.go` | plans with windows, cycles per key | admit, charge, settle, bind, edit plan, reset, key sync | a cycle counts exactly the usage of its own time; edits keep what was spent; a refusal names the right instant to retry; the database can always be loaded |
| prices | `billing/prices.go`, `reference_prices.go` | custom prices, cached reference prices, a single-flight download | ensure, lookup, refresh, close | at most one download; waiters get its result; nothing is written after close |
| scheduler | `plugin/scheduler.go` | credits per key, pool and credential | pick, prune | no credential starves, whichever subsets are offered |
| routes and inventory | `billing/routing.go`, `plugin/routing_credentials.go` | routes, bindings of keys, configured and observed credentials | edit, bind, delete, synchronise, refresh, observe, choose | bindings resolve; a denial wins; what is chosen was permitted |
| token accounting | `plugin/usage.go`, `billing/pricing.go` | none (pure) | breakdown, cost | non-overlapping buckets that add up |
| Keeper labels | `plugin/shared_labels.go`, `keeper/client.go` | cached labels, the upstream's notes | refresh, update with read-back | a refused edit has no effect; an edit replaces what it checked; what `sharedLabels` lists as current is what was read last |
| management API, logs, view, SQLite I/O, C ABI, UI, scripts | rest of `plugin/`, `sqlite/`, `cmd/`, `scripts/`, `deploy/` | request logs, page state | formatting, queries, migrations | not modelled: I/O and presentation |

Interactions. An intercept call holds no lock between its critical sections:
`admissionsMu` guards the completion markers, `Store.mu` everything of the store,
and the order is `admissionsMu` before `Store.mu`. Usage arrives by a separate
call, before or after completion, possibly days later. Management edits run on a
copy of the state under `Store.mu` and replace it only after SQLite accepted them.

## 2. Modules

| module | models | built on |
|---|---|---|
| `Admission` | intercept calls, completions, slots | |
| `AdmissionProofs` | its theorems | `Admission`, TLAPS |
| `BindingPeriods` | periods, the mode in force at an instant, rescheduling, midnights; declares the clock and the periods of each key | |
| `GroupBinding` | scheduling by several administrators | `BindingPeriods` |
| `GroupBudget` | abstract: what a day's budget promises | |
| `GroupLedger` | usage accounting; implements `GroupBudget` | `BindingPeriods`, `GroupBudget`, `TokenAccounting` |
| `GroupBillingProofs` | theorems about schedules and ledgers, the refinement included | `GroupBinding`, `GroupLedger`, `TokenAccountingProofs` |
| `GroupCatalog` | groups, owners and group plans, in memory and in tables | |
| `KeeperLabels` | shared labels, against a Keeper others edit too | |
| `GroupStateProofs` | theorems about groups and labels | `GroupCatalog`, `KeeperLabels` |
| `DurableStore` | abstract: a store that writes everything or nothing | |
| `StoreWriteBack` | the write-back cache; implements `DurableStore` | `DurableStore` |
| `StoreWriteBackProofs` | its theorems, the refinement included | `StoreWriteBack` |
| `KeyQuota` | legacy plans, windows and cycles | |
| `KeyQuotaProofs` | its theorems | `KeyQuota`, `TokenAccountingProofs` |
| `ReferencePrices` | the shared download of reference prices | |
| `ReferencePricesProofs` | its theorems | `ReferencePrices` |
| `TokenAccounting` | pure: from reported counts to buckets and a cost | |
| `TokenAccountingProofs` | its theorems; induction over finite sets and numbers, and the lemmas on sums | `TokenAccounting` |
| `RoutePolicy` | pure: rules, their merging, what they say of a candidate | |
| `Routing` | routes, bindings, inventory, the choice of a credential | `RoutePolicy` |
| `SubsetScheduler` | the weighted round robin behind that choice | |
| `RoutingProofs` | theorems about rules, routes and the scheduler | `Routing`, `SubsetScheduler`, `TokenAccountingProofs` |
| `MC...` | instances for TLC | the module named |

Definitions like `ScheduleBlindly` or `SavedAlongside` that stand just before the
definition they vary, and that nothing refers to, are faulty versions of it: one
per property shows that the property notices the fault.

### Admission

A thread of `Calls` walks through `interceptBeforeAuth`: `Begin` (marker under
`admissionsMu`), `Check` (routing and mode), `Lock`, `AdmitLegacy` / `AdmitGroup`
(under `admissionsMu` and `Store.mu`), `AcquireSlot`, `Authorize`, `End`. Each is one
critical section of the code, so everything else interleaves between them: other
calls, `Complete`, a change of either concurrency limit, the midnight at which a
key's mode changes, and `Close`. `activeRequests`/`activeByScope` and
`groupSlots`/`groupActive` are the code's tables, the counters kept next to the slots
as the code keeps them, not derived. Left to choice: whether routing, pricing, the ledger or the quota
refuse. Not modelled: nested helper calls, which take neither marker nor slot.
Assumed: the host starts no intercept call of a request it has already reported
complete (the code cannot tell the two apart). A repeated `Configure` leaves the
slots alone and is no step; `Close` clears them.

### Binding schedule

`periods` of a key is a set of `[mode, from, until]`; the code's list is kept
sorted, and `OneModeAtATime` is what makes the set an equivalent reading. A
business day is named by the midnight that ends it (`NextMidnight`). `Look` is an
administrator loading the page, `Schedule` is `ScheduleGroupBinding` with the revision
that was seen, `SyncKeys` makes any set of keys live. The clock does not step back.

### Group ledger

A group stands for the models it lists. `RecordUsage` takes usage of any request instant up to now:
classification by the mode, publication and archival at that instant, then booking
on that instant's day, with costs that may be unpriced, too large for `costUSD`, or beyond `MaxInt` in the
sum. `ResetGroupDay` credits the day and sets the cutoff. `Publish`, `Archive`, `UpdateResourceGroup`,
`ScheduleGroupBinding` and `SaveGroupPlan` are administrators' steps. `Shown` and `Verdict` are the
usage page and admission, two evaluations of the same conditions in the code.
An event at the very instant of a reset or a publication counts in arrival order, as
in the code. Token sums have no consequence for anything and are left out. Writes succeed
here; failing ones are the next module's.

### Write-back

The value of a part of the state (a key, a ledger, the configuration) is the set
of changes applied to it, so a lost or doubled change shows. `Update` is
`updateResult`, `Edit` is `editConfiguration`, `AdmitGroup` the admission that
insists on a saved ledger; each may meet a failing write. `Write`/`WriteFails` rest on
SQLite: a transaction is atomic and one that reports failure left nothing.
`BeginConfigure` loads the snapshot before the lock is taken and `FinishConfigure`
swaps it in, so that calls run in between; a `Configure` of the same path is no
step. `Crash` loses memory and queue. `RecordWriteError` and `RecordWriteSuccess` are
steps of their own because the code makes them after it releases the lock. Normal
and failed requests share one queue here. Left out: retention, plugin log entries, and the
contents of the parts.

### Reference prices

A catalogue is reduced to the price it gives one model, the cache to that model's
entry. A call is a thread: `Resolve`, `Lookup`, `Miss`, `Read`, `Looked`, then
`Join`/`Waited`/`WaitTimesOut`, `SkipRefresh`, or `StartRefresh`, `Download`, `LoadMetadata`,
`Commit` or `RecordFailure`, `Publish`; then a second lookup, `Recheck` and `Return`. A reader
holds `storageMu` shared from `Miss` to `Read`; `Commit`, `RecordFailure` and
`CloseRetired` wait for it. What the server sends is any catalogue, every I/O may
fail. `Switch` and `CloseRetired` are the two halves of `Configure`. Custom prices appear only as an answer
`Recheck` may find; parsing and matching of catalogues are data; `Close`, after which
lookups have no manager at all, is not modelled.

### Legacy quota

`plans` maps the ids that exist to their windows; a window is floating (a cycle
begins with the admission that opens it) or anchored (cycles begin at multiples of the
period from `anchor`). `Authorize` is the last check of an admission and the only step that
opens cycles; `RecordUsage` takes usage of any instant up to now; `View` settles expired
cycles as the pages do. `CreatePlan`, `UpdatePlan`, `DeletePlan`, `BindKey`, `UnbindKey` and
`ResetQuota` are edits that are saved or leave no trace, with the key sets that the code
accepts. `SyncKeys` marks keys deleted and brings them back. Counts saturate at `MaxCount`, as
in the code. `log` and `opened` are history, for the properties only. The three
dimensions (amount, tokens, requests) behave alike; TLC runs with one.

### Groups and their owners

`groups` and `plans` are memory, `tables` what SQLite holds; `EditConfiguration` computes
the new configuration and what the transaction stores of it, and the constraints and triggers
of `group_schema.sql` (`OwnersAccepted`, `LifecycleAccepted`) may refuse it. `OpenPage` is an
administrator loading a group; every edit carries the revision of that page. `SetClock` moves the
wall clock in either direction, which is what makes the check in memory insufficient. A model
and its variant with a thinking option are two names (`Base`). Revisions of plans work
like those of groups and are left out.

### Routes, inventory and the choice of a credential

`RoutePolicy` translates `resolveRoutingState` and `AllowsCredential`: rules are merged into
one decision (`Merged`), and a candidate is judged by the metadata the host happens to give
(`AllowsCandidate`). `PermitsCredential` says the same rule by rule, for what the credential truly is. In
`Routing` a management request that names credentials is a sequence of critical sections
(`BeginEdit`, `ReadHost`, `PublishList`, `CheckRefs`, `Save`), and so is a choice (`BeginPick`,
`ResolveRouting`, `Choose`, `EndPick`); everything else interleaves. What
`GroupCredentialPolicy` answers is any pool, none or a refusal, because plan and group of the
key may have changed since. Left out: a disabled plugin, requests without a key, helper calls (all of
which leave the choice to the host before any of this), names and labels.

### Scheduler

`Pick` is `subsetScheduler.pick` under its mutex, `PickDirectly` the calls it is spared,
`Prune` the removal of keys that are gone. `current` and `weights` are the code's maps. `waited` is
history. A change of any offered weight resets the credits of the pool, and so does a pool
beyond `MaxPools`: waits count from there. A pool that has come to hold more than `MaxCredentials`
credentials drops the credits of those that are not offered; `dropped` is the history of what it lost.

### Keeper

One call at a time (`keeperMu`); its steps are the single HTTP requests, and the Keeper
changes between any two of them (`ForeignChange`, `LateWrite`). `Patch` may be refused, carried out, carried out
without an answer, or carried out later. `Saved` is the cache in the database.
`cached` belongs to the database in use. `App.configure` has two halves with calls in between: `Configure`
exchanges the database under `routingMu`, also while a call holds `keeperMu` (which then saves its labels in the
new one), and `Reconnect` resets client, age and error under `keeperMu`. `Databases` is what another file may hold.
`Restart` loses all but the database.

`Stale` is what `sharedLabels` tells of the labels it lists in the same section of `keeperMu`. Three
times the code shows labels as current that are not those of the last reading:

- If the local database refuses the labels an edit has read back, `keeperError` stays empty and the old labels
  go on being listed as current. `CurrentIsLastRead` excepts it (`unsaved`).
- Between the two halves of `configure` the labels of the new database are listed with the age of the old ones.
  `CurrentIsLastRead` excepts it (`configuring`), and says that nothing of it outlasts `configure`, not
  even through a call that was reading when the database was exchanged. Without that conjunct TLC finds the
  violation in a few steps: a refresh that saves, then `Configure` with another database.
- `groupUsage` (`shared_labels.go:118`) takes the label in one section and asks whether it is stale in
  another. A refresh in between makes an old label current, however old. Nothing is claimed of usage pages,
  and the two sections are not modelled: a page changes nothing. The pages that show cached labels without
  telling their age (`account.go:59`, `admin.go:32`, `routing_credentials.go:330`) are left out too.

### Token accounting

`UsageBreakdown` is `usageBreakdown` with its four conventions, on any 64-bit counts,
negative and contradictory ones included; `Sum` is `checkedTokenSum`. `UsageSemantics` decides by the markers
that the names of provider and executor contain. `ComputeCost` bills at integer rates: rounding is left
out, and so is the fast-mode multiplier of codex. There is no state.

## 3. What the runs show

| run | instance | states | shows |
|---|---|---|---|
| `admission` | 2 calls, one request with and any without an id, 1 key, 1 group, limit 1 | 86,792 | counters equal slots, one slot per request, a refused one has none; no slot after completion; an admitted request keeps its slot; calls return, slots drain |
| `binding` | 1 key, 2 administrators, 2 plans, 3 days of 2 instants, 4 revisions | 8,732 | exactly one mode at every instant, history fixed, no lost update |
| `ledger` | 2 events, 4 instants in three days, amounts 1 and 2, `MaxInt` 2 | 243,898 | late usage across midnights and resets counts where it belongs, the ledger reconciles with the events, overflow included, and `GroupBudget` is implemented |
| `writeback` | 1 caller, 2 parts, 3 usages, 1 edit, 2 files, queue of 2 | 549,670 | nothing is forgotten, doubled or half stored; refused edits vanish, acknowledged ones last; `DurableStore` is implemented |
| `writeback_atomic` | 1 caller, 2 parts, 2 usages, 1 edit, 1 file, queue of 1 | | the disagreement of section 5 |
| `quota` | 1 key, 2 plans, 2 window ids, 7 drafts of windows, instants 0 to 3, 2 records | 147,065 | cycles fit their plan and count exactly their own usage, end only by rule; `RetryAt` is exact |
| `prices` | 2 calls (admission, manual refresh), 2 databases, 2 instants | 4,643,431 | answers were offered by the database in use during the call, cache and memory agree with the database, at most one download begins at an instant, no write after close |
| `prices_live` | 2 calls (admission, usage, ensure), 1 database, 3 instants | 186,059 | calls return |
| `routing` | 1 route, 1 key, a file and a configured credential, 4 rules, 3 offers, 1 session | 1,881,792 | bindings and ids resolve, denials win, what is chosen was permitted |
| `scheduler` | 3 credentials, weights 0 to 2, 2 pools of which one is kept, with room for 2 credentials | 85,180 | a credential is picked at the latest at its sixth offer; credits balance but for those dropped |
| `keeper` | 1 Keeper, 2 rows, 2 credentials, 1 foreign change, 1 late write, another database | 8,951,380 | a refused edit has no effect, an edit replaces what it checked, labels listed as current are the ones read last |
| `catalog` | 2 groups over a model and its variant, 1 plan, 2 administrators, 3 instants, 4 revisions | 1,598,250 | one owner, past owners fixed, what is published was seen, a restart changes nothing |

A property named for a promise may conjoin parts that stand before it: `SlotsBalance`,
`ExactlyOneMode`, `LedgersMatchEvents`, `ReferencesResolve` and `NoneStarves` do. The
`ledger` run also evaluates the claims of `TokenAccounting` over every record with counts from
-1 to 2, totals up to 3 and integers up to 3, under every convention (`SmallRecordsAreAccounted`).

Why these bounds are enough. The faults at stake are races of two actors: two calls
meet every pair of critical sections, with a third actor
(`Complete`, an administrator, `Close`) always enabled. The `admission` run has one named
request because two of them under fairness exceed what TLC can finish; what concerns several requests
(a limit shared by them, counters) is proved for any number. Two instants in a business day are the
fewest that put something before and after a reset inside a day, and a third day
lets late usage skip one. `MaxInt` 2 with amounts 1 and 2 reaches the exact
limit, and exceeds it, with one and with two events. A queue of 2 with three usages discards
one (`MaxPending` stands for 1000). In `quota` the drafts differ from each other in exactly one of period, anchor and limit, or in
all, so an edit meets every case of a kept and of a replaced window; anchors lie before, at and after
the binding; `Horizon` 3 outlasts the period 2. In `prices` the instants are the age at which a catalogue turns stale
(`FreshFor` 0: anything older than this instant) and `MissFor` differs from it in `prices_live`.
In `routing` the two credentials differ in source and provider, which are what rules and incomplete offers tell
apart. Three credentials are the fewest of which two can compete while the third comes and goes, and one more than the pool keeps (`MaxCredentials` 2). In `keeper` two ids hold two
subjects of one kind, so that a row can change its subject, and another database holds an older value of one. In `catalog` three instants put a publication
before, at and after another although the clock stepped back. Bounds for TLC only: `MaxRevision`, `MaxEvents`, `MaxRecords`, `Horizon`,
`MaxRefreshes`, `MaxForeign`, `MaxLate`, `MaxConfiguring`, and `WaitBound`, the claim of the run. Where deadlock is not
checked, one of them ends the run, or every actor may rest: none of them stops a call under way.

Fairness. `admission`: a goroutine that can go on does (WF on each step); a
mutex is granted to one who keeps asking (SF on `Lock` and `End`: Go's `sync.Mutex`
hands over to a waiter after a millisecond); and the host reports every request complete (SF on its first completion). `prices_live`: WF on each call, because downloads, SQLite calls
and waits all carry deadlines; SF on `Commit` and `RecordFailure`, because a
`sync.RWMutex` makes new readers wait behind a waiting writer. No fairness is
assumed of administrators, of the clock or of success. `NoneStarves` needs none: it bounds
the wait in offers.

## 4. What is proved

TLAPS proves, for every value of the constants, the theorems listed in
`PROJECT.json`. The assumptions are those named in the modules (disjointness of
model values, positive bounds, midnights that lie after their instants).

*Admission* (`AdmissionProofs`). `NoSlotAfterCompletion` and `OneSlotPerRequest` are not
inductive: they depend on who may still be between two critical sections. The
invariant adds what each program counter guarantees (`Coordinated`, `MarkerCountsCalls`:
the marker exists exactly while calls of the request are in flight, and it remembers a completion
that passed them), and `CountersExact` needs the cardinality of the slot sets, for
which the lemmas on adding and removing one slot are cited. `LimitsHold` follows
from the counters.

*Binding* (`GroupBillingProofs`). Disjointness of periods is
preserved by `Rescheduled` only together with `OnlyTheNextMidnight`: no boundary
lies beyond the coming midnight. The pure lemmas say what scheduling keeps and
cuts; the step proof cites them. `NoLostUpdate` adds `ViewsLag`: what a session shows is the current schedule
or has an older revision, so comparing revisions is as good as comparing schedules.

*Ledger* (`GroupBillingProofs`). Type correctness carries the overflow argument
(an addition that would not fit is not booked), and `ClassesStay` rests on the history
theorem of the schedule: a record's class is a function of instants that later
steps cannot change. `LedgerImplementsBudget` maps each step to a charge, a
forgiveness, a closing or a stutter. That the amounts are the sums of the events they came from
(`RawReconciles`, `UsedIsSinceReset`, `CompleteMeansPriced`) needs `Accounted`: the events are finitely many, the
sums hold of every group's day, and each event that has no price that could be booked is counted as missing. A new event adds itself to one day's sum; a reset moves the cutoff past every event so far.

*Sums and induction* (`TokenAccountingProofs`). The induction theorems of the library take a predicate as a
parameter, which the provers cannot instantiate. Here induction goes over sets instead of predicates
(`NumberInduction`, `SubsetInduction`, from the minimum of a set of numbers), and with it the sums over finite
sets that the models use are shown to add up (`SumAdds`, `SumTakesOut`, `SumsAgree`, `SumMonotonic`).

*Write-back* (`StoreWriteBackProofs`). The invariant is `TypeOK`,
`AdmittedOnSavedLedger` and `Consistent`: only dirty parts differ from disk; a snapshot being
loaded is what its file holds; disk holds nothing memory lacks; neither holds a
refused edit; an acknowledged edit is on the disk it was made to. Every action is then
shown to have one of few shapes (`KeptStep`, `StoredStep`, `IdleStep`, the swap, close and crash) and the
invariant is proved per shape. `StoreIsDurable` needs `OnlyDirtyDiffers`: writing the
dirty parts equals writing all of them. `LedgersMatchEvents` adds `EventInv`: no event is stored or waiting twice,
nor both; every event that came in is stored, waiting or dropped by the bound; and a charge in
memory has its event in one of those places.

*Tokens* (`TokenAccountingProofs`). No state, so no invariant: each convention is split by
the checks it makes before it subtracts, and the sums that did not overflow are shown to be the
sums. `UsageIsValid` is what the rest of the program relies on (a record that is not `Valid`
would be dropped), `ReportedTotalIsBilled` that a billed breakdown agrees with the host's own total,
`EachTokenIsBilledOnce` that no token is in two buckets, `ZeroMeansNothing` that reported
usage is not billed at nothing, with the one exception it names.

*Quota* (`KeyQuotaProofs`). `CyclesReload` rests on the alignment of anchored windows: rounding
an instant down to the period gives a cycle that contains it and that the loader accepts
(`Aligned`, `NewCycleIsValid`). Edits of plans need one fact more, `BoundIsKnown`: a key with a plan has
a record, so that deleting the plan meets every key bound to it. `PreparedKeepsCycles` says what an edit of a plan
keeps, and with it `CyclesEndByRule` follows action by action. `UsedIsSinceOpening` adds `Counting`: each open
cycle has charged exactly the records that came in since it was opened and lie in its time, saturation included
(a saturated sum stays what the sum of all would saturate to). `RetryIsExact` takes the last
end among the exhausted windows, a maximum that exists because a plan has finitely many; before it one of them
still blocks, from it on none does.

*Groups* (`GroupStateProofs`). `PublishedAsSeen` needs only that a page shows the current or an
older revision of its group. `OneOwner` is what the constraints of the tables accept, so it holds
although the wall clock may step back. `PastOwnersFixed` follows from the shapes of the
edits (`Edited`, `Untouched`): an ownership begins or ends at the present. `RestartRestores` needs two facts more: the owners
the tables hold are of known models (`Mirrored`), and what an edit leaves alone in the tables it leaves alone in
memory too (`Grows`).

*Keeper* (`GroupStateProofs`). What a call may rely on is stated per step (`KeeperInv`): the label it chose, if nobody else has
changed the Keeper since the reading, is the one the Keeper holds, on a row of its subject (`CheckIsFresh`); a write
that was answered belongs to the reading back that follows it (`TouchedWhileReadingBack`), so no later failure is told
as a refusal; and until the call has asked the Keeper, or a database is opened, the cache is the last reading (`ShownIsLastRead`):
a database opened during a call is followed by `Reconnect`, whose age of 2 only a later reading makes younger. The
assumptions on the constants say that the initial rows are of the kind of their subject.

*Prices* (`ReferencePricesProofs`). `OneDownload` holds because a refresh that ends at an instant leaves metadata
by which no other refresh but a manual one is due at that instant (`Settled`), and while one is under way it
is the flight's (`Refreshes`); `ManagerSound` and `Sound` relate the cache, the metadata and the
locals of every call to the database at every program counter. `Offering` carries what the database in use offered
during a call, from which `AnswerWasOffered` follows.

*Routes* (`RoutingProofs`). That a merged decision agrees with its rules one by one, for credentials of
which the host tells everything (`CredentialsAsPermitted`), and that leaving metadata out never permits more
(`HidingNeverPermits`), give `DenyWins`, and with the candidates collected by `Choose` `AnswerIsPermitted`.
Assumed of the constants, as of the strings of the code: models, credentials and metadata are
different things. `ReferencesResolve` is inductive with the types of the sessions alone: each edit cleans up
the bindings, live or deleted, in the same critical section, and each update of the inventory keeps what the
configuration and the raw ids lead to.

*Scheduler* (`RoutingProofs`). `CreditsBalance` for any number of credentials and pools (`CreditsAlwaysBalance`): what is
offered gains together what the one that is picked pays, for which that one must be among the offered.
The attempt to prove that credits always sum to zero failed at pools larger than `maxCredentialsPerPool`,
where `pick` forgets the credits of absent credentials; the invariant accounts for these, and the run now
has such a pool.

`NoneStarves` (`NobodyStarves`), for any weights up to some `MaxWeight` and any number n of credentials, rests on how far
credits can drift apart (`Spread`): for every k of the credentials, what they are owed together, or owe together,
is at most half of w k (2n - k), where w = n `MaxWeight` is the most that an offer brings. A bound on single credits
alone is not inductive: a credential that is absent keeps what it is owed while the others pay each other. The bound
on sets is, because k (2n - k) is concave. Take a set without the one that is picked: the members that were offered
stand no higher than it, so their sum is an average of two sums, over a smaller and a larger set, that the
bound holds for (`OthersStayBelow`); the mirror image bounds the debt of a set that contains it (`WinnersStayAbove`). The
bound grows with k, so forgetting credits, all or some, keeps it (`ForgettingKeepsSpread`). With it, what a credential has
waited is at most its credit plus w (2n - 1) / 2 (`WaitIsOwed`): each offer that passes it over leaves it at least one
credit, and credits start anew no lower. So no wait exceeds n `MaxWeight` (2n - 1), and no sum that `pick` computes does
either (`CreditsStayBounded`): the model's integers are those of the code while that is below 2^63. The theorem's
bound is not sharp: for the three credentials of the run it is 30, and TLC shows that 5 is enough.
TLC agreed to `Spread` and `WaitIsOwed` on the run's instance before they were proved.

Only model-checked: all liveness (`CallsReturn`, `SlotsDrain`, the calls of `prices_live`), which is out of the
prover's reach. Every invariant and every action property of a passing run is stated by a theorem.

## 5. Where code and comments disagree

`writeback_atomic`: `group_schema.sql:121` says that cost, classification and the original event
"commit atomically". The bounded queue of `repository.go:105` discards the oldest pending
events during an outage and keeps what they were charged to, so the write that follows
commits a charge without its event. `LedgersMatchEvents` holds the part that is true: an event is missing
beside its charge only if the bound discarded it.

Three more are stated in `StoreWriteBack` and no run of the table checks them. Each is
violated with the constants of `MCStoreWriteBackAtomic.cfg`, `MaxPending` 2, and the property in
place of the one there (the first as a PROPERTY, the others as INVARIANTs):

- `PendingIsRetried` (with two files): `store.go:174` says that pending changes "are retried on the next write";
  `Configure` to another file drops them (`store.go:121`).
- `QuietDuringOutage` (with two callers): `store.go:290` says "stay quiet until a write succeeds"; success is
  recorded after the lock is released (`store.go:203`) and may clear an error that came later.
- `OnsetIsReported`: `store.go:290` says "Report the onset"; `AdmitGroup` saves without recording
  the success (`group_account.go:43`), so the next outage counts as a continuation.

## 6. Not modelled, and the plan

Out of scope: the management API's parsing and formatting, request logs and
analysis (queries and retention, nothing is decided by them), schema and migrations, the C ABI, the page,
scripts. SQLite's atomicity is an assumption. Floating-point rounding of costs is out of
TLC's and the prover's reach.

Partly modelled, and why: in the write-back store the retention of old records and plugin log entries
(they touch no decision); in prices the parsing and matching of catalogues and the edits of custom
prices (data); in routing the display of authentication files.

Left out of modelled parts: the number of tokens that a ledger shows, and with it that an overflow of this sum counts
the day as incomplete (`group_account.go:204`), which makes no other claim about a ledger wrong; and configured
credentials under references of other credentials: `SyncConfigured` takes references that stand for configured
credentials, although the endpoint (`routing_credentials.go:228`) accepts every well-formed one. That
the page which sends them derives them from the configuration is an assumption.

What is left: paging over request events while retention removes them.
