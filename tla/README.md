# A TLA+ model of tracer

tracer decides financial transactions in real time. A client posts a transaction to
`POST /v1/validations`; the service evaluates the active rules (CEL expressions held in an
in-memory cache), checks and charges spending limits (usage counters in PostgreSQL), stores
the decision and an audit event in a hash chain, and answers ALLOW, DENY or REVIEW. Several
instances of the service share one database.

This directory holds the specification of the service, the configurations that model-check
it, and machine-checked proofs of the main results. Paths below are relative to the root of
the repository.

## 1. Inventory

| Part | State it keeps | Operations | Talks to |
|---|---|---|---|
| Validation flow (`internal/services/validation_service.go`, `transaction_validation_repository.go`) | `transaction_validations`, one row per `request_id` (unique index) | `Validate`: duplicate check, rules, limits, persist, audit, commit; `handleConcurrentDuplicate`; best-effort persistence of refusals | rule cache, limit checker, audit trail, one database transaction |
| Limit checking (`internal/services/query/limit_checker.go`, `usage_counter_repository.go`) | `usage_counters(limit_id, scope_key, period_key)`; `limits` | page through the active limits, match scopes, skip by window, per-transaction check, atomic upsert with a guard, usage snapshot | called in the transaction of `Validate` |
| Audit trail (`audit_event_repository.go`, `migrations/functions/000001*`, `000002*`) | `audit_events`: id, hash, previous_hash | insert with deduplication, hash trigger under an advisory lock, verification of the chain | every transaction of `Validate`, every rule and limit command |
| Rule commands (`internal/services/command/*_rule.go`, `rule_repository.go`) | `rules`: status, updated_at, contents | create, update, activate, deactivate, draft, delete | rules table, then the rule cache |
| Rule cache and warm-up (`internal/services/cache`) | map of active rules, ready flag, time of last sync | `SetRules`, `ApplyChanges`, `UpsertRule`, `RemoveRule`, `MarkReady`, `GetActiveRules` | read by every validation; written by commands, warm-up, worker |
| Rule sync worker (`internal/services/workers/rule_sync_*.go`) | `lastSync` | poll with an overlap buffer, classify, apply | rules table (through the circuit breaker), rule cache |
| Circuit breaker (`pkg/resilience`) | closed, open, half open; failures in a row | `Execute` | rule sync worker |
| Limit commands (`internal/services/command/*_limit.go`, `limit_repository.go`) | `limits` | create, update, activate, deactivate, draft, delete | read by the limit checker outside its transaction |
| Usage clean-up worker (`usage_cleanup_worker.go`) | none of its own | deletes expired counters in batches | `usage_counters` |
| Rule evaluation (`evaluate_rules.go`, `complete_evaluator.go`, `pkg/model/decision_maker.go`) | none | load, cut to a maximum, evaluate, precedence DENY over REVIEW over ALLOW | rule cache, CEL adapter |
| Scopes, periods, time windows (`pkg/model`) | none | pure functions of request, limit and clock | limit checker, rule evaluation |
| Lists and cursors (`internal/services/query/list_*.go`, the repositories' `List`, `pkg/net/http/cursor.go`) | none on the server; the client holds a cursor | keyset pagination of rules, limits, validations, audit events | the tables, while others change them |
| HTTP handlers, routes, guard (`internal/adapters/http/in`) | none | check, call the service, map its error to an answer | all services |
| Bootstrap, migrations, health (`internal/bootstrap`, `pkg/migration`, `health.go`) | migration lock, version table, connection | `InitServers`, function migrations, readiness probe | the database, the cache |

What is hard to test here, and what the properties are for (`PROJECT.json` lists every
hazard at its line):

* two calls with one `request_id` that both pass the duplicate check, and the counters, the
  unique index and the audit lock they then meet in turn;
* a crash, a failed statement or a lost reply at any point of the transaction of `Validate`,
  and the client's retry; rows locked one after the other, and everyone waiting;
* a limit that is listed outside the transaction and changed before the upsert uses it, and
  a clock that crosses a period between the check and the commit;
* ids from a sequence that are given out before the lock that orders the hash chain;
* rule and limit commands that read, change and write without a transaction, on several
  instances, against a cache that is also written by a poll working on a copy;
* a stamp taken before the statement that makes it visible, and a poll that asks by stamp;
* counters that a clean-up deletes while a transaction may still charge them;
* pages of a list between which rows come, go and move;
* instances of different releases that migrate, fail and start over at the same time, and
  the time a circuit breaker and a stale cache take to be noticed and to recover;
* a cache that changes while a transaction is evaluated, cut to the first rules of a map;
* an answer that has to tell what was done when the row changed under the handler.

## 2. Modules

| Module | Models | Proofs |
|---|---|---|
| `SpendLedger` | the promise of `POST /v1/validations` about money: abstract specification | |
| `Validation` | `Validate`, the limit checker and the repositories, statement by statement; shown to implement `SpendLedger` | `ValidationProofs` |
| `EventChain` | the promise of the audit trail: abstract specification | |
| `AuditChain` | insert, trigger, deduplication, verification of `audit_events`; shown to implement `EventChain` | `AuditChainProofs` |
| `RuleSync` | rules table, rule commands, cache, warm-up, sync worker | `RuleSyncProofs` |
| `LimitLifecycle` | limits table, limit commands, charges, clean-up of counters; shown to implement `SpendLedger` | `LimitProofs` |
| `Listing` | the four lists and the loop of the limit checker, with their cursors | `ListingProofs` |
| `Instance` | start-up, function migrations, polls behind the circuit breaker, readiness | `InstanceProofs` |
| `Evaluation` | evaluation of the rules for one transaction; scopes, counter keys, time windows | `RequestsProofs` |
| `Requests` | one HTTP request from arrival to answer; extends `Evaluation` | `RequestsProofs` |
| | lemmas about sums over finite sets | `SumTheorems` |
| `MC*` | instances for TLC | |

`Requests` composes the handlers with `Evaluation`. The other modules look at one component
each and take from its neighbours what they promise: `Validation` takes any decision of the
rules, `LimitLifecycle` takes a charge as one step because `Validation` implements the
ledger, `Instance` takes a poll as a success while the database answers because `RuleSync`
has what a poll does, `Listing` takes the changes of a table as any change.

Definitions named `... Mutant of X` in comments are plausible bugs of X. They are used by
nothing; putting one in place of X makes the property that `PROJECT.json` names with it
fail.

### Validation

An *attempt* is one call of `Validate`. Each action is one statement of its goroutine to the
database, in the order of the code: `CheckDuplicate` (Step 0), `EvaluateRules`, `ListLimits`
(BeginTx and `limitRepo.List`), one `CheckWithoutCounter` or `UpsertAndIncrement` per limit,
`RollbackRefused` or `LimitsPassed`, `InsertWithTx`, `AuditWithTx`, `Commit`; a refusal goes
through `PersistRefusal` and `AuditRefusal` outside a transaction; a unique violation leads
to `HandleConcurrentDuplicate`. `Fail` and `Crash` may replace any statement when `Faults`
holds; a commit whose reply is lost is a branch of `Commit`.

PostgreSQL is external and modelled from how the code uses it, at READ COMMITTED: `counter`,
`record` and `audit` are the committed rows, `pending` and `locked` what an open transaction
wrote and locked; a statement that meets an uncommitted row waits, which is a guard
(`CounterFree`, `RequestFree`, `AuditFree`). The counters of a request are a table
(`Matches`, `Bucket`, `Window`) in place of scope keys, period keys and time windows, and the
rules come to any decision of `RuleDecisions`. The limit commands are single steps here.

`SpendLedger` has no handlers, transactions or locks: a request is decided once; an allowed
request is charged to all its counters in the instant it is decided; a refused one to none;
no charge passes the highest maximum a limit has had. The refinement mapping takes the
committed counters as they are and the stored decision as the verdict.

### AuditChain

A writer is a transaction that inserts one audit event. `Begin` evaluates WHERE NOT EXISTS
and takes the id from the sequence; `HashAndInsert` is the BEFORE INSERT trigger once the
advisory lock is granted, followed by the unique index; `Commit` and `Rollback` release the
lock. A hash is taken to name its row (SHA-256 over a unique event_id and the previous hash),
so `previous_hash` is the row it was copied from. `Broken`, `IsValid` and `FirstInvalid` are
the loop of `verify_audit_hash_chain`. Its recomputation of the hash of a row from its
columns cannot fail when nobody tampers and is folded into the comparison of previous hashes.

`EventChain` has no ids, transactions, lock or trigger: events are added one at a time, at most
one for a validation, each hashed onto the head of the chain as it then is, and stay as they
are. It promises less than a list: an event may be added without becoming the head, and is then
a leaf. That is what a row with a smaller id than the last one is, and why the verification
fails. The mapping takes the committed rows as the events, `previous_hash` of these, and the
row `ORDER BY id DESC LIMIT 1` finds as the head.

### RuleSync

One instance of the service, with the commands it runs (`Local`) and those of other
instances. A command is `Read` (GetByID and its checks), `Stamp` (SetStatus, Update and the
other changes in memory, which set updated_at), `Write` (the UPDATE, with its only condition
`deleted_at IS NULL`) and, for activate and deactivate of this instance, `WriteThrough`. The
instance is `WarmUpQuery`, `WarmUpApply`, `StartWorker` and then `QueryDelta`, `Classify`,
`Apply` for ever; `Restart` empties it. Failed polls, also those the circuit breaker rejects,
change nothing and are stuttering steps. A rule's contents are the command that last set them.

Two clocks matter, the one that stamps and the one that commits. `Lag` bounds the ticks from
the stamp of a command to its end, `Cycle` those from the query of a poll to its end. They
are assumptions, not guarantees of the code: a change that becomes visible later after its
stamp than the overlap buffer (`rule_sync_worker.go:174`) is never fetched.
Commands on one rule overlap in every way, of this instance and of others: nothing in the
code serialises them, and a write-through may come after another instance's commit on its
rule. What a poll can repair of that is what its comparison of stamps lets through: two
commands may commit in the order opposite to their stamps, the table then holds a row that
is older than one that was committed before it, and a cache that has the newer one keeps it.
`RowIsLatest` says that this is not so of a rule, and `InStep` that the cache has the row of
the table when it is not; what is said of a single poll speaks of `InStep`. `CacheConverges`
speaks of all rules: the one difference that stays is `HeldBack`, an active rule of which the
cache has a copy stamped like the row or later. A rule that was made inactive leaves the cache
in whatever order its changes were stamped and stored, if `2 * Lag + Cycle <= Overlap`.

### LimitLifecycle

A command is `Begin` (the read, the checks of the command, and the change in memory, which
no other actor sees), `Write` (the UPDATE or INSERT with its conditions: `deleted_at IS NULL`
and the unique index on names in use) and `Audit` (the event, after the statement). A charge
is `ReadLimit` (the listed limit and the clock) and `Upsert` (the counter of that period,
with `expires_at`). The clean-up is `StartCycle`, then `SelectBatch` and `DeleteBatch` until
a batch is short, or `FailCycle`. Time is in days, and the clean-up compares `expires_at`
with the time its cycle began. `RetentionAssumption` states the one thing the code leaves
open: a transaction commits within the retention (seconds, and 90 days). The end of a custom
period may be moved by any time. `ends` remembers the ends a limit has had, and a limit is
`Stretched` from the update that moves its end so far that a counter charged before may expire
while more can be charged. That is the only way in which a counter of an open period is deleted
(`OpenPeriodKept`).

The module implements `SpendLedger` too, with charges as its requests and whole periods as its
counters. The mapping takes all that was ever charged in a period (`spent`, a history variable),
whether the counter still exists or not, and the outcome of a charge that has ended as its
verdict (`granted`): a service that deletes counters cannot be told from one that keeps them,
until a limit is `Stretched`. From then on `spent` counts nothing for this limit, and its
charges map to grants that charge no counter; the other limits go on as before.

### Listing

`GetPage` is one request of a session: the checks of the HTTP layer, the defaults, the query
service, the statement of the repository (filter, cursor condition, order with the id as
tie-breaker, one row more than asked for) and the cursor that comes back. `kind` says which
of the four lists, or the loop of the limit checker (`check`), the session is about; the
kinds differ in what is normalised, defaulted and refused where, and each keeps its own
definitions. `Insert`, `Update` and `Tick` are the others. `stable` remembers which rows have
been in view with the same sort value since the first page.

### Instance

An instance goes through `InitServers`: `Start` reads the settings (the checks are pure
operators), then `AcquireMigrationLock`, `ApplyMigration` in order, `ReleaseMigrationLock`,
`Connect`, `WarmUp`, `Wire`; `Fail` at any step, `Exit` at any time. While it serves, a poll
is due when `wait` runs out: `BeginPoll` asks the breaker (`Rejected`, `Admitted`), `EndPoll`
counts the outcome (`Trip`). `WriteThrough` is a command that touches the cache.
`Readiness` is the probe. The database has `Outage` and `Recovery`, time is `Tick`. Ages and
countdowns stop at a cap, so an instance may run for ever and nothing has to be cut off.
gobreaker is external: closed, open and half open as the wrapper configures it.

### Evaluation and Requests

`Evaluation` has the scopes, the keys of counters and the time windows as functions, and the
evaluation as steps: `BeginEvaluation`, `LoadRules` (copies of the rules in scope, at most
`MaxRulesPerRequest` of them in the order of a Go map, which is any order), `EvaluateRule`,
`Decide`, `CancelEvaluation`, with `ChangeCache` between any two of them. An expression is
the set of transactions for which it is true and the set for which its evaluation fails.

`Requests` has one action per endpoint (`CreateRule` to `VerifyHashChain`) up to its
statement, `Write` for the statement, and for `POST /v1/validations` the chain
`FindByRequestID`, the steps of `Evaluation`, `Evaluated`, `CheckLimits`, `Store`; `Fail` is
an error of the database. A body is the set of the checks it does not pass; the order of the
checks decides which error is answered, and the tables of the handlers
(`handleServiceError`, `handleLimitServiceError` and the others) turn it into a status.
The authorization plugin is external: the request says what it answers (nothing, 401, or the
403 the comments of the handlers do not list).
Other requests change or delete the row, take the name, charge and clean counters, change
the cache.

## 3. Runs

Passing runs:

| Run | Instance | Shows |
|---|---|---|
| `Validation_race` | 3 calls, two of one request, 2 limits with room for one request each; any statement may fail, any process stop, the reply of a commit may be lost | limits kept (`UsageWithinCeiling`), counters equal the stored ALLOWs charged to them (`CountersReconcile`), duplicates repeat the stored answer (`DuplicateRepeatsRecord`), an ALLOW that was answered is stored with its event (`AllowIsBacked`), row and event are stored together (`AllowTrailAtomic`), the ledger is implemented (`ImplementsLedger`), nobody waits for ever (`EveryCallEnds`) |
| `Validation_limits` | 2 requests, a counted and a per-transaction limit, 2 periods, the limit raised, lowered, activated, deactivated at any moment | stale limits and a period boundary do not separate a charge from its row (`CountersReconcile`, `ImplementsLedger`) |
| `AuditChain_chain` | 4 inserts, two of one validation | a chain nobody tampered with breaks exactly where a row was committed after a greater id (`FirstInvalidIsLate`), the trail is a chain to which events are added one at a time, and of a validation once at most (`ImplementsChain`), whoever has the lock releases it, so that nobody waits for it for ever (`EveryInsertEnds`) |
| `RuleSync_race` | 1 rule; 5 overlapping commands, failures, 1 restart | only committed active rows are cached (`CacheWasCommitted`), a deleted rule stays deleted (`DeletedIsFinal`) |
| `RuleSync_converge` | 2 rules; a local activate of one while another instance edits it, before, after or across it, so that the write-through may come late and rows may be stored against their stamps, and a local deactivate of the other; Overlap = 2 Lag + Cycle | of every rule whose row is the latest: a change the cache has not seen stays within reach of the next poll (`StaleIsInReach`), a poll that ends has repaired all that was changed before it (`PollRepairs`); of every rule: the cache agrees with the table in the end, or has a newer copy of an active row (`CacheConverges`) |
| `Limits_lifecycle` | 2 limits, one custom, 2 commands, 2 charges, periods of 3 and a retention of 2 days, batches of 1, 5 days; the end of the custom limit is moved within the retention or beyond it | events tell of stored changes (`AuditedWasApplied`), only a stretched limit loses a counter in an open period (`OpenPeriodKept`), the clean-up cannot be told from keeping every counter of a limit that is not stretched (`ImplementsLedger`), expired counters go (`ExpiredIsRemoved`) |
| `Listing_pages` | 4 rows, 2 sort values, pages of 1 or 2, all kinds and sorts, 2 changes, 3 days | nothing that stays in view is missed (`NothingMissed`), pages go on strictly where the last one ended (`InOrder`), the paging ends (`EveryPageAdvances`) |
| `Instance_life` | 2 instances, one with the migrations {1, 2} and one of an older release with {1}; settings that are refused; outages of up to 6 ticks | migrations run once and in order (`MigratedOnce`), nobody serves half started (`StartsWhole`), the breaker spares a database that is down (`LoadBounded`), the cache is fresh in time after it is back (`RecoversInTime`), an outage is reported, at the latest a threshold after the last write-through that hides it (`SilentOutageReported`), no instance that fails or stops with the migration lock keeps another waiting (`EveryStartEnds`) |
| `Requests_answers` | every endpoint, with up to two defects in a body, 3 rules of 4 versions cut at 2, one change of the cache, 2 steps of others, 3 counters | the answer tells what was done (`AnswerTellsEffect`), a 5xx has a reason that is not another request (`ServerErrorsExplained`), the usage shown is not below the current one (`UsageNeverUnderstated`), decisions are those of the rules loaded (`DecisionByPrecedence`), a failed rule decides nothing (`FailsClosed`), a cut is flagged (`TruncationTold`), limits apply where their scopes say, but for the merchant (`LimitScopeAgrees`), transactions one scope counts together share a counter (`CountersNotFragmented`), windows go past midnight (`WindowIsCyclic`) |

Runs that must fail, each on a statement the repository makes:

| Run | Statement | What the code does |
|---|---|---|
| `Validation_duplicate_decision` | "Returns ValidateResult with IsDuplicate=true for duplicate requests" (`validation_service.go:129`) | a duplicate that waited for the counter of the first attempt is refused by it and answers DENY as a new validation, while the first answers ALLOW |
| `AuditChain_verify` | "Returns true if chain is valid, false if tampered" (`000002_verify_audit_hash_chain.up.sql:4`) | two honest inserts commit in the opposite order of their ids and the verification reports the second |
| `Listing_resume` | "Contains all information needed to resume pagination from a specific point" (`pkg/net/http/cursor.go:18`) | the second page of a list of limits, validations or audit events in another order than the default is refused with TRC-0044, and the sort may not be repeated (TRC-0045) |

### Bounds

* Validation: three calls are a duplicate pair and a competitor, the smallest group in which
  a duplicate, a rival for a counter and a third party waiting for both occur; two limits
  give the order in which locks are taken; amounts 2 and 3 against a maximum of 4 make one
  request fit and two not; two times give one period boundary. Calls are made once: a retry
  is another attempt with the same request.
* AuditChain: four writers, so that a row can be committed before, between and after two
  that are out of order, with a duplicate pair among them. Ids are bounded by the writers.
* RuleSync: `MaxTime` leaves room for a stamp, a write, a query and the end of a poll within
  `Lag + Cycle`, with polls after it whose overlap no longer reaches the first stamp. Two
  commands on one rule, one of them local, are the fewest with a late write-through and with
  rows stored against their stamps; a row is `HeldBack` only after two more edits, so in this
  run the cache comes to agree with the table on every rule. `RuleSync_race` restarts the
  instance; in `RuleSync_converge` it starts once, while commands of the other instance run
  (the theorems cover restarts). At `MaxTime` commands can no longer stamp, and the worker goes
  on polling, which is what `CacheConverges` speaks of.
* LimitLifecycle: `MaxTime` 4 is longer than the first custom period with its retention of two,
  so counters of the custom limit expire, are renewed and are deleted within a run, and crosses
  a period of three days of the other, whose counters do not expire in it (the theorems cover
  both); two charges of 2 against a maximum with
  room for one make a forgotten counter show; batches of one make the clean-up loop.
* Listing: four rows in pages of one or two make several pages, two values make ties within
  and across pages, two changes move a row away and back, three days move the default range.
* Instance: the threshold, the open time and the staleness are two, so that each of them is
  passed within an outage and a recovery; `MaxOutage` is longer than a full turn of the breaker; `MaxSteady` is a cap above
  every time it is compared with.
* Requests: two defects decide the order of any two checks. One step of others lies between
  any two steps of the handler, and two make a row change and go.
* Symmetry is not used: attempts, writers, commands and rows differ in what they carry.
* `CHECK_DEADLOCK FALSE` in the first five modules (Validation, AuditChain, RuleSync,
  LimitLifecycle, Listing): calls, commands and sessions are finite in number, and the system
  rests when they are over. That none rests too early is what `EveryCallEnds`,
  `EveryInsertEnds`, `CacheConverges` and `ExpiredIsRemoved` say. Instance and Requests are
  checked for deadlock: an instance can always go on, and a handler that could not go on
  before its answer would be one.

### Fairness

* Validation: weak fairness of `Step(h)` for each attempt. The Go scheduler runs a goroutine
  that can run and PostgreSQL executes a statement that nothing blocks; waiting for a lock
  is not being enabled. Failures, administrators and the clock are not fair.
* AuditChain: weak fairness of `HashAndInsert(w)`, a statement that can go on, and of
  `EndLocked(w)`, the end of a transaction that has the lock: `Validate` defers its rollback,
  the other inserts are statements of their own, and the server rolls back when a connection
  is gone. A statement that waits for the lock is not assumed to give up: that it goes on is
  due to the release of the lock alone.
* RuleSync: weak fairness of `Worker` only: the ticker fires again and again and polls
  succeed again and again. Commands may stop anywhere.
* LimitLifecycle: weak fairness of `StartCycle` (the ticker), strong fairness of
  `SelectBatch` and `DeleteBatch`: a cycle may fail, and is tried again at the next tick, but
  not every statement fails for ever.
* Instance: weak fairness of the next step of a start, which fails instead when the database
  does not answer; strong fairness of `AcquireMigrationLock`, as PostgreSQL grants the lock in
  the order of its queue. The timeout of the wait is not assumed to end it. The orchestrator
  need not start an instance, and the database may stay down as long as an outage lasts.
* Listing and Requests state safety only.

## 4. Proofs

All theorems hold for every value of the constants that satisfies the named ASSUMEs: the
shape of the tables, positive amounts (the validator of the request) and maxima, limits
numbered in list order, a `None` that is no value, and where said below bounds on time.

* `ValidationProofs`: `TypeCorrect`, where TypeOK is inductive only together with
  `RefetchFinds` (a call in `handleConcurrentDuplicate` has a row to copy).
  `IsolationHolds`: open transactions never share a counter. `UsageHolds` from `CounterInv`,
  which adds that maxima and the copies of them that calls have read are below the ceiling,
  and that an uncommitted increment still fits its counter (`PendingFits`), because isolation
  keeps the counter from moving until the commit. `AtomicHolds`, `BackedHolds`,
  `DuplicateHolds` from `TrailInv`, with `RequestHeld` (a transaction that inserted its row is
  alone with that request), `Decided` (only ALLOW is persisted inside the transaction, only
  refusals outside), `OwnRow` and `NoEventYet`; `ImmutableHolds` is the action property from
  the same invariant.
  `ReconcileHolds` (`CountersReconcile`): the table of counters and the sum over the stored
  ALLOW rows move together. `Commit` is the one statement that moves either: `TrailInv` says
  the row it stores is new (`RequestHeld`, `OwnRow`) and is an ALLOW, so the sum gains one
  summand (`ChargedTo`), and `TypeOK` that `pending` holds what the request asked for on the
  counters in `locked`. The requests may be infinite in number; `FinitelyStored` says that only
  finitely many are stored at any time, without which the sum would mean nothing.
  `LedgerRefined` is the refinement: initial states map to initial states; `Commit` maps to
  `Grant` with the counters charged, `PersistRefusal` to `Refuse`, `UpdateLimit` to
  `RaiseCeiling` or nothing, every other action to nothing. It needs the invariants above and
  `OneKeyPerLimit` (`serverNow` is read once per check).
* `SumTheorems`: the sum over a finite set is a recursive function whose order of summation is
  a CHOOSE. `SumTake` says it is one element plus the rest, whichever element one takes,
  `SumMonotone` and `SumOfMap` follow. Induction over a set is an operator argument the
  provers cannot instantiate; here it is an argument about the least size of a
  counterexample (`LeastNatural`), which is a statement about sets of numbers.
* `AuditChainProofs`: `ChainInv` says ids are distinct, one transaction holds the lock and
  its previous hash is still that of the last row, and where every committed row hangs in the
  chain (`Linked`). `TypeCorrect` and `VerdictHolds` (`FirstInvalidIsLate`) follow from it;
  `DedupHolds` uses `Exclusive`.
  `ChainRefined` is the refinement: `Commit` maps to `Append`, every other action to nothing. An
  event's previous hash is still that of the head when it becomes visible, because the lock is
  held from the trigger to the commit; `OneLastRow` says that there is one head, so that the
  CHOOSE of the mapping means something, and `HeadIsLast` that it is the row the trigger reads.
* `RuleSyncProofs`: `TypeCorrect` with `DraftInv` (a running command has a rule in memory).
  `CommittedHolds` with `CommittedInv`: what the worker fetched, what a command is about to
  write through and the table itself are committed rows, and what waits to be applied is
  active. `DeletedHolds` is the action property. `ReachHolds`: if `Lag + Cycle <= Overlap`
  (`Timely`, the only hypothesis: commands and write-throughs overlap as they like), then
  whatever the cache has not seen of a rule whose row is the latest is within reach of the next
  poll. `TimeInv` bounds the stamps of running commands and polls, `OrderInv` says what a
  command may have in memory, and `ReachInv` that each rule whose row is the latest was either
  written so recently that the next query asks for it (`Recent`) or is on its way to the
  cache as it is in the table (`Placed`), at each stage of a poll. `RepairHolds` is what this
  comes to (`PollRepairs`): the cache after a poll has every such rule as it is in the table,
  but for those that were stamped within `Lag` of its query or later. It is most of the safety half of
  `CacheConverges`; that polls do end is left to the fairness TLC checks it under.
* `LimitProofs`: `TableInv` gives `TypeCorrect`, `DeletedAtHolds` (DELETED exactly when
  deleted_at is set), `NamesHold`, `AuditedHolds` and the action property `DeletedHolds`.
  `SpendingHolds` from `SpendInv`, for commands that may set any end: a counter that exists
  shows all that was charged to it, unless its limit is `Stretched`, and lives as long as one
  of the ends of its period and the retention (`CounterInv`); one that is gone was never
  charged or is `Closed`, that is, whoever read its limit within the period has ended or the
  limit is `Stretched` (`GoneInv`; `ChargeIsOpen`, from `ReadingInv` and
  `RetentionAssumption`, is what a charge meets).
  `OpenHolds` follows from it: the clean-up selects only what is `Closed`, and a custom limit
  with a counter that is `Closed` before the end it has now is `Stretched`.
  `LedgerRefined` is the refinement: `Upsert` maps to `Grant` or `Refuse`, `Write` to
  `RaiseCeiling` or nothing, the clean-up and the rest to nothing; a charge to a limit that is
  `Stretched` is a `Grant` of no counter. It needs `SpendInv`, by which
  the guard of the upsert compares with all that was charged, and `UnderWay`: a charge that
  reaches its counter is one that has not been decided.
* `InstanceProofs`: `TypeCorrect`; `MigrationsHold` and `StartHolds` from `LifeInv` (the
  instance that migrates holds the lock, and what it has to apply is what is above the stored
  version, for any number of instances and releases); `ProbeHolds`, `RecoveryHolds` and
  `LoadHolds` from `PollInv`, which relates the age of the cache, the countdown to the next
  poll, the time since the breaker opened and the length of the outage. The bound on load is
  nonlinear in the constants, so its arithmetic has lemmas of its own.
* `ListingProofs`: all four properties from one invariant, `IInv`. The cursor the client
  holds separates what was delivered, which is not after it (`SeenBehind`), from what is to
  come: a row that stayed in view with its sort value was delivered or is after the cursor
  (`StableAhead`). A page is the first rows of `Rest`, the rows in view after the cursor, in
  the session's order (`PageOf`, for each kind of list, whose normalisation, defaults and
  refusals differ), and the next cursor is its last row, so `ListsAreComplete`,
  `PagesAreInOrder` and `PagesAdvance` (`Counted`) follow. `CursorFits` is why it works at all:
  a cursor that is accepted is about the sort of the session. Assumed are a page size that is
  a number or absent, and a table with finitely many rows.
* `RequestsProofs`, the evaluation: `DecisionHolds`, `FailsClosedHolds`, `TruncationHolds` from
  `EvalInv` (from `LoadRules` on the evaluation is about copies: `LoadedInv` for what was
  loaded, `EvaluatedInv` for what has been evaluated); `LimitScopeHolds`, `FragmentationHolds`
  and `WindowHolds` about the functions, for all scopes and windows the assumption admits.
* `RequestsProofs`, the handlers: `AnswersHold` and `ServerErrorsHold` from `HandlingInv`
  (which verbs may be at which point, what they have read by then, and that nothing is
  written, told or failed before the answer, but that an evaluation may have been cancelled)
  and `ToldInv`. The tables of errors are lemmas: which errors each check, service and
  statement can come back with (`HandlerWords`, `ServiceWords`) and to which answer each table
  turns them (`InputAnswers`, `ServiceAnswers`, `NotFoundAnswers`, `NameTakenAnswers`,
  `FailureAnswers`). `UsageNeverLess` from `UsageInv`: the clean-up takes no counter of the
  current period, so each of these is at least what it was, and the sum of all is no less.
  `RequestsAssumption` says that requests fit the routes of `NewRoutes` and rows have a status
  of their kind.

Type invariants (but for that of `Requests`) and small table invariants of a module with proofs
are proved and not repeated in its runs, nor are `DeletedIsFinal` and `SpentWithinCeiling` of
`LimitLifecycle` and `OneEventPerValidation` of `AuditChain`, which `ImplementsChain` implies.

Every invariant and every safety action property of a passing run is stated by a theorem.
Only model-checked: the liveness properties (`EveryCallEnds`, `EveryInsertEnds`,
`CacheConverges`, `ExpiredIsRemoved`, `EveryStartEnds`), since fairness and ENABLED are out of
the prover's reach, and the three statements the code does not keep.

### Observed while modelling

What the code does, and the models do with it, that a reader of its comments may not expect:

* a refusal whose best-effort insert fails or meets the row of a duplicate is answered with
  an id that is not stored (`validation_service.go:452`; `:422` says records are available
  immediately);
* a delete that read DRAFT deletes a rule that was activated since (`rule_status.go:11`), and
  two updates of a limit that overlap keep the columns of the later one (`update_limit.go:82`);
* the end of a custom period may be moved by any time, also when its counter is gone or will
  be gone before the new end, and the period starts again from zero (`pkg/model/limit.go:591`;
  `Stretched`), although expires_at is "based on when counters should actually expire"
  (`usage_counter_repository.go:57`);
* of two commands that overlap, the one with the older stamp may be stored last, and a cache
  that has the other keeps it until the next change of the rule or a restart (`HeldBack`),
  although "same or older timestamp -> no change" is meant for rows that are fetched twice
  (`rule_sync_change_set.go:65`);
* `RULE_SYNC_STALENESS_THRESHOLD_SECONDS` is read and checked, but the probe uses five
  minutes; a poll interval of up to an hour is accepted; a write-through counts as a sync for
  the probe (`rule_cache.go:105`), although `Staleness` "returns how long since the last
  successful sync" (`:152`), so it hides for a while that polls fail;
* a row the poll cannot convert fails every poll from then on;
* limits with a merchant in their scope never apply, since `ToCheckLimitsInput` has no
  merchant; only the first scope that matches is charged; the usage snapshot adds up all
  periods and scopes, so it is never below the current usage but may be above it;
* errors in the set `Unmapped` of `Requests` are answered 500 although the client caused
  them; the documented 504 is never answered, since the errors for it are never produced; a
  repeated delete gets 404, and the branch that would make it succeed is not reached;
* an amount above 2^53 is refused only if some rule is in scope;
* which rules are evaluated beyond `MaxRulesPerRequest` depends on the order of a map, so the
  decision may differ between two equal calls; the answer is flagged as truncated.

## 5. Not modelled

* CEL: the expression language, its cost estimate and the cache of compiled programs are a
  library or memoisation around it. Its outcomes are in `Evaluation` and `Requests`.
* The calendar: the length of months and the format of period keys and reset times. Periods
  are days in `LimitLifecycle` and a table in `Validation`.
* Decoding and formatting of requests, cursors and answers, the OpenAPI page and the version
  endpoint; a body is the set of checks it fails.
* The migrations of the schema, run by a library: the models stand on what they create. A
  session of the function migrations that is lost with its lock while the process goes on.
* The graceful shutdown of the HTTP library, telemetry, logging, metrics, sanitising, the
  clock: no protocol state.
* `api/docs.go`, mocks, test helpers and fault injection: generated or used by tests only;
  `with_body.go`: used by nothing.
* The loss of a refusal's audit event is possible in the model (`AuditRefusal` under
  `Faults`), as in the code, which claims best effort for it.

## 6. Plan

Done, in this order: the validation flow with its ledger, the audit chain, the rules and
their cache; the life of limits with the clean-up, lists, instances with migrations, breaker
and probe, evaluation, requests; the proofs of each; the refinements of the validation flow,
of the audit chain and of the life of limits.

Next: an abstract rule cache (the table of some moment not too long ago) that `RuleSync`
implements, for which `RepairHolds` is the first step, so that `Requests` can take its cache
from it; a specification of what a list promises, as a refinement in place of single
invariants.
