# A TLA+ model of OutboxNet

OutboxNet is a transactional outbox for .NET: a caller writes a message into the
table `OutboxMessages` in the transaction of its own data, and background workers
lock the rows, deliver them to webhook subscriptions (or hand them to a storage
queue) and settle them. This directory models that machinery in TLA+, checks it
with TLC and proves part of it with TLAPS. Paths below are those of the
repository; `pipeline` is `src/OutboxNet.Processor/OutboxProcessingPipeline.cs`.

## 1. Inventory

| component | state it keeps | operations | interacts with |
|---|---|---|---|
| outbox store (`DirectSqlOutboxStore`, `EfCoreOutboxStore`) | table `OutboxMessages`: Status, LockedBy, LockedUntil, NextRetryAt, RetryCount | save, lock a batch, lock by id, mark processed / failed / dead-lettered, increment retry, is lock held, release expired locks, purge | every worker, through single SQL statements |
| delivery attempt store | table `DeliveryAttempts`; the primary key is a hash of (message, subscription, attempt number) | save attempts (one INSERT), delivery states (one GROUP BY), purge, two listings | pipeline |
| pipeline, direct delivery | `_lastLockReleaseTicks`; locals of each job | `ProcessBatchAsync`, `TryProcessByIdAsync` | both stores, subscriptions, deliverer, retry policy |
| pipeline, queue-mediated | locals | `ProcessQueueMediatedAsync` | store, `IMessagePublisher` |
| processor service | `_hotInFlight` | hot path (one `Parallel.ForEachAsync` over the channel), cold path (poll loop) | channel, pipeline |
| Functions timer | none | calls `ProcessBatchAsync` without `skipIds` | pipeline |
| channel (`ChannelOutboxSignal`) | up to 10 000 ids, DropOldest | `Notify`, read | publishers write, hot path reads |
| publishers (EF Core, direct SQL) | change tracker of the scoped `OutboxDbContext` (EF Core) | `PublishAsync` | transaction of the caller, table, channel |
| deliverer | none | `DeliverAsync` | endpoints, with a timeout per subscription |
| retry policy | none | `GetNextDelay` | pipeline |
| subscriptions (`SqlSubscriptionStore`, two modes of `ConfigSubscriptionStore`) | table or configuration | read by route, add, update, deactivate | pipeline, which caches recipients per batch |
| tenant secrets (`ConfigurationTenantSecretRetriever`, `TenantSecretEnricher`) | memory cache with a TTL | `GetSecretAsync` | subscription readers, deliverer |
| context accessors, signatures, serialization, metrics, registration, sample application, load tests | configuration, counters | | |

What makes it hard:

* *Concurrency.* Several processes, and in each the cold loop, up to
  `MaxConcurrentDeliveries` hot handlers and up to as many jobs of a batch work on
  one table. Every `await` lets others in. Two timer invocations, or the hot and
  the cold path, carry the same `InstanceId`, so `LockedBy` does not tell them apart.
* *Timeouts.* A lock expires by the clock while its job may still be at work; the
  job is not told. An endpoint's 2xx may come after the timeout.
* *Failure.* Each statement may fail, or be committed and reported as failed; a process
  may stop between any two, and one job that throws cancels the others of its batch.
* *Best effort.* Hints are written before the caller commits, may be dropped by a
  full channel and vanish with the process; the cold path has to make up for them.
* *Ordering.* Rows of one (tenant, user, entity) should not be processed together.
* *Caches.* Recipients are those of the beginning of the batch, secrets those of the last
  `SecretCacheTtl`; edits and rotations happen meanwhile.
* *Locks inside a statement.* The batch scan reads rows one by one under update locks,
  passes over those of others, and waits for a partition.

What makes each part correct: the store never lets a held lock change hands or a
settled row move; the pipeline marks *Delivered* only what every active
subscription acknowledged, repeats an acknowledged delivery only after a
disturbance, keeps the attempts table a gapless ledger, and settles every message;
the channel and the in-flight set may lose time but no message; the queue mode
makes the same promise with the queue in the place of the endpoints; recipients are those
of one instant and of the right tenant, secrets are fresh; the lock is longer than the
batch; a purge costs no settled message.

The hazards behind these statements are listed, line by line, in `PROJECT.json`.

## 2. Modules

| module | models |
|---|---|
| `OutboxStore` | the table and every statement of `IOutboxStore`, under arbitrary callers (`StoreSpec`) |
| `OutboxScan` | the batch scan and the release row by row, under row locks; EXTENDS and refines `OutboxStore` |
| `OutboxTiming` | LockedUntil, NextRetryAt, timeouts and the throttle on a clock; refines `OutboxStore` |
| `OutboxPromise` | the abstract specification: messages are settled once, *delivered* only when acknowledged |
| `OutboxPipeline` | direct delivery: service, timer, hot handlers, jobs, faults, on both tables; EXTENDS `OutboxStore`, refines `OutboxPromise` |
| `OutboxRetention` | the two purges next to the pipeline; EXTENDS `OutboxPipeline`, refines `OutboxPromise` |
| `OutboxRouting` | subscription readers, the cache of a batch, secrets and their cache, edits and rotations |
| `OutboxPublishing` | callers, publishers, channel, `_hotInFlight`, hot and cold loop; EXTENDS `OutboxStore` |
| `OutboxQueue` | queue-mediated processing; EXTENDS `OutboxStore`, refines `OutboxPromise` |
| `OutboxClaims` | statements of the documentation that the pipeline does not keep |
| `OutboxStoreProofs`, `OutboxScanProofs`, `OutboxTimingProofs`, `OutboxPipelineProofs`, `OutboxRetentionProofs`, `OutboxRoutingProofs`, `OutboxPublishingProofs`, `OutboxQueueProofs` | theorems and proofs |
| `MCOutbox...` | constants for TLC: `Store`, `Scan`, `Timing`, `Pipeline`, `Retention`, `Routing`, `Publishing`, `Queue` |

Three modules look closer at what others take for one step or one bit, and show that they
may: `OutboxScan` at the atomicity of a statement, `OutboxTiming` at the values of
`lease` and `due`, `OutboxRouting` at the read of the active subscriptions.

### How state and actions correspond to the code

*Time* is abstracted row by row: `LockedUntil` is `none`, `held` or `expired`,
`NextRetryAt` is due or not. `LeaseExpires` and `RetryDue` are the clock passing
these instants; nothing relates the timestamps of two rows, which gives the model
more behaviours than one clock would; `OutboxTiming` shows that the timestamps of the
code, compared as it compares them, are among these. A *statement* is one atomic
action: each is a single `UPDATE`, `INSERT` or `SELECT`. `UPDLOCK, READPAST` appears in
the effect (batches are disjoint, rows of open transactions are skipped); `OutboxScan`
shows that the row-by-row execution is such a step. A statement that fails has no
effect, or (`AnswerLost`) all of it while its caller sees a failure.

*Pipeline.* A worker is a cold loop, a timer invocation or a hot handler;
`job[w][m]` is its execution of `ProcessSingleMessageAsync`, with the locals of that
method as fields: `retryCount` (the snapshot taken with the lock), `subs`, `done` and
`count` (the delivery states), `new` (`newAttempts`). Its `phase` is the await it
stands at:

```
 trylock -> subs -> states -> deliver -> save -> processed | failure | dead -> (end)
```

`Decision` is the decision phase (pipeline:325-374), `Delivered` the end of the
inner `Parallel.ForEachAsync`. `Deliver` covers every result of `DeliverAsync`, also
the 2xx whose answer is not received in time. The faults are actions of their own,
after the catch blocks: a failed read of the states is a delivery failure
(`ReadStatesFails`), a failed save with a success leaves the row locked (`NotSaved`),
a status write that throws is swallowed except on the paths that let it escape
(`Escape`, if `MayEscape`), where it cancels the siblings (`Cancel`), as does a deliverer that
throws (`DelivererThrows`). `AnswerLost` commits a statement and then takes the catch
block of its failure. `ReaderTimesOut` is an `OperationCanceledException` of the
subscription reader, which the loops take for the shutdown: the cold loop or the whole
hot path ends (`stopped`) until the process restarts. `Crash` is a stop and restart of one
process. The throttle of `ReleaseExpiredLocksAsync` is left open here: the call may or may
not be due.

Three variables are history, read by no guard of the modelled code: `acks` (2xx answers
per subscription), `disturbed` (a delivery result may have been lost: an overrun
lock, a late 2xx, a failed save, a job stopped with results in hand), and
`job.current` (the row's last lock is this job's). `overruns`, counted for its bound,
also appears in a premise.

*Publishing.* `EfCorePublish` and `DirectSqlPublish` are the two `PublishAsync`; which
one is registered is chosen in `Init`. A DI scope (`ScopeOf`) runs its transactions one after the
other and has one `OutboxDbContext` for all of them: `tracked` are the entities Added to it and not
saved, which outlive the transaction of their call, and which the next `SaveChangesAsync` of the scope inserts
(`Leftover`). So a message has a transaction it was published in (`TxOf`) and perhaps another that
inserted it (`insertedIn`). `published` is history: the calls that returned. What the pipeline
does with a locked message is one step here (`Ended`).

*Scan.* A session runs one statement: `StartScan`, a `ReadRow` per row, a `ReadPartition` for
rows that have one, and `UpdateBatch` at the end; or `StartRelease`, `ReadExpired`,
`CommitRelease`. `Victim` is the choice of the server's deadlock monitor, which is assumed, and of
which no property is claimed. An update lock is kept on each row that passes the
`WHERE` clause, rows locked by others are passed over, the read of a partition waits for
exclusive locks, a release waits for any. One lock stands for all index entries of a
row. `during` is history: rows locked while a scan runs.

*Timing.* `now` is the server's clock and `now + skew` the process's, constant skew.
Between two ticks everything that can run has run; only a call on its way to
`LockNextBatchAsync` may be slow, since it stands before the lock. Jobs wait for one of
`MaxConcurrentDeliveries` slots; the deliveries of a job are taken by
`MaxConcurrentSubscriptionDeliveries` workers, each of which takes the next when its own has ended
(`TakeNext`), after at most `Timeout`. `failed` is history: the failure after which a
message waits, with the `RetryCount` its delay was drawn for, which is the snapshot of the job and not
the column. `GetNextDelay` is the
set of delays that jitter allows; `ReadClock`, `ReadLast`, `CompareExchange` and
`ReleaseExpiredLocks` are the steps of the throttle.

*Routing.* `reader` is the registered `ISubscriptionReader`: table, one global endpoint, one
per tenant, or none. `call[w]` is one invocation: its batch, the dictionary it fills route by
route (`BuildSubscriptionCacheAsync`), and the read of one secret, which
`GetOrCreate` splits into lookup (`CachedSecret`), factory (`Resolve`) and `StoreSecret`.
`AddOrUpdate` and `Deactivate` are the writes of `SqlSubscriptionStore`; an update writes
all columns, from an object of any age. `Rotate` is a change of the configuration. A
secret is its owner and a version; an absent secret is cached like a present one.

*Retention.* `PurgeOldAttempts(m)` removes old attempts of a message, settled or not;
`PurgeMessages` removes settled rows and, by the foreign key, their attempts. An `INSERT` of
attempts whose message is gone fails (`InsertRejected`, as does a key that exists).

*Queue.* `Publish`, `Mark`, `PublishThrows`, `MarkThrows` and `HandleMessageFailure` are
the loop of `ProcessQueueMediatedAsync`. Whether an `IMessagePublisher` is registered
is chosen in `Init`; without one, direct delivery is the step `DeliverDirectly`. A status
statement that throws may have been committed: `MarkThrows` goes on to the catch block in
either case, and `StatementFails` abandons the batch after a lock statement or a `WriteFailure`
of the catch block with or without effect. A failed send is not `disturbed`: the queue has no copy.

## 3. Runs

| run | instance | what it shows |
|---|---|---|
| `scan` | sessions of 2 processes and their one-row statements, 2 rows of one partition, ordered, batches of 1 | lock columns; the statements refine the atomic store; circles of waiting need ordering |
| `timing` | 2 messages, 3 subscriptions and 2 at a time, 2 invocations of one process, lock of 3 ticks, delivery of 1 | locks outlive jobs, the throttle, the store's view of time |
| `delays` | 1 message, 2 invocations, lock of 1 tick, delivery of up to 2, delays of 1, 2 and 3 ticks (4 without the cap), jitter 50 %, 3 retries, 8 ticks | a retry comes neither sooner nor later than the policy allows, stale jobs included |
| `two_processes` | cold loop in one process, timer in another, 1 message, 2 subscriptions, 2 faults, 1 overrun | safety of deliveries, attempts, retry counts, lock gate and ownership; `PromiseOutcomes` |
| `one_process` | cold loop and hot handler with one `InstanceId` | `KeepsPromise` under fairness, through stale writes, lost answers and restarts |
| `batch` | batch of 2 next to a hot handler, 2 faults | duplicates under cancellation of siblings |
| `retention` | 1 message, 1 subscription, 2 timer invocations with one `InstanceId`, 1 overrun, 2 retries, 2 purges | what purges may cost; what purges and stale jobs never break: settled rows, the retry budget (but for one retry per overrun), the promise |
| `routing` | messages of tenants a and b, 2 subscriptions, all 4 readers, TTL 1, 1 edit, 3 ticks | tenants, recipients, endpoints and secrets under edits |
| `publishing` | 3 messages in 3 transactions of 2 scopes, 2 handlers, channel of 2 | what hints guarantee; message and transaction happen both or neither; both publishers |
| `publishing_live` | 2 messages in transactions of different scopes, 1 handler, channel of 1 | a committed message is settled even while the only handler waits for the transaction of the other, for ever |
| `queue` | 2 messages, cold loop and hot handler, with and without publisher | duplicates only in doubt, no forgotten lock, `QueueKeepsPromise` |
| `claim_cold_path_polls` | a cold loop whose reader may time out | refutes a statement, see below |

Three configurations are to be run by hand. `Ordered.cfg` (`MCOutboxPipeline`): 2 messages of one
partition, 2 processes, batches of 1: `PartitionExclusion`, and ordering does not starve. `Store.cfg`
(`MCOutboxStore`): the store under any callers in any order, 3 rows, 2 instances, one with a tenant filter.
`SharedInstance.cfg` (`MCOutboxPipeline`): `RetryBudget` without purges, with 2 subscriptions and 2 overruns.
`TypeOK` is an invariant of `two_processes` and includes the types of the store; the types of
the other modules are proved (section 4), but for `TimingTypeOK`, which any configuration of
`MCOutboxTiming` may name.

The bounds and why they are enough. The properties speak of one message (or of a
pair in one partition) and of one or two subscriptions, so one or two of each give
every relation they distinguish; s1 allows one retry and s2 none, so that exhausted,
failed, succeeded and deactivated subscriptions occur together. An overlap needs two
workers and one overrun. `MaxRetries = 1` gives a first round, a retry and the end
of the budget. `MaxFaults` of 1 or 2 lets a fault hit during the recovery from
another. `MaxOverruns` counts locks that expire under a job at work; the expiry of
abandoned locks is unlimited. `Capacity` is 10 000 in the code; 2 and 1 make overflow
happen. `RetryBound` (`scan` and `Store.cfg`) stops the count that arbitrary callers could drive up.
A circle of waiting takes two sessions and two rows. In `timing`, a lock of 3 ticks is cut to
2, a whole second, which is exactly what 3 deliveries of one tick need, 2 at a time; 4 ticks
(`Horizon`) see a lock expire, be taken again and a second release; a skew of one tick to
either side meets a delay of one. In `delays`, `MaxRetries` of 3 takes the exponent past the cap, a delivery may
outlast its lock, so that a job of an earlier round writes the failure of a later one, and 8 ticks see
the first delay under both jobs and the capped one at its end. In `publishing`, one
scope has two transactions, so that one of them may inherit what the other left; the
other scope has one, which runs meanwhile. In `routing`, one edit or rotation changes what
a second invocation reads, and 3 ticks outlast the TTL of 1 twice. In `retention`, `MaxRetries = 2`
gives a job two recorded attempts to lose, one of which a purge may leave; 2 purges may
hit before and after a retry; one overrun leaves a job whose snapshot of `RetryCount` is behind when
it writes, and the count does exceed `MaxRetries` there.
Deadlock is checked wherever the loops never stop: in `batch` and `claim_cold_path_polls`
an exception may end them, so it is not.

Each property of a passing run has a mutant: a definition next to the one it
replaces, marked `Mutant:`, with a plausible bug that breaks the property. They are
not part of the specification.

### Fairness

`FairSpec` of each module assumes that loops and jobs that can take a step
eventually do (the runtime schedules tasks; every await ends with a result, an
exception or a timeout, all of them actions) and that the clock passes. No fairness is assumed
of faults, of callers (a transaction may stay open for ever), of endpoints (they may
fail every time), of administrators, of purges, or of reading a hint (`TakeHint`): recovery must
not depend on the hot path. The loops catch all exceptions but
`OperationCanceledException`; the liveness runs assume that only a shutdown throws it
(`ReaderMayTimeOut = FALSE`), and `claim_cold_path_polls` shows what happens otherwise.
`ScanSpec` has no fairness: that waiting statements end is the server's matter.

### Where documentation and code disagree

One run refutes a statement that the repository makes of itself: `claim_cold_path_polls`,
README.md:450 "The cold path runs on a fixed `ColdPollingInterval` (default 1 second)
regardless of queue activity". `OutboxProcessorService.cs:118` takes every
`OperationCanceledException` for the shutdown; one that the subscription reader or the
secret retriever throws (the timeout of a client is a `TaskCanceledException`) ends the
loop until the process restarts.

More configurations `Claim*.cfg` refute, in the same way, other statements; they are kept for
whoever edits those sentences and are run by hand (`tlc -config <file> <module>`; the module is
`MCOutboxPipeline`, through `OutboxClaims`, unless another is named):

| configuration | statement | what happens |
|---|---|---|
| `ClaimOrderedBatch` | `OutboxOptions.cs:36-38` a message of a partition is not picked up until the locked one has finished | one batch locks several rows of the partition and runs them in parallel |
| `ClaimOrderedHot` | the same, on the hot path | `DirectSqlOutboxStore.cs:290` has no partition clause |
| `ClaimCreationOrder` | README.md:669, :779 "processed in creation order" | a message waiting for its retry is overtaken |
| `ClaimOwnership` | `IOutboxStore.cs:23-24` "Only succeeds if lockedBy still owns the lock", README.md:552 | two invocations of one process share `LockedBy`; the one that lost its lock writes over the other's |
| `ClaimLockVerified` | `docs/architecture.md:279`, `:152` the lock is verified before each delivery | `IsLockHeldAsync` is never called |
| `ClaimNoRedelivery` | pipeline:339-342 "No duplicate will occur" | a job that read the states earlier delivers again |
| `ClaimNoneSucceeded` | pipeline:357, README.md:631 "All exhausted, none succeeded" | others may have succeeded |
| `ClaimMaxAttempts` | `WebhookOptions.cs:44` "Maximum delivery attempts" | one more is made (pipeline:426) |
| `ClaimRetryBudget` | `docs/architecture.md:370` "Maximum number of retry attempts" (`RetryBudgetIsExact`) | two jobs of one instance exceed it, by as much as `RetryBudget` allows |
| `ClaimHotColdRace` | README.md:39, :465 no race of hot and cold path | the snapshot is older than the lock statement |
| `ClaimRetriesHot` | README.md:469 "Retries never go through the hot path" | a late hint runs one |
| `ClaimNotifyAfterCommit` (`MCOutboxPublishing`) | README.md:436, `IOutboxSignal.cs:7` notified after the commit | it is before |
| `ClaimRolledBack` (`MCOutboxPublishing`) | `docs/architecture.md:55` "If it rolls back, the message disappears with the order." | `SaveChangesAsync` fails, the caller rolls back, and the next `PublishAsync` of the scope inserts the entity left in the change tracker (`EfCoreOutboxPublisher.cs:89-90`); as far as EF Core lets the context join a second transaction, see section 5 |
| `ClaimHotStartsDelivery` (`MCOutboxQueue`) | `IOutboxProcessor.cs:18-19` true means delivery started | not without a publisher |
| `ClaimVisibilityFormula` (`MCOutboxTiming`) | `OutboxOptions.cs:8-14` how long a lock must be | it multiplies by the slots where it should by the rounds of deliveries: with 3 subscriptions and 1 slot the lock expires under the job |
| `ClaimOneFactory` (`MCOutboxRouting`) | `ConfigurationTenantSecretRetriever.cs:44-45` one factory per key | two callers that both miss run it twice |
| `ClaimPurgeIsHarmless` (`MCOutboxRetention`) | a message is settled whatever is purged (`SettledAnyway`) | attempt 2 remains after the purge of attempt 1, the next number is 2 again, and each `INSERT` collides with the primary key: the message is delivered again and again and never settled |

## 4. Proofs

All theorems hold for every value of the constants that satisfies the assumptions
`StoreAssumption`, `ScanAssumption`, `TimingAssumption`, `PipelineAssumption`,
`RoutingAssumption`, `PublishingAssumption` and `QueueAssumption`, each stated in the module
that declares the constants; they use no other. A refinement theorem speaks of the
safety part of the abstract specification.

`OutboxStoreProofs` rests on one inductive invariant, `StoreInv`: the column types and,
per row, that a row is Processing exactly when LockedBy and LockedUntil are set, that
only Pending rows wait for a retry, and that an absent row has no retries. The second
part is needed because the `WHERE LockedBy = @lockedBy` of the updates says nothing of
the status: only because LockedBy is NULL elsewhere can a stale caller not touch a
settled row. From it follow `StoreTypeCorrect`, `LockColumnsAgreeAlways`, and the
action properties `SettledForGood`, `NoLockStolen`, `RetriesChargedByOwner` and
`ShardsMeetAtPending` (what instances with disjoint tenant filters can share).

`OutboxScanProofs`, by `ScanInv`: no row has two row locks, and what a scan has chosen it has locked
and is still lockable, because every statement that would change it needs that lock and
the clock only makes more rows lockable. So the `UPDATE`, which tests nothing, locks what
the atomic statement would (`ChosenLast`), and each commit is a step of the store (`ScanIsStore`).

`ReadInv` adds what a running statement has read so far. A scan that has read a partition
without meeting a lock will only miss those taken since, which `during` collects
(`JoinsAreRaces`). Scans pass over each other's update locks and wait only at a partition;
releases wait only for rows, and in one order, so a waiting release has read every row before the one
it waits for: a circle of releases alone would be a descending chain in a finite set, and
one of scans alone has nobody to wait for (`CirclesAreOrdered`).

`OutboxTimingProofs`:

* `ReleasesAreSpaced`, by `ThrottleInv`: who is about to swap has read a clock at least
  the interval past the value it compares with, so a swap that succeeds advances by that much.
* `InstantsImplementStore`, by `StampInv`: a Processing row has a LockedUntil; the strict and
  non-strict comparisons of the statements agree with the store's `expired` and `due`.
* `RetriesWait` and `RetriesFallDue`, by `WaitInv`: a Pending row that waits after a failure is due within
  the delays that the policy allows for that failure, neither sooner nor later than `MaxDelay` with its jitter, and
  has no lock, so that nothing but the delay keeps it; a batch that takes a row forgets the failure. It
  holds through overruns, where the row is given up by a job whose snapshot lags.
* `LocksOutliveJobs`, by `ScheduleInv`. `Paced` is the schedule of c workers that share b items
  of at most d ticks each: between k and k + 1 rounds of d ticks, while items are left to begin,
  those left, those begun since the k-th round and c * (k + 1) others are b at most. So the last
  item begins before the last of the rounds that `Rounds(b, c)` counts (`PacedBound`). It is inductive because
  no tick passes while a worker is free and an item is left. It is used twice: for the
  subscriptions of a message (`OnTime`), which bounds a job by `JobTime`, and for the
  messages of a batch (`Timely`), which bounds the batch by `WorstCase`. A job waiting for its slot counts with the
  batch. Rows of a batch that keeps its schedule are neither eligible nor
  expired, so no other invocation touches them (`OneMoves`, `NoneMoves`). This is the premise "no overruns" of
  the lock gate, derived from the options.

`OutboxPipelineProofs` reduces each step to what it does to one message (`MessageStep`): lock
it, release it, work on its records, write its status, or let it rest. The invariants about
one message are then proved from these five cases.

* `PipelineUsesStore`: every step of the pipeline is a step of the store or a stutter of
  the table, so `StoreInv` and the action properties of the store hold of it.
* `TypeCorrect`, by `TypeInv` (`StoreInv`, jobs, finite attempts, loops, history).
* `LockGateHolds`, by `GateInv`: without overruns, a job past its lock statement is
  `current`, holds an unexpired lock of its host, and is alone; `current` is what
  makes it inductive, since an unexpired lock alone does not say whose it is.
  `GateOfEachMessage` is the same for one message, whatever happens to the others.
* `HolderWrites`, `RetryBudgetKept` and `RetryBudgetOfEachMessage`, by `HolderInv`, `SnapshotInv` and
  `BudgetInv`: LockedBy names the job that took the last lock if no lock
  was overrun or no two workers share an `InstanceId`; the snapshot of that job is the
  `RetryCount` of the row, so the test it makes before it increments is still true when it does. Each
  premise of `HolderWrites` is needed: where both fail, `ClaimOwnership` refutes it. `RetryBudgetKept` needs none:
  where workers share an `InstanceId`, an increment beyond the budget takes a snapshot that is behind
  the column, and an overrun for each step it is behind.
* `LedgerIsKept` and `ExhaustionHolds`, by `LedgerInv`: what a job has read of the attempts is a part of what
  is recorded, and the numbers it will insert follow those it has read. It holds of jobs that have lost
  their lock as well, since the primary key rejects the second `INSERT` as a whole.
* `NoDuplicateUndisturbed`, by `OnceInv` on top of `GateInv` and `LedgerInv`: while a message is
  undisturbed, each acknowledgement is recorded or carried by the one job at work, and what
  that job has read is all that is recorded.
* `DeliveredIsAcknowledged`, by `AckInv`: recorded successes, and those a job carries, are
  acknowledged, and a job in phase `processed` has all active subscriptions among
  its successes. It needs no assumption on locks: it survives every overlap.
* `PipelineKeepsPromise`: the refinement mapping takes each step to `Acknowledge`,
  `Unsubscribe`, `Settle` or a stutter of `OutboxPromise`.

`OutboxRetentionProofs` takes over what the purges leave true of the pipeline (`HostInv`: types, gate and
acknowledgements, hence `RetentionUsesStore` and `RetentionKeepsGate`). `PurgedLeavesNothing` is the foreign key, in both
directions: the cascade, and the `INSERT` that it rejects. The ledger is not an invariant here: a
purge of some attempts of an open message tears it. `ForgottenInv` keeps it, and `OnceInv`, for the messages
whose attempts were not purged while they were open, and asks nothing of settled ones
(`NoDuplicateUnforgotten`). `PromiseKeptUnderRetention` maps a purged row to the
outcome it had.

`OutboxRoutingProofs`: `RoutingInv` says that what the dictionary of a batch holds under a
route was read for that route, and that each secret, cached or on its way into the
cache, was made for its key; hence `TenantsAreIsolated`. `InstantInv` adds that each
finished entry of the dictionary was filled from one content of the table since the lock
(`OneInstant`), and where an endpoint came from (`OwnEndpoints`). `FreshInv` relates the age of a
secret's entry in the cache, or of the batch that resolved it, to the time since the secret was replaced:
one that is out of date was made before the replacement, and an entry lives for `CacheTtl` from its
making (`ReplacedSecretsExpire`).

`OutboxPublishingProofs`, one invariant in layers: a row nobody has locked is as it was
inserted (`RowsInv`); a row is there if and only if the transaction that inserted it has committed; a
call that returned has inserted in its own transaction, and one that threw is inserted only with another of its
scope (`TxInv`, hence `BothOrNeitherHolds`); the channel is a suffix of what was notified, each hint in one
place, in the channel or with one handler (`HintsInv`, hence `OverflowDropsOldest` and
`InFlightIsExact`); a hint neither lost nor used is in such a place, or its transaction
was rolled back (`CoverInv`, hence `HintsCoverCommits`). The last case is needed: a
handler gives a hint up whose row it does not find, and only `TxInv` says that it
will never be there.

`OutboxQueueProofs`: `QueueInv` (who has what in which step of the loop) and, for each message
that is not in doubt, `Gate` (one worker at most has it, under an unexpired lock of its own until the row is
delivered) and
`OnceSent` (a copy in the queue belongs to a row that is marked, or that its worker is
about to mark). From these `SecondCopyOnlyInDoubt` and `DeadLettersUnsent`; from a
smaller invariant, that a worker marks what it has sent, `QueuePromiseOutcomes`. `Tended` follows the
owner of a held lock through the loop: while no statement has failed and no process has stopped, it still has
the message in its batch or in hand (`LocksAreTended`).

Proved and in no run: `NoLockStolen`, `ShardsMeetAtPending`, `QueueUsesStore`, `ScanInv`'s
types, `RoutingTypeCorrect`, `PublishingTypeCorrect`, `QueueTypeCorrect`, `GateOfEachMessage`,
`RetryBudgetOfEachMessage`, `RetentionUsesStore`, `RetentionKeepsGate`, and
`QueuePromiseOutcomes` (the run checks the whole promise of the queue mode, liveness included).

Only model-checked: liveness (`KeepsPromise`, `QueueKeepsPromise`, `CommittedIsSettled`,
`SettledUnlessTorn`), since TLAPS has no support for `ENABLED`, hence for
fairness. Every invariant and every action property of a passing run is a theorem about the module that
states it; those of `OutboxStore` and `OutboxPipeline` that other runs check reach these by the step theorems
(`PipelineUsesStore`, `ScanIsStore`, `RetentionUsesStore`), but for `RetryBudget` under purges. `KeepsPromise`
and `QueueKeepsPromise` are proved in their safety part.

## 5. Not modelled

* Contents: payloads, headers, signatures, trace and error texts; no decision reads them.
* Context accessors, metrics, logging, registration, the sample application, the load tests. The
  only JavaScript of the repository belongs to the sample's pages: a vendored
  copy of a form validation library, and a `site.js` that holds only comments. The system is its C#
  projects, and it is these that the modules model.
* Several index entries of one row: a scan that has locked a row's entry in one index may
  meet an update that comes from another, and be chosen as a victim where the model
  only waits. The statement then fails, which `OutboxPipeline` covers as a fault.
* A configured URL that changes with a restart, which gives the subscription another
  deterministic id, hence other attempts.
* Lost updates between two `UpdateAsync` of one subscription: the result is one of the
  rows that `AddOrUpdate` may write.
* `TenantFilter` on the hot path: `TryLockByIdAsync` ignores it, in the code as in the
  model; no document promises the contrary, so no property speaks of it.
* The instants of ordered processing: `OutboxTiming` has no partitions, so the guard's `LockedUntil > now`
  (`DirectSqlOutboxStore.cs:86-91`) is modelled where locks are held or expired (`OutboxStore`), not at the very
  instant between the two.
* A read of several subscriptions that sees different instants of the table: `OutboxRouting` takes the `SELECT` as one
  snapshot, as it is under READ_COMMITTED_SNAPSHOT; under locking READ COMMITTED rows edited during the
  read may be seen from either side of the edit.
* What EF Core does when one `OutboxDbContext` joins a second transaction (`UseTransactionAsync`). The model
  lets it, as the comment at `EfCoreOutboxPublisher.cs:60-63` and the loop of
  `OutboxNet.SampleApp/Data/SampleEntitiesController.cs:64-80` expect. If the library refuses,
  the calls concerned throw, and the behaviours of a scope with more than one publish are not reached.
* The two listings of attempts, which read and change nothing.

## 6. Plan

Done, in this order, the most important behaviour first: store, pipeline with its promise,
publishing, queue; faults with an ambiguous outcome; what the first modules abstracted from (scan,
timing, routing); retention; proofs of all of these, up to every safety property of the passing runs.

Left:

1. `TimingTypeOK` as a theorem, which bounds every instant by `Horizon` (the proofs need only that instants
   are integers).
2. `PartitionExclusion` of `Ordered.cfg` as a theorem of the pipeline: with batches of one and no hot path,
   messages of a partition are not processed at a time.
