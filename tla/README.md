# Escrow backend: TLA+ models, checks and proofs

This directory models the backend under `src/` (Express API, SQLite store, event indexer of
Soroban escrow contracts) in TLA+. Paths below are relative to the repository; the code is
`src/src/...`.

- `*.tla`: one module per component, `MC*.tla` for TLC, `*Proofs.tla` for TLAPS.
- `*.cfg`: one per run, named after the run.
- `PROJECT.json`: components, runs, a mutant for each property of a passing run, the source
  lines each definition translates, hazards, findings, theorems.

Contents: 1 inventory, 2 the modules, 3 the runs and their bounds, 4 fairness, 5 the proofs,
6 where code and documentation disagree, 7 what is not modelled, 8 plan.

## 1. Inventory

The server is one Node.js process: all state changes run to completion between two `await`s,
and concurrency is the interleaving of suspended functions. SQLite calls (better-sqlite3) are
synchronous, so a transaction is atomic and only what it committed survives a restart. Several
processes may share one database file, which matters for migrations and the metrics collector.

| Component | State | Operations | Interacts with | Module |
| --- | --- | --- | --- | --- |
| Live poller (`indexer/poller.ts`) | RPC client, delivery-chain tail; locals of a cycle | register configured contracts, read the head, group by pointer, page loop, child discovery, commit, pointer updates, queue webhooks | RPC client, store, webhook queue, job-state cache, failover, metrics | `Indexer` |
| Contracts and pointers (`indexer/db.ts`) | `monitored_contracts`, `indexer_state` | registration, deregistration, pointer updates | poller, admin routes | `Indexer` |
| Event store (`indexer/db.ts`) | `events`, `job_participants`, `sync_ranges`, pages of jobs by wallet | five writers, deletion of a range, pruning, cached reads | poller, imports, maintenance, job routes | `EventStore` |
| Webhook delivery (`indexer/webhook-delivery.ts`) | `webhook_deliveries`, `webhook_subscriptions`, run locals | sweep of failed deliveries, ordered delivery of a range, outcome recording, subscriptions | store, transport, poller | `WebhookDelivery` |
| RPC client (`indexer/rpc-poller-client.ts`) | pages and cursor of a fetch, write queue and its keys | paged historical fetch with retries, bounded queue with a lock per key | RPC node, store | `HistoricalFetch`, `EventQueue`, `Retry` |
| Failover (`indexer/failover-recovery.ts`) | `rpc_node_health`, `failover_state`, the poller's node | record success or failure, choose and switch | poller | `Failover` |
| Insert locks (`indexer/db.ts`) | promise chains per event identity | nested acquisition in sorted order, release | store | `InsertLocks` |
| Backfill (`poller.ts`, `routes/admin.ts`) | guard, job in memory, recorded range | configured range at start, posts of the administrator, paging | RPC client, store | `Backfill` |
| Ledger range tracker (`indexer/ledger-range-tracker.ts`) | active range locks, an import's pages | resolve, lock, fetch, persist, advance the pointer | RPC client, store | `LedgerRanges`, `RangeLock`, `RangeTracker` |
| Migrations and schema checks (`db.ts`, every service) | `schema_migrations`, the schema | apply what is missing, retry, verify | start-up | `Migrations` |
| Maintenance, vacuum cleaner (`poller.ts`, `sqlite_vacuum_cleaner.ts`) | cleanup queue, lock flag, timer | prune, vacuum, checkpoint, retries | store | `Maintenance` |
| Lifecycle (`index.ts`, `shutdown.ts`, `poller.ts`) | process state, poller flag, timers | start, network check, poll loop, signals, drain, exit | all | `Lifecycle` |
| Polling intervals (six services) | interval, idle cycles | grow and shrink | poller, services | `Throttle` |
| Failure monitors | counters, alert flags | failure, success, stall check, reset | all services | `FailureMonitor` |
| Retry loops (five) | attempt, last error | classify, back off, give up | RPC, database | `Retry` |
| Metrics collector (`indexer_metrics_collector.ts`) | a collection's partial counts | queries in one transaction | store | `Metrics` |
| Reconciliation (`reconciliation.ts`) | sums, `reconciliation_results` | sum events, read a balance, compare | store, RPC | `Reconciliation` |
| Job-state cache (`job-state-cache.ts`) | cache, in-flight loads, generations | cached read, load, invalidate | job routes, poller | `FreshRead`, `JobStateCache` |
| Submit and transaction caches (`routes/jobs/*`) | result caches, in-flight promises | submit once, build unsigned transactions | RPC | `Submit`, `UnsignedXdr` |
| Token metadata cache (`utils/token-metadata.ts`) | metadata and failure entries | simulate three views, remember | RPC, routes | `TokenMetadata` |
| Money arithmetic (`utils/`) | none | divide, tax, convert, round, validate | routes, reconciliation | `Amounts`, `FeeSplits`, `TaxEstimator`, `UnitConversions` |
| Limiters of the money modules | windows and counts | let through or refuse | their functions | `RateLimiter` |
| Routes, middleware, schemas, transport, configuration, push notifications, logging | none of their own | filter, parse, format, sign, POST | | section 7 |

What is hard here, and what makes each component correct:

- **Poller.** A cycle waits on the RPC node between reading its pointers and moving them, and
  commits in several transactions. Correct: no pointer passes an event that has to be stored;
  after any crash the next cycles repair what the last one left; every contract catches up with
  the chain; administration during a cycle is not undone; what is stored is offered to webhooks.
- **Webhook delivery.** Lost answers, retries over several runs, pruning and subscription
  changes between two POSTs, restarts. Correct: every row gets a verdict for every healthy
  subscription, verdicts are true, attempts are counted right, order is kept, nothing stays
  failed for ever.
- **Imports and backfills.** Page borders, split ledgers, partial failures, imports of
  overlapping ranges at the same time, a crash in the middle. Correct: what says it is done has
  every event of its range, nothing is counted twice, nobody waits for ever.
- **Queues and locks.** A refused insert in the hands of somebody else, nested locks. Correct: no
  key is left behind, no circle of waiters.
- **Failover.** Health decided from counts, failed writes, restarts between two of them. Correct:
  the poller ends at a node that answers.
- **Process and schema.** Signals at any moment of the start, several releases on one database, a
  failure between two migrations. Correct: a signal ends the process, the database outlives the
  requests, the database is always at one release.
- **Reads over several steps.** Reconciliation sums before it awaits, the metrics collector
  queries one by one. Correct: a reported difference has a cause, counts add up.
- **Caches.** A load that overlaps an invalidation, joiners, failures, expiry. Correct: nothing
  older than the index is cached or answered, the network is asked by one request at a time, a
  failure is not remembered, an unsigned transaction in the cache is signable.
- **Money.** Truncation, ties, signs, limits of the types, in a dozen copies. Correct: the parts
  add up to the whole, a quotient is rounded only as said.

`PROJECT.json` lists the hazards line by line, with the properties that cover them.

## 2. The modules

One action is the code between two suspension points, with every synchronous call in it.

### Indexer: the live poller over its store

State: the chain and the node's retention window (environment); the columns of
`monitored_contracts`, `indexer_state` and the set of stored rows (database); `pc`, `cycle`,
`group`, `page` (locals of `pollEvents`, `fetchPageRetentionAware` and the page loop); the chain
of delivery ranges (`webhookDeliveryTail`). `since`, `due`, `offered`, `excused` are history.

| Action | Code |
| --- | --- |
| `PollEvents` | registration of `FACTORY_CONTRACT_ID` and `CONTRACT_ID`, up to the first `await` |
| `GroupByPointer` | `getLatestLedger` answers, pointers are read, groups formed |
| `BeginGroup` | next group that lags; `minStartLedger` |
| `ClampToRetention` | the node answers "out of range": gap recorded, request repeated from the oldest ledger |
| `FetchPage` | `getEvents` answers with a page |
| `RegisterChild`, `FetchChildPage`, `SkipChildPage` | a `created` event: child registered, its first page fetched and its pointer moved; or the fetch failed and is skipped |
| `InsertEventBatch` | the transaction with the rows and the global pointer |
| `UpdateContractPointer` | one contract's pointer; the last one decides about the next page |
| `FinishPoll`, `FailPoll`, `Crash` | the three ends of a cycle |
| `DeliverRange` | a delivery run reads the rows of its range |
| `AdminRegister`, `DeregisterContract`, `CloseLedger`, `ExpireLedger` | the other actors |

Abstractions: an event is its position in the chain, with its ledger, its contract and the child
it announces; `INSERT OR IGNORE` makes a stored row a member of a set. RPC retries inside one
call are one failure (`Retry` has them). Poll interval and node switch are in `Throttle` and
`Failover`.

### WebhookDelivery: outbox, subscriptions and the delivery queue

State: the two tables, the queue of ranges, and the locals of the one run that is active
(`sweep`, `pending`, `ahead`, `post`). A POST is split into the request (`DeliverToUrl`,
`SweepPost`, with the outcome the receiver decides) and the recording of its result
(`RecordResult`, `SweepOutcome`); between the two every other actor runs, and a crash may fall.
The outcome `lost` is a POST the subscriber received without the sender seeing a 2xx.

Abstractions: one contract with one event in a ledger; all subscriptions accept all event types
(the filter is applied per event with no state); an URL rejected by the address guard is an
outcome `failed`; a failing write in `recordDeliveryOutcome`, which the code swallows, is not
modelled. Pages without rows are skipped in one step, since nothing is awaited on them; the rows
of a page are read when the run reaches it, so pruning in between is seen.

### FreshRead and JobStateCache

`FreshRead` is the promise of `GET /api/jobs/:contractId`, cache or no cache: an answer is a
state the contract had, no older than what was indexed when the call was made. `JobStateCache`
is the code: cache, load in flight, generation counter, with the RPC simulation as an
asynchronous step. It refines `FreshRead` with the identity mapping (`Fresh == INSTANCE
FreshRead`; `AnswersAreFresh == Fresh!Spec`).

Abstractions: one contract (entries of different contracts share nothing); contract states are
numbered by the transactions that lead to them, state 0 has no job (the code's `null`, which is
shared but not cached). The node that simulates is not behind the node the poller reads events
from; with several nodes behind one URL this is an assumption about the service.

### Submit and UnsignedXdr: the route caches

`Submit` is `POST /api/jobs/submit` for one signed transaction: the result cache, the map of
submissions in flight, and for each request where it is suspended. `StartSubmission` ends at the
await of `sendTransaction`, `FinishSubmission` is what its answer sets off. The owner's `catch`
and `finally` and the continuations of all requests that await the same promise run as microtasks
of one turn of the event loop, before any other request, and so are one action. The network may
refuse, be overloaded, or take the transaction while its answer is lost.

`UnsignedXdr` is the cache of one key in `build-tx`, `claim-auto-release` or `partial-release`
(which asks for the account before it looks into the cache), with `getFreshCachedXdr` and
`setCachedXdr` of `caches.ts`. Its clock has a resolution finer than a second, as the code's has,
while time bound and TTL are whole seconds. The SDK's `setTimeout(t)` sets `maxTime` to the
current second plus `t`. Fee and account of a build are one await.

### Ranges and imports: LedgerRanges, RangeLock, RangeTracker, HistoricalFetch, Backfill

`LedgerRanges` has the pure functions (resolve, validate, chunk, overlap) the others use.
`RangeLock` states what `withOverlappingRangeLock` is for: a client enters with a range of which
nobody inside holds a ledger. `RangeTracker` is `processRange` of concurrent imports: `Start`
resolves the range and tries the lock, an import that found others waits for exactly those
(`blockers`, the `Promise.all`) and tries again, then fetches page by page with retries
(`FetchPage`, `FetchFails`) and persists (`Persist`, `PersistFails`). It refines `RangeLock`, with
`holding` the ranges of the imports between their lock and their end (`WorkIsExclusive`).

`HistoricalFetch` is one call of the RPC client's paged fetch over every small chain: pages of
ledgers, answers of bounded length that may end inside a ledger, the cursor, the request limit of
a page and retries. `Backfill` runs `fetchHistoricalEvents` for the configured range at start (once,
by its record in `indexer_state`) and for posts of the administrator, with the 409 guard, while
the chain grows; a crash keeps only the tables.

### EventQueue, InsertLocks

`EventQueue` is `RpcEventQueue`: submitters enqueue batches up to the limit and drain the queue,
each taking whatever is first; a row is persisted under a lock on its key, and an insert that
throws ends the flush of whoever holds it. `InsertLocks` is the promise chain of each key in
`db.ts`, joined one key after the other in sorted order.

### EventStore

All writers of `events` with what they do to `job_participants`, the pointer, `sync_ranges` and
the cached first page of each wallet (`getJobsByWallet`): `InsertEventBatch`,
`InsertHistoricalEventBatch`, `InsertEvent`, `InsertEventsWithDedup`, `DeleteEventsInRange`. A
unique key is the event's id, and NULL keys are all different. `excused` is history: the wallets
whose page became stale in a way the invalidation is known not to see (section 6). Searches,
counts and exports only read and are left out.

### Failover, Throttle, Retry, FailureMonitor

`Failover` has the two tables, the poller's client in memory, and polls that record a success or
a failure; each write may fail (the code returns `null` and goes on) and the process may restart.
Times are abstracted to the place of each node in the order of the last successes and a bit for the
backoff. `Throttle` is
the interval of six services, `Retry` the five retry loops with their classes of errors, their
caps and server hints, `FailureMonitor` the alert and stall latch of six monitors; in each the
first state chooses which of them a behaviour is about.

### Lifecycle, Migrations, Maintenance

`Lifecycle` is a process from `index.ts` to its exit: start-up, the network check that starts the
poller whenever it answers, requests, cycles, signals, the drain and its timer. `Migrations` has
processes of different releases that run what is missing in one transaction with a savepoint for
each migration; SQLite lets one write at a time, a step may fail, be busy or be the last of its
process. DDL is abstracted to the columns and keys the migrations move data between. `Maintenance`
has the cleanups queued behind a promise, retries, pruning, and the poller's own maintenance timer.

### Metrics, Reconciliation, TokenMetadata, RateLimiter

`Metrics` is one collection after the other beside another process that writes: SQLite's snapshot
is the database at the first query of the transaction. `Reconciliation` sums inflow and outflow of
a contract, then awaits the balance, while the chain moves, events are indexed and pruned.
`TokenMetadata` has callers that miss the cache together, the metadata entry, the failure entry
and a clock. `RateLimiter` has the windows of the money modules, one for each client or one for all.

### Money: Amounts, FeeSplits, TaxEstimator, UnitConversions

Each of `FeeSplits`, `TaxEstimator` and `UnitConversions` is a specification whose behaviours are
one call: the function, its inputs and its outcome, which the properties compare with a definition
of what the function is for (exact sum, tax of each slice, exact quotient). `Amounts` has validation
and rounding, with every copy of half-even rounding mapped to one definition. Inputs come in the forms a caller can give them (bigint, number, text, malformed);
every refusal is the one outcome `Rejected`, since which code it carries is wording. The bounds of
`i128` and of safe integers, and 100% in basis points, are scaled down (127, 99 and 10) so that both
sides of each bound are reached. CSV texts, storage rows, tables of error wordings and of
parameter warnings are left out.

### Modules for TLC and for proofs

`MCIndexer` and `MCWebhookDelivery` extend their module. `Server` composes the three route caches
with failover, insert locks, lifecycle, maintenance and the three money modules, `Services` the
other thirteen services, each with all of their constants, so that they can be proved about;
`MCServer` and `MCServices` give the constants values. The parts of such a composition share no
state: `mode` says in the first state which one a behaviour is about, and every property keeps its module's name.
`Collections` has what `LIMIT`, `ORDER BY` and sums come to, and `CollectionFacts` the facts about
them, and about minima and maxima, that the proofs rest on.

## 3. The runs

| Run | Question | Bounds |
| --- | --- | --- |
| `indexer_faults` | failed calls and commits, crashes and a moving window: does a pointer ever pass an event that has to be stored and can still be fetched? Is a due webhook range ever dropped by a cycle that succeeds? | 2 ledgers with up to 3 events, page of 2, 2 pages per cycle, factory, child and `CONTRACT_ID`, every fault |
| `indexer_liveness` | after failed commits, crashes, a moving window and changes by the administrator: does every active contract catch up with a quiet chain once faults cease? Does the poller revive a contract the administrator removed? | 2 ledgers with up to one event, page of 1, one page per cycle, factory, child and `CONTRACT_ID`, which the administrator adds and removes; crashes end a cycle wherever a failed call would |
| `indexer_split` | (violation) is the pointer at a fully stored ledger after a failed cycle? | one adopted contract |
| `indexer_child_skip` | (violation) does a child whose first fetch failed catch up? | factory and child, failing calls and commits |
| `indexer_webhook_gap` | (violation) is every stored row offered to webhooks? | nothing fails |
| `webhook_delivery` | verdicts, attempts, order, settlement | 2 events, 1 subscription, 2 inline tries, 3 attempts, 1 crash, overlapping ranges, pages of one ledger |
| `webhook_order` | (violation) are retries sent before later ranges? | ranges of one ledger |
| `server` | freshness, sharing and answers of the job state; is the network asked by one request at a time, is a failure ever remembered, is an entry servable as long as it lives? failover, insert locks (do inserts ever wait for each other in a circle?), lifecycle, maintenance and money (do the parts add up, is every slice of an income taxed at its bracket's rate, is a quotient rounded only as said?), each on its own | 3 callers, 2 changes, 3 invalidations; 3 senders; 3 requests, half-second ticks for 8 s, window 7 s, margin 2 s, TTL 4 s; the rest below |
| `submit_joiners` | (violation) is a refusal reported as a refusal? | 3 senders |
| `services` | the services around the poller, each on its own | below |
| `failover_demotion` | (violation) does a success ever make a healthy node unhealthy? | as `server` |
| `dedup_import` | (violation) does a repeated import with deduplication add rows? | as `services` |

Bounds of `services`: 3 imports on 4 ledgers with pages of 2, two of them sharing a ledger each
with the third, one retry; every chain of up to 5 events for the historical fetch, answers of 2, 2
requests for a page; 3 submitters with overlapping batches and a queue of 2; 3 events, batches of up
to 2, 2 wallets, 2 rows; 3 posts and a configured range on 5 events, one crash; releases 14 and 19
on a database of release 8 with 2 rows, one fault; 4 moves of money, 2 contracts; 3 events for
metrics; 3 retries with hints below and above the cap; intervals 1 to 10; threshold 3 of 5 failures;
2 calls in a window of 3 ticks for 6 ticks; 2 callers, TTLs of 4 and 2 ticks.

Other bounds of `server`: 2 RPC nodes, thresholds 3 and 2, 8 failures, 4 flips of a node, 2 faults; 3
callers on 3 keys, listed in different orders; 2 clients, 2 signals, 2 cycles; 2 ledgers and 2
cleanups; amounts at zero, at the signs and on both sides of every bound, up to 3 parts or brackets.

Why the bounds are enough: a ledger with 3 events and a page of 2 is the smallest instance where
a page is full, ends inside a ledger, and is followed by a shorter one; 2 ledgers let a
child be announced in one and emit in the next, and the head move on while it is caught up. Two
pages per cycle make the page budget run out. `LossHasACause` was also checked with 3 ledgers of
one event, with a second child, and with the administrator adding and removing the adopted
contract (pages of 1). With `MaxQueue = 1` a waiting range blocks the end of the next
cycle, which only delays it: the real queue has no bound, and its order is
`WebhookDelivery`'s subject. In `webhook_delivery`, 3 attempts are one range with two inline tries
and a sweep to the limit; the overlap of one ledger is the re-offer that a lagging group causes.
Lost answers and more subscriptions are left to the proofs of section 5, which hold for any set of
outcomes and any number of subscriptions. Three callers are needed for one that loads, one
that joins, and one that loads after an invalidation dropped the first load; three imports for a
ring of waiters; two releases for an older process whose schema is migrated under it. A fast build
gets the configured TTL, a slower one what is left of the window, the slowest nothing: the three
cases of `setCachedXdr`.

The properties, by module:

- `Indexer`: `LossHasACause` (an owed event behind its contract's pointer that the node still serves
  is stored or about to be, but for three reasons, each a defect of section 6: a full page has split
  its ledger; its contract is a child whose pointer ran ahead of its rows, until the `created` event
  is read again, or for good when that is skipped, lost itself or no longer served; its contract has
  no pointer of its own and was overtaken by the global one. The history variable `excused` says up to
  which ledger the last two hold, and TLC finds a violation when any of them is left out. A `created`
  event is lost itself when a split has cut it off or when the factory was overtaken, `AnnouncementLost`;
  the second was found by the proof, see section 5),
  `RecoversFromFaults` (`CatchesUp` once faults cease), `AdoptedStaysDeregistered`,
  `WebhookLossOnlyByFailure`.
- `WebhookDelivery`: `EveryRowHasVerdict` (at an empty queue every row newer than a subscription
  has an outbox entry for it, unless the subscription was disabled meanwhile or a crash dropped the
  queue), `VerdictsMatchPosts`, `FirstPostsInOrder`, `FailedIsSettled`.
- Route caches: `CacheNotBehindIndex`, `OneLoadPerGeneration`, `AnswersAreFresh`,
  `CallersAreAnswered`; `OneSubmissionAtATime`, `CachedIsAccepted`, `FailuresAreFresh` (a retry
  reaches the network or a success, never the failure of an earlier attempt); `EntryIsSignable`
  (the TTL alone keeps entries servable, so that the second look in `getFreshCachedXdr` is a
  safeguard), `FailureEvictsNothing`.
- Imports: `WorkIsExclusive` (refinement of `RangeLock`), `ImportsAreComplete` (what reports
  success has every event of its range, and counts are those of the table), `BackfillsAreExact`.
- Waiting: `ImportsEnd` (imports that wait for each other's ranges), `LocksAreSafe` (one insert at a
  time on a key, and no set of inserts each of which waits for another of the set),
  `WaitersAreServed` (every insert and cleanup ends), `NoKeyIsStuck`.
- Store and process: `PageIsCurrent`, `MigrationsAreAtomic`, `ShutdownIsOrderly`,
  `SnapshotAddsUp`, `MismatchHasACause`.
- Policies: `PollerFindsAServingNode`, `FailuresAreHandled`, `SlowsDownOnlyWhenQuiet`,
  `RateIsBounded`, `MetadataIsSound`.
- Money: `SharesAreExact` (`SplitsAreExact` of divisions, `EachSliceIsTaxed` of taxes),
  `ConversionsAreExact`.

Deadlock is looked for in every run but those of `MCServices` and `MCServer`: their parts end
(an import, a call, a process), so a last state is no defect there, and `ImportsEnd` and
`WaitersAreServed` ask what a deadlock test would.

## 4. Fairness

- `Indexer!FairSpec`: weak fairness of the steps of the poll loop (`pollLoop` re-arms its timer
  after every cycle, whatever its end) and of the delivery chain. Nothing is assumed of the
  chain, of the administrator or of crashes. With faults that recur for ever nothing can catch up,
  and the code does not claim it: `RecoversFromFaults` speaks of executions in which they cease.
- `WebhookDelivery!FairSpec`: weak fairness of the run (a POST has a time-out), of the poller's
  enqueueing (every successful cycle that polled a group queues a range, and sweeps happen only
  in runs), and of the end of a backoff (the clock). `FailedIsSettled` rests on all three.
- `JobStateCache!FairSpec` and `ServerSpec`: weak fairness of the simulation and of its answer for
  each load (the RPC call has a time-out). Nobody is obliged to call or to invalidate.
- `Services!Spec`: weak fairness of the steps of each import (calls with time-outs and synchronous
  writes).
- `Server!ServerSpec`: besides, weak fairness of `Failover!Poll` (the poll loop; nodes flip a bounded number of
  times), of the steps
  of each insert (continuations of promises that are resolved), of the drain's end and of its
  `setTimeout` (`FinishShutdown`, `ForceExit`), and of a queued cleanup (a promise in memory). No
  fairness of requests, signals, answers of the network check or maintenance timers.

## 5. The proofs

Each theorem holds for every value of the constants under the named assumptions of the modules
(`ContractsAssumption`, `BoundsAssumption`, `CallersAssumption`, and so on), which TLC evaluates in
every run that extends the module.

`RouteProofs` is about the three caches of the routes. For the job-state cache `TypeCorrect`,
`CacheIsFresh`, `SingleFlight` and `ImplementsFreshRead`, that is, that every behaviour of the cache
is one of `FreshRead`. The inductive invariant says of a load of the current generation that it is
the one in flight and has read a state no older than `indexed`; of the load in flight that it is of
the current generation; and of a caller that waits that the load it awaits is running and returns
no state older than its floor.
`CacheNotBehindIndex` alone is not inductive: it does not say why the load about to be cached is
new enough. For submissions `SubmitTypeCorrect`, `OneAtATime`, `CacheIsAccepted` and
`NoOldFailures`; `SubmitInFlightInv` says that the map in flight names exactly the request whose
call is under way and that the others that wait wait for it. For unsigned transactions
`XdrTypeCorrect`, `EntriesAreSignable` and `FailuresEvictNothing`, for any window, margin, TTL and
duration of a build: the arithmetic of whole seconds in a finer clock.

`IndexerProofs`: `TypeCorrect`, `AdoptedContracts` (the poller never revives an adopted contract)
and `WebhookLoss` (`WebhookLossOnlyByFailure`). The inductive invariant adds to the type: the
ledgers of the chain are ordered; while a group is polled, `minStartLedger` is set and no larger
than the group's start, than the ledger of its cursor and than the ledger of any row on its page, a
child's rows included; locals are empty between cycles; `due` rows are stored. The order of the
chain is what carries the bound from a cursor to the page behind it.

`LossesHaveCauses` in the same module is `LossHasACause`, the longest of the proofs. The property
speaks of the pointers alone, and a pointer takes its value from a request made earlier, beside which
chain, window, administrator and other groups move on. `LossInv` says at each place of the cycle
what the next pointer may pass:

- `PointerInv`: a passed event is `Accounted`: explained by a cause that no later step takes away
  (stored, not owed, no longer served, excused, cut off), or brought back when its `created` event,
  still ahead of the factory, is read again.
- `TodoInv`, `BehindInv`: so is whatever the groups to come start behind, and what the group at work
  does not ask for any more. `Settled` is needed beside `Accounted`: when the factory passes a
  `created` event, nothing may still count on a second reading of it. Groups share no contract, so
  one cannot disturb another; a cursor is the last row of a full page, which makes its ledger split.
- `BatchInv`: a page holds every event up to the ledger it moves its pointers to, but for the tail of
  a full page, and the batch settles the `created` events that were handled.
- `AnnounceInv`: a child is announced once, before it emits; so a child's first page leaves nothing
  out before its pointer but what a full page cuts off.
- `RowInv`, `BoundInv`: only registered contracts have pointers, the factory is the first of them, and
  no pointer is ahead of the head.

TLC checked `LossInv` on the instance of `indexer_faults` and on larger ones before it was proved.
The first attempt failed for a good reason: where the administrator registers a contract before the
factory's first page is committed, the factory has no pointer of its own, the global pointer
overtakes it (section 6), and a `created` event is lost with the child's events behind it. TLC
confirmed the trace on an instance the runs do not have, and `AnnouncementLost` names the cause.

`WebhookDeliveryProofs`: `DeliveryTypeCorrect`, `VerdictsAreTrue` (`VerdictsMatchPosts`),
`RowsHaveVerdicts` (`EveryRowHasVerdict`) and `FirstPostsAreOrdered` (`FirstPostsInOrder`), for lost answers, any subscriptions, limits, page size
and overlap. `WInv` is the type with four parts, one for each thing a run does: what its locals
hold at each of its places (`RunInv`); the POST under way is counted in `posts` and nowhere else
(`PostInv`); the rows the sweep has in hand are those of the outbox, although the run re-sends other
rows meanwhile (`SweepInv`); the outbox agrees with the posts but for the delivery under way
(`OutboxInv`). `EveryRowHasVerdict` speaks of an empty queue only; what carries it there is
`CoverInv`: an owed row has its verdict, or is in a range that waits, or is in the range of the run
and ahead of it, which needs that the run goes on at the start of a page and that it has loaded
every subscription that is owed a row of its range. For the order, `OrderInv` adds the other side,
that nothing owed is behind what was posted: posts are of stored rows, the page of the run lies in
its range and before the page to come, and a row still owed to a subscription and never posted to it
is newer than any row that was. A range that waits covers a row only if no range before it reaches
the row.

`RangeTrackerProofs`: `ImplementsRangeLock`, that the tracker refines `RangeLock` for any imports
and pages. `LockInv` says that the imports on the list of locks are exactly those at work, that
their ranges are valid and that no two of them overlap; each step then enters, leaves or stutters.
The assumption `RequestsAreBounded` (ranges asked for are integers and end at a highest ledger)
gives `RangeLock` its ledgers. `ImportsCompleteAndCountedOnce` adds `TypeOK` and
`ImportIsCompleteAndCountedOnce`, for finitely many imports and events (`SizesAreFinite`). An import
that reads its pages has collected what lies behind the page it is at (`ProgressInv`), and the
pages of a range leave no ledger between them out (`PagesAreTheRange`, with `Division`). One that
has not ended has inserted nothing (`CountInv`), so when it ends the sum of the counts grows by the
rows it adds (`TotalGrows`), whatever else was stored since its start.

`ServicesProofs` is about the thirteen services of `Services`, for all values of its constants under
the assumptions named there. The services share no variable, so a step of one leaves the invariants
of the others alone, and each has a proof of its own:

- `MetadataSound` (`MetadataIsSound`): a failure that is cached is one that happened and is not kept
  beyond its time; metadata in the cache has the token's decimals.
- `SlowsDownWhenQuiet` (`SlowsDownOnlyWhenQuiet`), from the bounds of each interval.
- `FailuresHandled` (`FailuresAreHandled`): `MonitorInv` and `RetryInv` are the properties themselves
  and what connects a count with its alert, a wait with the attempt behind it.
- `RateBounded` (`RateIsBounded`): calls let through are listed with their times. `Fit` says how
  many of the last ones may lie in the window that is counted; what lies before them is as far apart
  as the property asks. The bound of twice the limit speaks of the whole history, so it also has to
  be carried for calls of windows that were forgotten.
- `MigrationsAtomic` (`MigrationsAreAtomic`): `AtRelease` fixes every part of a database by one
  number. The database, the copy a transaction started from and the copy it works on are each at a
  release; only one process writes; a process that runs has a release that is not ahead of the
  database. The property says less of a process in the middle of its migrations, where a failure
  has to find the way back.
- `BackfillsExact` (`BackfillsAreExact`): while pages are read, what lies in the range and not behind
  the cursor is stored (`FetchesAreOnTheirWay`), and the range ends on a closed ledger; a page is the
  beginning of what the node has, so one that is not full is the last. `GuardInv` says which
  request holds the guard at each of its places.
- `NoKeyStaysBehind` (`NoKeyIsStuck`): the keys of rows that wait, are held by a submitter or are
  under way are all different and are exactly the pending ones, so that a row that fails takes its
  own key away and nobody else's.
- `PagesAreCurrent` (`PageIsCurrent`): a page depends on the rows of the jobs of its wallet and on
  its roles (`SamePage`); an insert by a writer that announces the wallets drops every page the new
  rows could change (`InsertAdds`).

- `SnapshotsAddUp` (`SnapshotAddsUp`): between its queries a collection holds the snapshot it read,
  and each answer is that of the events in it (`CountsInv`). The counts by type and by ledger both
  add up to the total because every event has one type and one ledger (`CountingByClasses`).
- `MismatchesHaveCauses` (`MismatchHasACause`, an action property): the sums in hand are those of the
  events they were taken over, and all of these had happened on the chain (`SumsInv`); so expected
  and balance are equal, or an event of the difference moves money.
- `ImportsComplete` (`ImportsAreComplete`) joins the range tracker and the historical fetch. For the
  tracker it takes over the invariant of `RangeTrackerProofs`, through an instance of that module on
  the variables of `Services`. `FetchInv` says that up to the cursor there are as many events from
  the start of the page on as requests times their limit; so a page that ends at its request limit
  has kept exactly what the property counts, and one that ends before it everything it has
  (`AnswerOfAPage`). The pages lie one behind the other, so what is appended is in order (`Appending`).
- `WorkExclusive` (`WorkIsExclusive`): the tracker among the services implements `RangeLock`.
- `ServicesTypesCorrect` (`ServicesTypeOK`): every variable of the thirteen services stays in its
  type, from the invariants above.

Three of them asked for changes of the model: a page of the store, of a backfill or of the historical
fetch is now a set of positions and no sequence built by a loop, the limiter keeps all of its
history, and the query behind `GetJobsByWallet` is put together from named parts.

`CollectionFacts` derives from the well-foundedness of `<` on the naturals that the minima and maxima
of the library exist, and what the first rows of a result and a listing of them are. It also has the
theory of finite sums the counts rest on: `Total` is defined by `CHOOSE` of a function that adds up
to it, so the facts start with the existence of such a function for every finite set
(`SumsExist`), by an induction that is stated over sets of numbers and sets of sets (`Induction`,
`SetInduction`), since the induction theorems of the library take an operator the provers cannot
instantiate. From it follow that a sum is a number (`TotalType`), that members of value 0 do not
count (`TotalOfPart`), how it grows with one value (`TotalGrows`) and that the sizes of the classes
of a set add up to its own (`CountingByClasses`); and, for pages of ledgers, that quotients exist
and pages cover what they divide (`Division`, `PagesCover`).

`MoneyProofs` is about the arithmetic, for all amounts, parts, weights, rates and brackets.

- `SplitsExact` (`SplitsAreExact`): the parts of every accepted split and what it leaves over add up
  to the amount, and each part is its share to a unit. Sums are folds over the list of parts; their
  facts are proved from the running sums, by an induction stated over sets of numbers (`Upwards`).
- `SlicesAreTaxed` (`EachSliceIsTaxed`): the loop of the estimator, which carries what is left of the
  income from bracket to bracket, taxes each slice at its bracket's rate, whatever the brackets.
- `ConversionsExact` (`ConversionsAreExact`): a conversion is the exact value rounded once, by the
  mode that was asked for. Powers of ten are a recursive function, so that one exists has to be
  shown first; rounding is compared after both sides are scaled by a power of ten.
- `SplitTypes`, `TaxTypes`, `UnitTypes`: the types of the three.

`ServerProofs` is about the composition of `Server`.

- `LocksSafe` (`LocksAreSafe`): `LocksInv` adds to the property what an insert is on. It is on the
  chain of the keys it holds and of the one it waits for and on no other, once; the keys it holds are
  below those it misses. So whoever is first on a chain holds the key or may take it, and of the
  inserts of a set the one that waits for the highest key waits for somebody who holds that key and
  waits, if at all, for a higher one: no circle. The invariant was checked by TLC first.
- `ServerTypes` (`ServerTypeOK`): every variable of the ten parts stays in its type. For failover this
  needs that the healthiest node is one of the configured ones (`HealthiestIsANode`): the nodes
  are sorted by a total order, so exactly one of them is first.
- `DatabaseClosesLast` (`L!DatabaseOutlivesRequests`): the safety part of `ShutdownIsOrderly`, that
  the database is closed, and the process left with 0, only when every accepted request is answered.
- `SharesExact` (`SharesAreExact`), from `SplitsExact` and `SlicesAreTaxed`.
- `ServerIsSafe` and `ServerStepsAreSafe`: the safety properties of the run `server` hold of the
  composition. The parts share no variable, so a step of the composition is a step of each part or
  leaves it alone (`PartSteps`), and a part's theorem carries over (`PartsRun`).

The proofs asked for changes of the model that leave what it says as it was: the order of the last
successes in `Failover` is a place for each node instead of a sequence that is filtered, an insert
holds a set of keys instead of a prefix of its list, the money functions have specifications of
their own that name their inputs as constants, and `Server` was taken out of `MCServer`.

Only model-checked are the liveness properties, which are out of the prover's reach
(`RecoversFromFaults`, `FailedIsSettled`, `CallersAreAnswered`, `ImportsEnd`, `WaitersAreServed`,
`PollerFindsAServingNode`, and of `ShutdownIsOrderly` that a signal ends the process), and the runs
that expect a violation. Every other property of a passing run is a theorem.

## 6. Where code and documentation disagree

Shown by a run:

1. `indexer_split`. `poller.ts:896-899` says a failure on page N leaves the pointer at the last
   ledger fully stored. The pointer moves to the last ledger *on* a full page, which the page may
   have cut; when the next page fails, the following cycle starts behind that ledger and the rest
   of its events is never fetched.
2. `indexer_webhook_gap`. `README.md:69` says webhooks are delivered at least once. The range of
   a cycle ends at the head read at its start, but rows and pointers go up to the `latestLedger`
   of the pages. A ledger closed in between is stored and then in no range.
3. `indexer_child_skip`. The warning at `poller.ts:964` says a child whose first fetch fails "will catch
   up next cycle". Line 962 moves the child's pointer before the rows are committed: when that commit
   fails, or the process dies, the next cycle reads the `created` event again, and if the fetch fails
   this time, the factory's pointer passes the event and the rows are lost.
4. `webhook_order`. `docs/webhooks.md:9-11` says every event of an earlier range, retries
   included, is sent before any of a later one. A delivery that fails its inline tries is swept
   in a later run, after later events were sent.
5. `submit_joiners`, a bug of the code: the comment at `submit.ts:106-107` says rejected and
   overloaded states are classified instead of reported as success. They are in the request that
   submitted; a request that joined it (`submit.ts:70-71`) reports success for any status.
6. `failover_demotion`, a bug of the code: `failover-recovery.ts:349-353` says a success eases a
   node back toward healthy. Line 375 decides from the counts alone, so a node that is healthy with
   failures on its row becomes unhealthy by its first success.
7. `dedup_import`. The comment at `db.ts:2606-2608` speaks of `INSERT OR IGNORE` against
   `UNIQUE(contract_id, ledger_sequence, event_type)`. Migration 13 dropped that constraint, and the
   rows carry no `event_id`: repeating an import stores each event again.

Seen while modelling; each is in the model unless it says otherwise, none has a run of its own:

- `db.ts:1313`: a contract with neither pointer nor start ledger is polled from the global pointer.
  That is meant for contracts never polled, but a crash between the commit of a contract's first page
  and its pointer (`poller.ts:987-992`) makes a polled one, the factory included, look like it: when
  the next cycle polls another group only, the global pointer moves on and takes it along, past
  events that are never fetched. The same happens to a factory that was never polled when a contract
  the administrator registered is polled before it; its children are then never discovered.
- A child's pointer that ran ahead of its rows (finding 3) is also never repaired when its `created`
  event leaves the retention window first, or is cut off by a split (finding 1) at the second reading,
  with an adopted contract's events on the page.
- `db.ts:1157`: one key holds the skipped range, a second gap overwrites the first. `poller.ts:767`:
  a deregistered factory is registered again by the next poll.
- A subscription disabled during a run still gets the rest of that run and the sweeps, and a
  successful sweep does not reset its failure counter. An event older than a subscription may reach
  it after newer ones, when a lagging group makes a range reach back.
- `fetchHistoricalEvents` pages with the cursor beyond its end ledger. `RpcEventQueue` drops a second
  event of the same contract, ledger and type as a duplicate. `insertEventLocked` and
  `insertEventBatchLocked` lock different keys for one event.
- A stall warning's latch is never cleared by a success (`indexer_runner.ts`,
  `ledger-range-tracker.ts`). Failover: the threshold is said to be of consecutive failures but the
  count is net of successes; the first backoff is already doubled; `next_retry_at` is never read.
- `runMigrations` says each migration has its own transaction (`db.ts:729-730`); there is one
  around all, with a savepoint for each. Migration 13 gives old rows ids of their own (`legacy-`),
  so a refetch of an old ledger stores them a second time.
- A signal before the network check answers: the check starts the poller after `stopPoller` ran. The
  webhook chain is not drained at shutdown.
- Pages by wallet: `insertEvent`, deletions and pruning do not drop them, the types listed for
  `extractAddressesFromEvents` are not those the contracts emit, and the key is lower-cased while
  the query is not (the last is not modelled). `deleteEventsInRange` leaves a sync range it only
  partly covers. A pruned event makes reconciliation report a mismatch.
- `vacuumLockActive` goes false when the first of several cleanups ends.
- `calculatePercentageFeeAllocation` refuses some percentages that add up to 100 after rounding each
  up; `splitByWeights` may give what is left to a part of weight zero; a bracket schedule without a
  catch-all, which `tax_deduction_estimator.ts:1107-1109` demands, is accepted and leaves the rest
  untaxed.
- The limiters are said to use a sliding or rolling window (`conversion_rate_math.ts:170`,
  `token_decimals_converter.ts:89`) and use fixed ones: up to twice the limit passes within the
  length of a window, which is the bound `RateIsBounded` states.
- Token metadata: an empty name is cached like a good one, decimals that are no number are not
  remembered as a failure, and concurrent misses simulate each.

## 7. Not modelled

- Read-through route caches (time remaining, whitelist, fee preview): the same cache and map as in
  `UnsignedXdr` and `JobStateCache`, without window or invalidation.
- Routes that only read, middleware, schemas, readiness and configuration: no state that survives a
  request. Their limiters are windows of a library.
- The webhook transport (signature, address check, event filter): pure functions around the POST,
  whose outcomes `WebhookDelivery` has.
- Push notifications: not called by the server.
- Formatting, CSV, logging, statistics and reports: text, no control state. Wording and codes of
  refusals in the money modules.
- A poller that is stopped and started again while a cycle runs: the server never does it.
- Libraries (express-rate-limit, node-cache beyond get, set, delete and expiry).

`PROJECT.json` gives the reason for each component, and for each that is partly modelled what is
left out.

## 8. Plan

Done, in the order the system matters: the poller, webhook delivery, the job-state cache and the
route caches; imports, backfills, queues and locks; failover and the policies around it; process,
schema and maintenance; reads over several steps; money. All safety properties the passing runs
check are proved.

Left: one at-least-once specification of offered rows over `Indexer` and `WebhookDelivery`
together, with the losses of findings 1 and 2 as its only exceptions.
