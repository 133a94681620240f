------------------------------- MODULE Services -------------------------------
(***************************************************************************)
(* The services around the live poller: imports and backfills, the stores  *)
(* of events, migrations, reconciliation, metrics, and the policies they   *)
(* share.  They have no state in common: mode says in the first state      *)
(* which one a behaviour is about, and the others keep their initial       *)
(* state.  A variable has the name it has in its module behind a letter    *)
(* for the module, and a constant the name it has there, unless two        *)
(* modules use it for different things.                                    *)
(***************************************************************************)
EXTENDS Integers, Sequences, FiniteSets

CONSTANTS
  Modes,                                     \* the services to check
  Imports, Options, EnvRange, TrackedEvents, \* RangeTracker
  PageSize, MaxRetries, MaxLedger,
  Chains, Wanted, Limit, MaxRequests,        \* HistoricalFetch
  Submitters, Batch, KeyOf, MaxQueueSize, MaxRefusals,   \* EventQueue
  Events, Batches, Wallets, StoreImports, Ranges, JobsPageSize, MaxRows,   \* EventStore
  Posts, Configured, OnChain, Undecodable, MaxSpan, MaxHead, MaxCrashes, \* Backfill
  Processes, Shipped, Stored, OldRows, MaxFaults,        \* Migrations
  Moves, MoveOf, Contracts, MaxResults,      \* Reconciliation
  Stock, TypeOf, LedgerOf,                   \* Metrics
  RetryLimit, MaxBackoff, Hints,             \* Retry
  BaseInterval, MinInterval, MaxInterval, IdleThreshold, \* Throttle
  Threshold, MaxFailures,                    \* FailureMonitor
  Clients, Window, MaxCalls, MaxNow,         \* RateLimiter
  Callers, Decimals, DefaultDecimals, CacheTtl, FailureTtl   \* TokenMetadata

ASSUME PoliciesAssumption ==
  /\ RetryLimit \in Nat /\ MaxBackoff \in Nat /\ Hints \subseteq Nat
  /\ {MinInterval, BaseInterval, MaxInterval} \subseteq Nat
  /\ MinInterval <= BaseInterval /\ BaseInterval <= MaxInterval
  /\ IdleThreshold \in Nat \ {0}
  /\ Threshold \in Nat \ {0} /\ MaxFailures \in Nat

ASSUME LimitsAssumption ==
  /\ "all" \notin Clients
  /\ Window \in Nat \ {0} /\ MaxCalls \in Nat \ {0} /\ MaxNow \in Nat
  /\ Decimals \in Nat /\ DefaultDecimals \in Nat
  /\ CacheTtl \in Nat /\ FailureTtl \in Nat

ASSUME MigrationsAssumption ==
  /\ Shipped \in [Processes -> 0 .. 19] /\ Stored \in 0 .. 19
  /\ MaxRetries \in Nat /\ MaxFaults \in Nat

ASSUME BackfillAssumption ==
  /\ "configured" \notin DOMAIN Posts
  /\ OnChain \in Seq(Nat) /\ \A i, j \in DOMAIN OnChain : i < j => OnChain[i] <= OnChain[j]
  /\ Limit \in Nat \ {0} /\ MaxHead \in Nat \ {0} /\ MaxCrashes \in Nat

ASSUME QueueAssumption ==
  /\ \A s \in Submitters : Batch[s] \in Seq(DOMAIN KeyOf)
  /\ "none" \notin DOMAIN KeyOf
  /\ MaxQueueSize \in Nat /\ MaxRefusals \in Nat

ASSUME StoreAssumption ==
  /\ \A batch \in Batches : batch \in Seq(Events)
  /\ \A import \in StoreImports : import.events \in Seq(Events) /\ import.start <= import.end
  /\ \A r \in Ranges : r.start \in Int /\ r.end \in 0 .. MaxLedger
  /\ MaxLedger \in Nat /\ MaxRows \in Nat

ASSUME ImportsAssumption ==
  /\ {EnvRange.start, EnvRange.end} \subseteq Int /\ EnvRange.end <= MaxLedger
  /\ \A i \in Imports :
       /\ {Options[i].start, Options[i].end, Options[i].defaultEnd} \subseteq Int
       /\ Options[i].end <= MaxLedger /\ Options[i].defaultEnd <= MaxLedger
  /\ IsFiniteSet(Imports) /\ IsFiniteSet(DOMAIN TrackedEvents)
  /\ \A e \in DOMAIN TrackedEvents : TrackedEvents[e] \in Int
  /\ PageSize \in Nat \ {0}

\* What the RPC server has is in the order of the ledgers.
ASSUME FetchAssumption ==
  /\ \A c \in Chains : c \in Seq(Int) /\ \A i, j \in DOMAIN c : i < j => c[i] <= c[j]
  /\ {Wanted.start, Wanted.end} \subseteq Int /\ Wanted.start <= Wanted.end
  /\ Limit \in Nat \ {0} /\ MaxRequests \in Nat \ {0}

ASSUME MetricsAssumption == IsFiniteSet(Stock) /\ "none" \notin Stock

ASSUME MovesAssumption ==
  /\ IsFiniteSet(Moves) /\ \A m \in Moves : MoveOf[m].amount \in Int
  /\ Contracts \in Seq(STRING) /\ \A i \in DOMAIN Contracts : Contracts[i] # "none"

VARIABLE mode

VARIABLES tPhase, tRange, tBlockers, tActive, tPage, tAttempt, tCollected,
  tInserted, tEvents, tPointer, tFailures
tVars == <<tPhase, tRange, tBlockers, tActive, tPage, tAttempt, tCollected,
    tInserted, tEvents, tPointer, tFailures>>
T == INSTANCE RangeTracker WITH
  OnChain <- TrackedEvents, phase <- tPhase, range <- tRange,
  blockers <- tBlockers, active <- tActive, page <- tPage, attempt <- tAttempt,
  collected <- tCollected, inserted <- tInserted, events <- tEvents,
  pointer <- tPointer, failures <- tFailures

VARIABLES hChain, hStatus, hPageNo, hCursor, hRequest, hAttempt, hFetched
hVars == <<hChain, hStatus, hPageNo, hCursor, hRequest, hAttempt, hFetched>>
H == INSTANCE HistoricalFetch WITH
  chain <- hChain, status <- hStatus, pageNo <- hPageNo, cursor <- hCursor,
  request <- hRequest, attempt <- hAttempt, fetched <- hFetched

VARIABLES qStage, qHand, qPending, qPendingKeys, qPersistedKeys, qRows, qTold,
  qRefusals
qVars == <<qStage, qHand, qPending, qPendingKeys, qPersistedKeys, qRows,
    qTold, qRefusals>>
Q == INSTANCE EventQueue WITH
  stage <- qStage, hand <- qHand, pending <- qPending,
  pendingKeys <- qPendingKeys, persistedKeys <- qPersistedKeys, rows <- qRows,
  told <- qTold, refusals <- qRefusals

VARIABLES sRows, sParticipants, sPages, sSyncRanges, sPointer, sExcused
sVars == <<sRows, sParticipants, sPages, sSyncRanges, sPointer, sExcused>>
S == INSTANCE EventStore WITH
  Imports <- StoreImports, PageSize <- JobsPageSize, rows <- sRows,
  participants <- sParticipants, pages <- sPages, syncRanges <- sSyncRanges,
  pointer <- sPointer, excused <- sExcused

VARIABLES bHead, bRows, bUndecoded, bRecorded, bStep, bCursor, bStarting, bJob,
  bCrashes
bVars == <<bHead, bRows, bUndecoded, bRecorded, bStep, bCursor, bStarting,
    bJob, bCrashes>>
B == INSTANCE Backfill WITH
  head <- bHead, rows <- bRows, undecoded <- bUndecoded, recorded <- bRecorded,
  step <- bStep, cursor <- bCursor, starting <- bStarting, job <- bJob,
  crashes <- bCrashes

VARIABLES mDb, mCommits, mProc, mCopy, mBase, mWriting, mAttempt, mFaults
mVars == <<mDb, mCommits, mProc, mCopy, mBase, mWriting, mAttempt, mFaults>>
M == INSTANCE Migrations WITH
  db <- mDb, commits <- mCommits, proc <- mProc, copy <- mCopy, base <- mBase,
  writing <- mWriting, attempt <- mAttempt, faults <- mFaults

VARIABLES rOnChain, rStored, rPruned, rJob, rSums, rResults
rVars == <<rOnChain, rStored, rPruned, rJob, rSums, rResults>>
R == INSTANCE Reconciliation WITH
  onChain <- rOnChain, stored <- rStored, pruned <- rPruned, job <- rJob,
  sums <- rSums, results <- rResults

VARIABLES xLive, xSnapshot, xRange, xStage, xPartial, xLast, xProcessed
xVars == <<xLive, xSnapshot, xRange, xStage, xPartial, xLast, xProcessed>>
X == INSTANCE Metrics WITH
  live <- xLive, snapshot <- xSnapshot, range <- xRange, stage <- xStage,
  partial <- xPartial, last <- xLast, processed <- xProcessed

VARIABLES yLoop, yAttempt, yDelays, yOutcome, yLastError
yVars == <<yLoop, yAttempt, yDelays, yOutcome, yLastError>>
Y == INSTANCE Retry WITH
  MaxRetries <- RetryLimit, loop <- yLoop, attempt <- yAttempt,
  delays <- yDelays, outcome <- yOutcome, lastError <- yLastError

VARIABLES pPolicy, pInterval, pIdle, pQuiet
pVars == <<pPolicy, pInterval, pIdle, pQuiet>>
P == INSTANCE Throttle WITH
  policy <- pPolicy, interval <- pInterval, idle <- pIdle, quiet <- pQuiet

VARIABLES nKind, nFailures, nSucceeded, nOverdue, nAlertActive, nStallAlerted,
  nAlerts
nVars == <<nKind, nFailures, nSucceeded, nOverdue, nAlertActive,
    nStallAlerted, nAlerts>>
N == INSTANCE FailureMonitor WITH
  kind <- nKind, failures <- nFailures, succeeded <- nSucceeded,
  overdue <- nOverdue, alertActive <- nAlertActive,
  stallAlerted <- nStallAlerted, alerts <- nAlerts

VARIABLES wNow, wKind, wBucket, wAdmitted
wVars == <<wNow, wKind, wBucket, wAdmitted>>
W == INSTANCE RateLimiter WITH
  now <- wNow, kind <- wKind, bucket <- wBucket, admitted <- wAdmitted

VARIABLES oNow, oStage, oMetadata, oFailure, oAnswer, oLastFailed
oVars == <<oNow, oStage, oMetadata, oFailure, oAnswer, oLastFailed>>
O == INSTANCE TokenMetadata WITH
  now <- oNow, stage <- oStage, metadata <- oMetadata, failure <- oFailure,
  answer <- oAnswer, lastFailed <- oLastFailed

-----------------------------------------------------------------------------
\* A service that is not checked starts in one state.
Init ==
  /\ mode \in Modes
  /\ T!Init
  /\ H!Init
  /\ Q!Init
  /\ S!Init
  /\ B!Init
  /\ M!Init
  /\ R!Init
  /\ X!Init
  /\ Y!Init
  /\ P!Init
  /\ N!Init
  /\ W!Init
  /\ O!Init
  /\ mode # "historical_fetch" => hChain = <<>>
  /\ mode # "retry" => yLoop = "rpc"
  /\ mode # "throttle" => pPolicy = "poller"
  /\ mode # "monitor" => nKind = "metrics"
  /\ mode # "limiter" => wKind = "client"

\* The other services stay as they are.
Alone(service) ==
  /\ UNCHANGED mode
  /\ service # "range_tracker" => UNCHANGED tVars
  /\ service # "historical_fetch" => UNCHANGED hVars
  /\ service # "event_queue" => UNCHANGED qVars
  /\ service # "event_store" => UNCHANGED sVars
  /\ service # "backfill" => UNCHANGED bVars
  /\ service # "migrations" => UNCHANGED mVars
  /\ service # "reconciliation" => UNCHANGED rVars
  /\ service # "metrics" => UNCHANGED xVars
  /\ service # "retry" => UNCHANGED yVars
  /\ service # "throttle" => UNCHANGED pVars
  /\ service # "monitor" => UNCHANGED nVars
  /\ service # "limiter" => UNCHANGED wVars
  /\ service # "metadata" => UNCHANGED oVars

Next ==
  \/ mode = "range_tracker" /\ T!Next /\ Alone("range_tracker")
  \/ mode = "historical_fetch" /\ H!Next /\ Alone("historical_fetch")
  \/ mode = "event_queue" /\ Q!Next /\ Alone("event_queue")
  \/ mode = "event_store" /\ S!Next /\ Alone("event_store")
  \/ mode = "backfill" /\ B!Next /\ Alone("backfill")
  \/ mode = "migrations" /\ M!Next /\ Alone("migrations")
  \/ mode = "reconciliation" /\ R!Next /\ Alone("reconciliation")
  \/ mode = "metrics" /\ X!Next /\ Alone("metrics")
  \/ mode = "retry" /\ Y!Next /\ Alone("retry")
  \/ mode = "throttle" /\ P!Next /\ Alone("throttle")
  \/ mode = "monitor" /\ N!Next /\ Alone("monitor")
  \/ mode = "limiter" /\ W!Next /\ Alone("limiter")
  \/ mode = "metadata" /\ O!Next /\ Alone("metadata")

vars ==
  <<mode, tVars, hVars, qVars, sVars, bVars, mVars, rVars, xVars, yVars, pVars, nVars, wVars, oVars>>

Spec ==
  /\ Init /\ [][Next]_vars
  /\ \A i \in Imports : WF_vars(mode = "range_tracker" /\ T!Step(i) /\ Alone("range_tracker"))

(***************************************************************************)
(* Properties: those of the modules, by their names there                  *)
(***************************************************************************)

\* The type invariant of every service.
ServicesTypeOK ==
  /\ mode \in Modes
  /\ T!TypeOK
  /\ H!TypeOK
  /\ Q!TypeOK
  /\ S!TypeOK
  /\ B!TypeOK
  /\ M!TypeOK
  /\ R!TypeOK
  /\ X!TypeOK
  /\ Y!TypeOK
  /\ P!TypeOK
  /\ N!TypeOK
  /\ W!TypeOK
  /\ O!TypeOK

\* Imports of the ledger range tracker that share a ledger never work at once:
\* RangeTracker implements RangeLock.
WorkIsExclusive == T!WorkIsExclusive

\* Imports that wait for each other's ranges all end (withOverlappingRangeLock).
ImportsEnd == mode = "range_tracker" => T!EveryImportEnds

\* Imports through the ledger range tracker and the RPC client store and return
\* exactly the events of their ranges.
ImportsAreComplete == T!ImportIsCompleteAndCountedOnce /\ H!FetchIsComplete

\* No key of the RPC client's write queue is left behind (RpcEventQueue).
NoKeyIsStuck == Q!NoKeyIsStuck

\* A cached page of jobs by wallet is current but for the known gaps (getJobsByWallet).
PageIsCurrent == S!PageIsCurrent

\* Importing stored events again adds nothing (insertEventsWithDedup).
ReimportAddsNothing == S!ReimportAddsNothing

\* A backfill recorded or reported as done has its events, and the guard against
\* a second one is held exactly while one runs (admin.ts, poller.ts).
BackfillsAreExact == B!DoneBackfillIsComplete /\ B!GuardHasItsBackfill

\* The database is always at one release, and every process that runs has the
\* schema of its own (runMigrations and the schema checks).
MigrationsAreAtomic == M!SchemaMatchesVersions /\ M!ProcessesRunOnTheirSchema

\* A mismatch has a cause outside of the arithmetic (reconcileContract).
MismatchHasACause == R!MismatchHasACause

\* The counts of a collection add up (collectIndexerMetrics).
SnapshotAddsUp == X!SnapshotAddsUp

\* Retries are spaced as asked and outages are reported (withRetry and its kin,
\* FailureMonitor).
FailuresAreHandled == Y!EveryAttemptIsSpaced /\ N!OutageIsReported

\* No more than twice the limit of calls is let through in the time of a window,
\* and none is refused below it (the limiters of the money modules).
RateIsBounded == W!RateIsBounded

\* Amounts are written with their token's decimals, and a failure to read those is
\* forgotten in time (token-metadata.ts).
MetadataIsSound == O!MetadataIsSound

\* Services slow down only when quiet (the polling intervals).
SlowsDownOnlyWhenQuiet == P!SlowsDownOnlyWhenQuiet
=============================================================================
