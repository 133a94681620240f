------------------------------- MODULE Server --------------------------------
(***************************************************************************)
(* The server process: the caches of its job routes (the job state of GET, *)
(* the results of submit, unsigned transactions), and what is around them: *)
(* RPC failover, the locks of inserts, startup and shutdown, the           *)
(* maintenance, and the arithmetic of amounts.  They are composed as in    *)
(* Services: mode says in the first state which one runs.                  *)
(***************************************************************************)
EXTENDS JobStateCache, Submit, UnsignedXdr, FeeSplits, TaxEstimator, UnitConversions

CONSTANTS
  Modes,                                                       \* the parts to check
  RpcUrls, FailureThreshold, SuccessThreshold, MaxBackoff,     \* Failover
  MaxFailures, MaxFlips, MaxPollFaults,
  Inserts, KeyRank, KeysOf,                                    \* InsertLocks
  Connections, MaxSignals, MaxCycles,                          \* Lifecycle
  Ledgers, Cleanups, MaxRetries, MaxPruneFaults                \* Maintenance

\* At least one node is configured, and a node counts and waits up to a bound.
ASSUME FailoverAssumption ==
  /\ RpcUrls \in Seq({RpcUrls[i] : i \in DOMAIN RpcUrls}) /\ RpcUrls # <<>>
  /\ SuccessThreshold \in Nat /\ MaxBackoff \in Nat \ {0} /\ MaxFailures \in Nat

\* The keys are numbered in the order of their strings, and every insert has a list of keys.
ASSUME LocksAssumption ==
  /\ IsFiniteSet(DOMAIN KeyRank)
  /\ KeyRank \in [DOMAIN KeyRank -> 1 .. Cardinality(DOMAIN KeyRank)]
  /\ \A j, k \in DOMAIN KeyRank : KeyRank[j] = KeyRank[k] => j = k
  /\ KeysOf \in [Inserts -> Seq(DOMAIN KeyRank)]

\* The bounds are numbers.
ASSUME ServerBoundsAssumption ==
  MaxSignals \in Nat /\ MaxCycles \in Nat /\ MaxRetries \in Nat /\ MaxPruneFaults \in Nat

VARIABLE mode

VARIABLES fRow, fLastSuccess, fDbActive, fActive, fSelected, fUp, fFlips,
  fFaults
fVars == <<fRow, fLastSuccess, fDbActive, fActive, fSelected, fUp, fFlips,
    fFaults>>
F == INSTANCE Failover WITH
  MaxFaults <- MaxPollFaults, row <- fRow, lastSuccess <- fLastSuccess, dbActive <- fDbActive,
  active <- fActive, selected <- fSelected, up <- fUp, flips <- fFlips,
  faults <- fFaults

VARIABLES kChain, kHeld, kWaiting, kStage
kVars == <<kChain, kHeld, kWaiting, kStage>>
K == INSTANCE InsertLocks WITH
  chain <- kChain, held <- kHeld, waiting <- kWaiting, stage <- kStage

VARIABLES lState, lExitCode, lNetwork, lBusy, lDbOpen, lPollerRunning,
  lInCycle, lForceTimer, lSignals, lCycles
lVars == <<lState, lExitCode, lNetwork, lBusy, lDbOpen, lPollerRunning,
    lInCycle, lForceTimer, lSignals, lCycles>>
L == INSTANCE Lifecycle WITH
  Clients <- Connections, state <- lState, exitCode <- lExitCode, network <- lNetwork,
  busy <- lBusy, dbOpen <- lDbOpen, pollerRunning <- lPollerRunning, inCycle <- lInCycle,
  forceTimer <- lForceTimer, signals <- lSignals, cycles <- lCycles

VARIABLES vStored, vExpired, vQueue, vLocked, vOutcome, vScheduled, vWaited,
  vFaultsUsed
vVars == <<vStored, vExpired, vQueue, vLocked, vOutcome, vScheduled, vWaited,
    vFaultsUsed>>
V == INSTANCE Maintenance WITH
  MaxFaults <- MaxPruneFaults, stored <- vStored, expired <- vExpired, queue <- vQueue,
  locked <- vLocked, outcome <- vOutcome, scheduled <- vScheduled, waited <- vWaited,
  faultsUsed <- vFaultsUsed

-----------------------------------------------------------------------------
ServerInit ==
  /\ mode \in Modes
  /\ Init /\ SubmitInit /\ XdrInit
  /\ mode # "xdr" => route = "build-tx"
  /\ F!Init
  /\ K!Init
  /\ L!Init
  /\ V!Init
  /\ SplitInit /\ TaxInit /\ UnitInit

\* The other parts stay as they are.
Alone(part) ==
  /\ UNCHANGED mode
  /\ part # "job" => UNCHANGED vars
  /\ part # "submit" => UNCHANGED submitVars
  /\ part # "xdr" => UNCHANGED xdrVars
  /\ part # "failover" => UNCHANGED fVars
  /\ part # "insert_locks" => UNCHANGED kVars
  /\ part # "lifecycle" => UNCHANGED lVars
  /\ part # "maintenance" => UNCHANGED vVars
  /\ part # "splits" => UNCHANGED splitVars
  /\ part # "tax" => UNCHANGED taxVars
  /\ part # "units" => UNCHANGED unitVars

ServerNext ==
  \/ mode = "job" /\ Next /\ Alone("job")
  \/ mode = "submit" /\ SubmitNext /\ Alone("submit")
  \/ mode = "xdr" /\ XdrNext /\ Alone("xdr")
  \/ mode = "failover" /\ F!Next /\ Alone("failover")
  \/ mode = "insert_locks" /\ K!Next /\ Alone("insert_locks")
  \/ mode = "lifecycle" /\ L!Next /\ Alone("lifecycle")
  \/ mode = "maintenance" /\ V!Next /\ Alone("maintenance")
  \/ mode = "splits" /\ SplitNext /\ Alone("splits")
  \/ mode = "tax" /\ TaxNext /\ Alone("tax")
  \/ mode = "units" /\ UnitNext /\ Alone("units")

serverVars ==
  <<mode, vars, submitVars, xdrVars, fVars, kVars, lVars, vVars, splitVars, taxVars, unitVars>>

\* Outside of its mode no action of a part is enabled: its fairness asks for nothing.
ServerSpec ==
  /\ ServerInit /\ [][ServerNext]_serverVars
  /\ \A c \in Callers : WF_vars(Simulate(c)) /\ WF_vars(FinishLoad(c))
  /\ WF_fVars(mode = "failover" /\ F!Poll)
  /\ \A c \in Inserts : WF_kVars(mode = "insert_locks" /\ K!Step(c))
  /\ WF_lVars(mode = "lifecycle" /\ L!ForceExit)
  /\ WF_lVars(mode = "lifecycle" /\ L!FinishShutdown)
  /\ WF_vVars(mode = "maintenance" /\ V!RunVacuumCleanup)

(***************************************************************************)
(* Properties: those of the modules, by their names there                  *)
(***************************************************************************)

\* The type invariant of every part.
ServerTypeOK ==
  /\ mode \in Modes
  /\ TypeOK /\ SubmitTypeOK /\ XdrTypeOK
  /\ F!TypeOK
  /\ K!TypeOK
  /\ L!TypeOK
  /\ V!TypeOK
  /\ SplitTypeOK /\ TaxTypeOK /\ UnitTypeOK

\* After any failures, failed writes and restarts the poller comes to an RPC node
\* that answers (failover-recovery.ts, poller.ts).
PollerFindsAServingNode == F!PollerFindsAServingNode

\* A success never makes a healthy RPC node unhealthy (recordNodeSuccess).
SuccessNeverDemotes == F!SuccessNeverDemotes

\* A signal ends the process, and the database is closed only when all requests
\* are answered (shutdown.ts).
ShutdownIsOrderly == (mode = "lifecycle" => L!SignalEndsProcess) /\ L!DatabaseOutlivesRequests

\* Inserts that lock the keys of their batches and wait for each other all end, and
\* a queued cleanup runs (insertEventBatchLocked, runVacuumCleanupConcurrent).
WaitersAreServed ==
  /\ mode = "insert_locks" => K!EveryInsertEnds
  /\ mode = "maintenance" => V!EveryCleanupRuns

\* An amount is shared out exactly, and a tax takes from each slice of it what the
\* slice's bracket says (the functions of FeeSplits, estimateBracketTax).
SharesAreExact == SplitsAreExact /\ EachSliceIsTaxed

\* Inserts never write rows with the same key at once nor wait in a circle
\* (withEventInsertLock, acquireEventLocksInOrder).
LocksAreSafe == K!LocksAreSafe
=============================================================================
