--------------------------- MODULE ServicesProofs ---------------------------
(***************************************************************************)
(* Proofs about Services, for all values of its constants.  The services   *)
(* share no variable, so each proof is about one of them: its invariant,   *)
(* that each of its steps keeps it, and what follows.  What is said of     *)
(* sets and sums is in CollectionFacts.                                    *)
(***************************************************************************)
EXTENDS Services, CollectionFacts

\* A step of the composition is one of each service, or leaves it alone.
LEMMA TSteps == [Next]_vars => [T!Next]_tVars
  BY DEF Next, vars, Alone

\* Seen from the historical fetch.
LEMMA HSteps == [Next]_vars => [H!Next]_hVars
  BY DEF Next, vars, Alone

\* Seen from the write queue.
LEMMA QSteps == [Next]_vars => [Q!Next]_qVars
  BY DEF Next, vars, Alone

\* Seen from the event store.
LEMMA SSteps == [Next]_vars => [S!Next]_sVars
  BY DEF Next, vars, Alone

\* Seen from the backfills.
LEMMA BSteps == [Next]_vars => [B!Next]_bVars
  BY DEF Next, vars, Alone

\* Seen from the migrations.
LEMMA MSteps == [Next]_vars => [M!Next]_mVars
  BY DEF Next, vars, Alone

\* Seen from the reconciliation.
LEMMA RSteps == [Next]_vars => [R!Next]_rVars
  BY DEF Next, vars, Alone

\* Seen from the metrics.
LEMMA XSteps == [Next]_vars => [X!Next]_xVars
  BY DEF Next, vars, Alone

\* Seen from the retry loops.
LEMMA YSteps == [Next]_vars => [Y!Next]_yVars
  BY DEF Next, vars, Alone

\* Seen from the polling policies.
LEMMA PSteps == [Next]_vars => [P!Next]_pVars
  BY DEF Next, vars, Alone

\* Seen from the failure monitors.
LEMMA NSteps == [Next]_vars => [N!Next]_nVars
  BY DEF Next, vars, Alone

\* Seen from the limiters.
LEMMA WSteps == [Next]_vars => [W!Next]_wVars
  BY DEF Next, vars, Alone

\* Seen from the metadata cache.
LEMMA OSteps == [Next]_vars => [O!Next]_oVars
  BY DEF Next, vars, Alone

(***************************************************************************)
(* TokenMetadata: a cached failure is no older than its time.              *)
(***************************************************************************)
\* What the cache can hold.
MetadataEntries == [decimals : {Decimals}, symbol : {"empty", "symbol"}, expires : Nat] \cup {O!NoEntry}

\* A failure that is cached is one that happened, and is not kept beyond its time.
MetadataInv ==
  /\ oNow \in Nat
  /\ oStage \in [Callers -> {"idle", "simulating"}]
  /\ oAnswer \in [Callers -> {"none", "metadata", "failure", "cached_failure"}]
  /\ oMetadata \in MetadataEntries
  /\ oFailure \in Int /\ oLastFailed \in Int
  /\ oFailure > oNow => oLastFailed >= 0 /\ oFailure <= oLastFailed + FailureTtl

\* An answer, a failure or a cached failure keeps MetadataInv (the end of readTokenMetadata).
LEMMA MetadataSettles ==
  ASSUME MetadataInv, NEW c \in Callers, O!Settle(c)
  PROVE  MetadataInv'
<1> USE LimitsAssumption DEF LimitsAssumption
<1>1. /\ oStage' = [oStage EXCEPT ![c] = "idle"] /\ oNow' = oNow
      /\ oStage' \in [Callers -> {"idle", "simulating"}]
  BY DEF O!Settle, MetadataInv
<1>2. CASE oFailure' = oNow + FailureTtl /\ oLastFailed' = oNow /\ O!Told(c, "failure") /\ UNCHANGED oMetadata
  BY <1>1, <1>2 DEF MetadataInv, O!Told
<1>3. CASE O!Told(c, "failure") /\ UNCHANGED <<oMetadata, oFailure, oLastFailed>>
  BY <1>1, <1>3 DEF MetadataInv, O!Told
<1>4. CASE \E symbol \in {"empty", "symbol"} :
             /\ oMetadata' = [decimals |-> Decimals, symbol |-> symbol, expires |-> oNow + CacheTtl]
             /\ O!Told(c, "metadata") /\ UNCHANGED <<oFailure, oLastFailed>>
  <2>1. oMetadata' \in MetadataEntries
    BY <1>4 DEF MetadataInv, MetadataEntries
  <2>2. QED
    BY <1>1, <1>4, <2>1 DEF MetadataInv, O!Told
<1>5. QED
  BY <1>2, <1>3, <1>4 DEF O!Settle

\* Every step of the metadata cache keeps MetadataInv.
LEMMA MetadataStep ==
  ASSUME MetadataInv, [O!Next]_oVars
  PROVE  MetadataInv'
<1>1. CASE \E c \in Callers : O!Resolve(c)
  BY <1>1 DEF O!Resolve, O!Told, MetadataInv
<1>2. CASE \E c \in Callers : O!Settle(c)
  BY <1>2, MetadataSettles
<1>3. CASE O!Clear
  BY <1>3 DEF O!Clear, MetadataInv, MetadataEntries, O!NoEntry, O!None
<1>4. CASE O!Tick
  BY <1>4 DEF O!Tick, MetadataInv, MetadataEntries, O!NoEntry, O!None
<1>5. CASE UNCHANGED oVars
  BY <1>5 DEF oVars, MetadataInv, O!NoEntry, O!None
<1>6. QED
  BY <1>1, <1>2, <1>3, <1>4, <1>5 DEF O!Next

\* MetadataInv is an invariant.
LEMMA MetadataHolds == Spec => []MetadataInv
<1>1. Init => MetadataInv
  BY DEF Init, O!Init, MetadataInv, MetadataEntries, O!NoEntry, O!None
<1>2. MetadataInv /\ [Next]_vars => MetadataInv'
  BY MetadataStep, OSteps
<1>3. QED
  BY <1>1, <1>2, PTL DEF Spec

\* Amounts are written with the decimals of their token or, while those are not
\* cached, the default ones; a failure is forgotten in time (token-metadata.ts).
THEOREM MetadataSound == Spec => []MetadataIsSound
<1>1. MetadataInv => MetadataIsSound
  BY LimitsAssumption DEF LimitsAssumption, MetadataInv, MetadataEntries, MetadataIsSound, O!MetadataIsSound, O!FailureHit, O!SyncDecimals,
     O!CachedDecimals, O!Hit, O!NoEntry, O!None
<1>2. QED
  BY <1>1, MetadataHolds, PTL

(***************************************************************************)
(* Throttle: a policy that counts idle cycles counts those in a row.       *)
(***************************************************************************)
ThrottleInv ==
  /\ P!TypeOK
  /\ pPolicy # "poller" => pIdle = pQuiet

\* One cycle, whatever the policy makes of it.
LEMMA ThrottleCycles ==
  ASSUME ThrottleInv, NEW sawActivity \in BOOLEAN, P!Cycle(sawActivity)
  PROVE  /\ ThrottleInv'
         /\ pInterval' > pInterval => pQuiet' >= (IF pPolicy = "poller" THEN 1 ELSE IdleThreshold)
<1> DEFINE adjusted == P!Adjusted(pInterval, pIdle, sawActivity)
<1> USE PoliciesAssumption
<1>1. /\ pPolicy \in P!Policies /\ pInterval \in MinInterval .. MaxInterval
      /\ pIdle \in 0 .. IdleThreshold /\ pQuiet \in 0 .. IdleThreshold
  BY DEF ThrottleInv, P!TypeOK
<1>2. /\ P!Halved(pInterval) \in MinInterval .. pInterval
      /\ P!Doubled(pInterval) \in MinInterval .. MaxInterval
      /\ MinInterval \in MinInterval .. MaxInterval
  BY <1>1 DEF P!Halved, P!Doubled
<1>3. /\ adjusted.interval \in MinInterval .. MaxInterval
      /\ adjusted.idle \in 0 .. IdleThreshold + 1
      /\ sawActivity => adjusted.interval <= pInterval /\ adjusted.idle = 0
      /\ ~ sawActivity /\ pPolicy # "poller" =>
           /\ adjusted.idle = pIdle + 1
           /\ adjusted.interval > pInterval => pIdle + 1 >= IdleThreshold
  BY <1>1, <1>2 DEF P!Adjusted, P!Policies, P!NextPollIntervalMs, P!AdjustDb, P!AdjustIndexerRunner,
     P!AdjustFailoverRecovery, P!AdjustMetrics, P!AdjustVacuum, P!GrowAfter
<1>4. /\ pInterval' = adjusted.interval
      /\ pIdle' = IF adjusted.idle > IdleThreshold THEN IdleThreshold ELSE adjusted.idle
      /\ pQuiet' = IF sawActivity THEN 0 ELSE IF pQuiet < IdleThreshold THEN pQuiet + 1 ELSE pQuiet
      /\ pPolicy' = pPolicy
  BY DEF P!Cycle
<1> HIDE DEF adjusted
<1>5. QED
  BY <1>1, <1>3, <1>4 DEF ThrottleInv, P!TypeOK

\* A step of a policy keeps its interval in bounds, and makes it longer only when quiet.
LEMMA ThrottleStep ==
  ASSUME ThrottleInv, [P!Next]_pVars
  PROVE  /\ ThrottleInv'
         /\ pInterval' > pInterval =>
              \/ pQuiet' >= (IF pPolicy = "poller" THEN 1 ELSE IdleThreshold)
              \/ pInterval' = P!StartInterval /\ pQuiet' = 0
<1>1. CASE \E sawActivity \in BOOLEAN : P!Cycle(sawActivity)
  BY <1>1, ThrottleCycles
<1>2. CASE P!Reset
  BY <1>2, PoliciesAssumption DEF P!Reset, P!StartInterval, ThrottleInv, P!TypeOK
<1>3. CASE UNCHANGED pVars
  BY <1>3 DEF pVars, ThrottleInv, P!TypeOK
<1>4. QED
  BY <1>1, <1>2, <1>3 DEF P!Next

\* The interval of a policy stays in its bounds.
LEMMA ThrottleHolds == Spec => []ThrottleInv
<1>1. Init => ThrottleInv
  BY PoliciesAssumption DEF Init, P!Init, P!StartInterval, ThrottleInv, P!TypeOK
<1>2. ThrottleInv /\ [Next]_vars => ThrottleInv'
  BY ThrottleStep, PSteps
<1>3. QED
  BY <1>1, <1>2, PTL DEF Spec

\* No interval grows but after as many cycles without events in a row as its policy
\* asks for, or back to where it started (poller.ts and the five adjust functions).
THEOREM SlowsDownWhenQuiet == Spec => SlowsDownOnlyWhenQuiet
<1>1. ThrottleInv /\ [Next]_vars =>
        [pInterval' > pInterval =>
           \/ pQuiet' >= (IF pPolicy = "poller" THEN 1 ELSE IdleThreshold)
           \/ pInterval' = P!StartInterval /\ pQuiet' = 0]_<<pPolicy, pInterval, pIdle, pQuiet>>
  BY ThrottleStep, PSteps
<1>2. QED
  BY <1>1, ThrottleHolds, PTL DEF Spec, SlowsDownOnlyWhenQuiet, P!SlowsDownOnlyWhenQuiet, P!throttleVars

(***************************************************************************)
(* FailureMonitor and Retry: what they promise is inductive once the       *)
(* delays of a loop are counted by its attempts.                           *)
(***************************************************************************)
MonitorInv == N!TypeOK /\ N!OutageIsReported

\* A cycle keeps the alert raised exactly while the failures last (FailureMonitor).
LEMMA MonitorStep ==
  ASSUME MonitorInv, [N!Next]_nVars
  PROVE  MonitorInv'
<1> USE PoliciesAssumption
<1>0. /\ nKind \in N!Kinds /\ nFailures \in 0 .. MaxFailures /\ nAlerts \in 0 .. MaxFailures
      /\ nAlertActive \in BOOLEAN /\ nSucceeded \in BOOLEAN /\ nOverdue \in BOOLEAN /\ nStallAlerted \in BOOLEAN
  BY DEF MonitorInv, N!TypeOK
<1>z. ~ (0 >= Threshold) /\ 0 < Threshold
  OBVIOUS
<1>1. CASE N!RecordFailure
  <2> DEFINE alerting == IF nKind = "indexer_runner" THEN N!RunnerAlerts(nFailures + 1) ELSE N!Alerts(nFailures + 1)
  <2>1. /\ nFailures < MaxFailures /\ nFailures' = nFailures + 1
        /\ nAlertActive' = (nAlertActive \/ alerting)
        /\ nAlerts' = IF alerting THEN nAlerts + 1 ELSE nAlerts
        /\ UNCHANGED <<nKind, nSucceeded, nOverdue, nStallAlerted>>
    BY <1>1 DEF N!RecordFailure
  <2>2. alerting <=> IF N!Repeats THEN nFailures + 1 >= Threshold ELSE nFailures + 1 = Threshold
    BY <1>0 DEF MonitorInv, N!OutageIsReported, N!RunnerAlerts, N!Alerts, N!Repeats
  <2>3. nAlertActive' <=> nFailures' >= Threshold
    <3>1. nFailures' >= Threshold <=> nFailures >= Threshold \/ alerting
      BY <1>0, <2>1, <2>2
    <3>2. nAlertActive <=> nFailures >= Threshold
      BY DEF MonitorInv, N!OutageIsReported
    <3> HIDE DEF alerting
    <3>3. QED
      BY <2>1, <3>1, <3>2, Zenon
  <2>4. nAlerts' = IF nFailures' < Threshold THEN 0
                   ELSE IF N!Repeats THEN nFailures' - Threshold + 1 ELSE 1
    BY <1>0, <2>1, <2>2 DEF MonitorInv, N!OutageIsReported
  <2>5. N!Repeats' = N!Repeats
    BY <2>1 DEF N!Repeats
  <2>6. nAlertActive' \in BOOLEAN
    BY <2>1 DEF N!RunnerAlerts, N!Alerts
  <2>7. QED
    BY <1>0, <2>1, <2>3, <2>4, <2>5, <2>6 DEF MonitorInv, N!OutageIsReported, N!TypeOK
<1>2. CASE N!RecordSuccess
  <2>1. /\ nFailures' = 0 /\ nSucceeded' = TRUE /\ nOverdue' = FALSE /\ nAlertActive' = FALSE /\ nAlerts' = 0
        /\ nStallAlerted' \in BOOLEAN /\ nKind' = nKind
    BY <1>2 DEF N!RecordSuccess
  <2>2. N!OutageIsReported'
    BY <1>z, <2>1, Zenon DEF N!OutageIsReported
  <2>3. N!TypeOK'
    <3>1. 0 \in 0 .. MaxFailures
      OBVIOUS
    <3>2. QED
      BY <1>0, <2>1, <3>1, Zenon DEF N!TypeOK
  <2>4. QED
    BY <2>2, <2>3 DEF MonitorInv
<1>3. CASE N!TimePasses
  BY <1>0, <1>3 DEF N!TimePasses, MonitorInv, N!OutageIsReported, N!TypeOK, N!Repeats
<1>4. CASE N!CheckStall
  BY <1>0, <1>4 DEF N!CheckStall, MonitorInv, N!OutageIsReported, N!TypeOK, N!Repeats
<1>5. CASE N!Reset
  <2>1. /\ nFailures' = 0 /\ nSucceeded' = FALSE /\ nOverdue' = FALSE /\ nAlertActive' = FALSE /\ nAlerts' = 0
        /\ nStallAlerted' = FALSE /\ nKind' = nKind
    BY <1>5 DEF N!Reset
  <2>2. N!OutageIsReported'
    BY <1>z, <2>1, Zenon DEF N!OutageIsReported
  <2>3. N!TypeOK'
    <3>1. 0 \in 0 .. MaxFailures
      OBVIOUS
    <3>2. QED
      BY <1>0, <2>1, <3>1, Zenon DEF N!TypeOK
  <2>4. QED
    BY <2>2, <2>3 DEF MonitorInv
<1>6. CASE UNCHANGED nVars
  BY <1>0, <1>6 DEF nVars, MonitorInv, N!OutageIsReported, N!TypeOK, N!Repeats
<1>7. QED
  BY <1>1, <1>2, <1>3, <1>4, <1>5, <1>6 DEF N!Next

RetryInv ==
  /\ yLoop \in Y!Loops /\ yAttempt \in 0 .. RetryLimit + 1
  /\ yDelays \in Seq([slept : Int, asked : Hints \cup {-1}])
  /\ yOutcome \in {"trying", "sleeping", "answered", "threw"}
  /\ yLastError \in Y!Errors \cup {Y!NoError}
  /\ yAttempt = IF yOutcome = "threw" THEN Len(yDelays) + 1 ELSE Len(yDelays)
  /\ yOutcome # "threw" => yAttempt <= RetryLimit
  /\ Y!EveryAttemptIsSpaced

\* What a server asks for is a number, and -1 stands for a server that asks for nothing.
LEMMA HintsAreNumbers == \A hint \in Hints \cup {-1} : hint \in Int
<1>1. \A hint \in Hints : hint \in Nat
  BY PoliciesAssumption
<1>2. -1 \in Int
  OBVIOUS
<1>3. QED
  BY <1>1, <1>2

\* What the loop sleeps is an integer with the bounds it promises.
LEMMA DelayBounds ==
  ASSUME NEW n \in Nat, NEW err \in Y!Errors
  PROVE  /\ Y!Delay(n, err) \in Int
         /\ Y!Delay(n, err) >= Y!MinOf(2 ^ n, MaxBackoff)
         /\ yLoop = "rpc" /\ err.retryAfter >= 0 => Y!Delay(n, err) >= Y!MinOf(err.retryAfter, MaxBackoff)
         /\ yLoop # "failover" => Y!Delay(n, err) <= MaxBackoff
<1>1. 2 ^ n \in Int /\ MaxBackoff \in Int
  BY PoliciesAssumption
<1>2. err.retryAfter \in Int
  <2>1. err.retryAfter \in Hints \cup {-1}
    BY DEF Y!Errors
  <2>2. QED
    BY <2>1, HintsAreNumbers
<1> DEFINE power == 2 ^ n
           asked == err.retryAfter
<1>3. Y!Delay(n, err) = IF yLoop = "rpc" /\ asked >= 0
                        THEN Y!MinOf(Y!MaxOf(asked, Y!MinOf(power, MaxBackoff)), MaxBackoff)
                        ELSE IF yLoop = "failover" THEN power ELSE Y!MinOf(power, MaxBackoff)
  BY DEF Y!Delay, Y!ComputeBackoff
<1>4. power \in Int /\ asked \in Int
  BY <1>1, <1>2
<1> SUFFICES /\ Y!Delay(n, err) \in Int
             /\ Y!Delay(n, err) >= Y!MinOf(power, MaxBackoff)
             /\ yLoop = "rpc" /\ asked >= 0 => Y!Delay(n, err) >= Y!MinOf(asked, MaxBackoff)
             /\ yLoop # "failover" => Y!Delay(n, err) <= MaxBackoff
  OBVIOUS
<1> HIDE DEF power, asked
<1>5. QED
  BY <1>1, <1>3, <1>4, PoliciesAssumption DEF Y!MinOf, Y!MaxOf

\* Another delay, as long as it must be, is no harm to the ones before it.
LEMMA RetryThrows ==
  ASSUME RetryInv, NEW err \in Y!Errors, Y!Throw(err)
  PROVE  RetryInv'
<1> USE PoliciesAssumption
<1>1. /\ yOutcome = "trying" /\ yLastError' = err /\ yAttempt' = yAttempt + 1 /\ yLoop' = yLoop
      /\ yAttempt = Len(yDelays) /\ yAttempt <= RetryLimit /\ yAttempt \in Nat
  BY DEF Y!Throw, RetryInv
<1>2. CASE ~ Y!Retryable(err) \/ yAttempt >= RetryLimit
  <2>1. yOutcome' = "threw" /\ yDelays' = yDelays
    BY <1>2 DEF Y!Throw
  <2>2. Y!Retryable(yLastError)' => yAttempt' = RetryLimit + 1
    BY <1>1, <1>2 DEF Y!Retryable, Y!RpcRetryable
  <2>3. Y!EveryAttemptIsSpaced'
    BY <1>1, <2>1, <2>2 DEF RetryInv, Y!EveryAttemptIsSpaced
  <2>4. QED
    BY <1>1, <2>1, <2>3 DEF RetryInv
<1>3. CASE Y!Retryable(err) /\ yAttempt < RetryLimit
  <2> DEFINE pause == [slept |-> Y!Delay(yAttempt, err), asked |-> err.retryAfter]
  <2>1. yOutcome' = "sleeping" /\ yDelays' = Append(yDelays, pause)
    BY <1>1, <1>3 DEF Y!Throw
  <2>2. pause \in [slept : Int, asked : Hints \cup {-1}]
    BY <1>1, DelayBounds DEF Y!Errors
  <2>3. /\ yDelays' \in Seq([slept : Int, asked : Hints \cup {-1}]) /\ Len(yDelays') = Len(yDelays) + 1
        /\ \A i \in DOMAIN yDelays' : IF i = Len(yDelays) + 1 THEN yDelays'[i] = pause
                                      ELSE i \in DOMAIN yDelays /\ yDelays'[i] = yDelays[i]
    <3> HIDE DEF pause
    <3> QED
      BY <2>1, <2>2 DEF RetryInv
  <2>4. /\ pause.slept >= Y!MinOf(2 ^ yAttempt, MaxBackoff)
        /\ yLoop = "rpc" /\ pause.asked >= 0 => pause.slept >= Y!MinOf(pause.asked, MaxBackoff)
        /\ yLoop # "failover" => pause.slept <= MaxBackoff
    BY <1>1, DelayBounds
  <2>5. Y!EveryAttemptIsSpaced'
    <3> HIDE DEF pause
    <3>1. \A i \in DOMAIN yDelays' :
            /\ yDelays'[i].slept >= Y!MinOf(2 ^ (i - 1), MaxBackoff)
            /\ yLoop = "rpc" /\ yDelays'[i].asked >= 0 => yDelays'[i].slept >= Y!MinOf(yDelays'[i].asked, MaxBackoff)
            /\ yLoop # "failover" => yDelays'[i].slept <= MaxBackoff
      <4> TAKE i \in DOMAIN yDelays'
      <4>1. CASE i = Len(yDelays) + 1
        <5>1. i - 1 = yAttempt
          BY <1>1, <4>1 DEF RetryInv
        <5>2. QED
          BY <2>3, <2>4, <4>1, <5>1
      <4>2. CASE i # Len(yDelays) + 1
        BY <2>3, <4>2 DEF RetryInv, Y!EveryAttemptIsSpaced
      <4>3. QED
        BY <4>1, <4>2
    <3>2. QED
      BY <1>1, <2>1, <3>1 DEF Y!EveryAttemptIsSpaced, Y!MinOf
  <2>6. QED
    BY <1>1, <1>3, <2>1, <2>3, <2>5 DEF RetryInv
<1>4. QED
  BY <1>1, <1>2, <1>3 DEF RetryInv

\* Every attempt of a loop, its answer and its wait keep RetryInv.
LEMMA RetryStep ==
  ASSUME RetryInv, [Y!Next]_yVars
  PROVE  RetryInv'
<1>1. CASE Y!Answer
  BY <1>1 DEF Y!Answer, RetryInv, Y!EveryAttemptIsSpaced, Y!Retryable, Y!RpcRetryable, Y!MinOf
<1>2. CASE Y!Wake
  BY <1>2 DEF Y!Wake, RetryInv, Y!EveryAttemptIsSpaced, Y!Retryable, Y!RpcRetryable, Y!MinOf
<1>3. CASE \E err \in Y!Errors : Y!Throw(err)
  BY <1>3, RetryThrows
<1>4. CASE UNCHANGED yVars
  BY <1>4 DEF yVars, RetryInv, Y!EveryAttemptIsSpaced, Y!Retryable, Y!RpcRetryable, Y!MinOf
<1>5. QED
  BY <1>1, <1>2, <1>3, <1>4 DEF Y!Next

\* MonitorInv is an invariant.
LEMMA MonitorHolds == Spec => []MonitorInv
<1>1. Init => MonitorInv
  <2> SUFFICES ASSUME Init PROVE MonitorInv
    OBVIOUS
  <2>1. /\ nKind \in N!Kinds /\ nFailures = 0 /\ nSucceeded = FALSE /\ nOverdue = FALSE
        /\ nAlertActive = FALSE /\ nStallAlerted = FALSE /\ nAlerts = 0
    BY DEF Init, N!Init
  <2>2. ~ (0 >= Threshold) /\ 0 < Threshold
    BY PoliciesAssumption
  <2>3. N!OutageIsReported
    BY <2>1, <2>2, Zenon DEF N!OutageIsReported
  <2>4. N!TypeOK
    <3>1. 0 \in 0 .. MaxFailures
      BY PoliciesAssumption
    <3>2. QED
      BY <2>1, <3>1, Zenon DEF N!TypeOK
  <2>5. QED
    BY <2>3, <2>4 DEF MonitorInv
<1>2. MonitorInv /\ [Next]_vars => MonitorInv'
  BY MonitorStep, NSteps
<1>3. QED
  BY <1>1, <1>2, PTL DEF Spec

\* RetryInv is an invariant.
LEMMA RetryHolds == Spec => []RetryInv
<1>1. Init => RetryInv
  BY PoliciesAssumption DEF Init, Y!Init, RetryInv, Y!EveryAttemptIsSpaced
<1>2. RetryInv /\ [Next]_vars => RetryInv'
  BY RetryStep, YSteps
<1>3. QED
  BY <1>1, <1>2, PTL DEF Spec

\* Between two attempts a loop waits as long as its backoff and the server ask for,
\* it gives up a transient error only after the last one, and a monitor reports an
\* outage exactly while it lasts (withRetry and its kin, FailureMonitor).
THEOREM FailuresHandled == Spec => []FailuresAreHandled
<1>1. MonitorInv /\ RetryInv => FailuresAreHandled
  BY DEF MonitorInv, RetryInv, FailuresAreHandled
<1>2. QED
  BY <1>1, MonitorHolds, RetryHolds, PTL

(***************************************************************************)
(* RateLimiter: the calls let through lie in windows that do not overlap,  *)
(* no more than MaxCalls of them in each.  The last of them are in the     *)
(* window of the bucket, those before it came before the window, and those *)
(* more than MaxCalls further back before the window that preceded it.     *)
(***************************************************************************)
Buckets == [count : 0 .. MaxCalls + 1, resetAt : Nat]

InWindow(b) == IF b.count < MaxCalls THEN b.count ELSE MaxCalls

\* The first rest of the times came before start, where the last window begins.
Fit(times, rest, start, now) ==
  /\ rest >= 0 /\ start <= now
  /\ \A i \in 1 .. Len(times) :
       /\ times[i] < start + Window
       /\ i > rest => times[i] >= start
       /\ i <= rest => times[i] < start
       /\ i <= rest - MaxCalls => times[i] <= start - Window

WindowsFit(times, b, now) == Fit(times, Len(times) - InWindow(b), b.resetAt - Window, now)

Spaced(times) ==
  \A i \in 1 .. Len(times) :
    i + 2 * MaxCalls <= Len(times) => times[i + 2 * MaxCalls] - times[i] >= Window

LimiterInv ==
  /\ wNow \in 0 .. MaxNow
  /\ wBucket \in [W!Keys -> Buckets]
  /\ wAdmitted \in [W!Keys -> Seq(0 .. MaxNow)]
  /\ \A k \in W!Keys : WindowsFit(wAdmitted[k], wBucket[k], wNow) /\ Spaced(wAdmitted[k])

\* What appending a time makes of the times.
LEMMA AppendFacts ==
  ASSUME NEW now \in 0 .. MaxNow, NEW times \in Seq(0 .. MaxNow)
  PROVE  /\ Append(times, now) \in Seq(0 .. MaxNow)
         /\ Len(times) \in Nat /\ Len(Append(times, now)) = Len(times) + 1
         /\ Append(times, now)[Len(times) + 1] = now
         /\ \A i \in 1 .. Len(times) : Append(times, now)[i] = times[i] /\ times[i] \in Nat
  BY LimitsAssumption

\* A call that is let through is a window behind the one 2 * MaxCalls before it, when
\* that one came before the window that preceded this one's.
LEMMA NextIsSpaced ==
  ASSUME NEW now \in 0 .. MaxNow, NEW times \in Seq(0 .. MaxNow), Spaced(times),
         \A i \in 1 .. Len(times) : i + 2 * MaxCalls = Len(times) + 1 => times[i] <= now - Window
  PROVE  Spaced(Append(times, now))
<1> DEFINE n == Len(times)
           after == Append(times, now)
           span == 2 * MaxCalls
<1>1. /\ n \in Nat /\ Len(after) = n + 1 /\ after[n + 1] = now
      /\ \A i \in 1 .. n : after[i] = times[i] /\ times[i] \in Nat
  BY AppendFacts
<1>2. /\ span \in Nat \ {0} /\ now \in Nat /\ Window \in Nat
      /\ \A i \in 1 .. n : i + span = n + 1 => times[i] <= now - Window
  BY LimitsAssumption
<1>3. \A i \in 1 .. n : i + span <= n => times[i + span] - times[i] >= Window
  BY DEF Spaced
<1> SUFFICES \A i \in 1 .. Len(after) : i + span <= Len(after) => after[i + span] - after[i] >= Window
  BY DEF Spaced
<1> HIDE DEF n, after, span
<1>4. ASSUME NEW i \in 1 .. n + 1, i + span <= n + 1
      PROVE  after[i + span] - after[i] >= Window
  <2>1. i \in 1 .. n
    BY <1>1, <1>2, <1>4
  <2>2. CASE i + span <= n
    <3>1. i + span \in 1 .. n
      BY <1>1, <1>2, <2>1, <2>2
    <3>2. QED
      BY <1>1, <1>3, <2>1, <2>2, <3>1
  <2>3. CASE i + span = n + 1
    <3>1. times[i] <= now - Window /\ times[i] \in Nat /\ after[i] = times[i]
      BY <1>1, <1>2, <2>1, <2>3
    <3>2. after[i + span] = now
      BY <1>1, <2>3
    <3>3. QED
      BY <1>2, <3>1, <3>2
  <2>4. i + span <= n \/ i + span = n + 1
    BY <1>1, <1>2, <1>4
  <2>5. QED
    BY <2>2, <2>3, <2>4
<1>5. QED
  BY <1>1, <1>4

\* A time within the last window is appended.
LEMMA FitWithin ==
  ASSUME NEW now \in 0 .. MaxNow, NEW times \in Seq(0 .. MaxNow), NEW rest \in Int, NEW start \in Int,
         Fit(times, rest, start, now), Spaced(times), now < start + Window,
         Len(times) - rest \in 0 .. MaxCalls - 1
  PROVE  Fit(Append(times, now), rest, start, now) /\ Spaced(Append(times, now))
<1> DEFINE n == Len(times)
           after == Append(times, now)
<1>0. /\ now \in Nat /\ Window \in Nat \ {0} /\ MaxCalls \in Nat \ {0}
  BY LimitsAssumption
<1>1. /\ n \in Nat /\ Len(after) = n + 1 /\ after[n + 1] = now
      /\ \A i \in 1 .. n : after[i] = times[i] /\ times[i] \in Nat
  BY AppendFacts
<1>2. n - rest \in Nat /\ n - rest < MaxCalls
  BY <1>0
<1>3. \A i \in 1 .. n + 1 : /\ after[i] < start + Window
                            /\ i > rest => after[i] >= start
                            /\ i <= rest => after[i] < start
                            /\ i <= rest - MaxCalls => after[i] <= start - Window
  <2> SUFFICES ASSUME NEW i \in 1 .. n + 1
               PROVE  /\ after[i] < start + Window
                      /\ i > rest => after[i] >= start
                      /\ i <= rest => after[i] < start
                      /\ i <= rest - MaxCalls => after[i] <= start - Window
    OBVIOUS
  <2>1. CASE i \in 1 .. n
    <3>1. after[i] = times[i]
      BY <1>1, <2>1
    <3>2. QED
      BY <2>1, <3>1 DEF Fit
  <2>2. CASE i = n + 1
    <3>1. after[i] = now /\ start <= now
      BY <1>1, <2>2 DEF Fit
    <3> HIDE DEF n, after
    <3>2. QED
      BY <1>0, <1>1, <1>2, <2>2, <3>1
  <2>3. i \in 1 .. n \/ i = n + 1
    BY <1>1
  <2>4. QED
    BY <2>1, <2>2, <2>3
<1>4. Fit(after, rest, start, now)
  BY <1>1, <1>3 DEF Fit
<1>5. \A i \in 1 .. n : i + 2 * MaxCalls = n + 1 => times[i] <= now - Window
  <2> SUFFICES ASSUME NEW i \in 1 .. n, i + 2 * MaxCalls = n + 1
               PROVE  times[i] <= now - Window
    OBVIOUS
  <2>1. i <= rest - MaxCalls
    <3> HIDE DEF n
    <3> QED
      BY <1>0, <1>1, <1>2
  <2>2. times[i] <= start - Window /\ start <= now /\ times[i] \in Nat
    BY <1>1, <2>1 DEF Fit
  <2>3. QED
    BY <1>0, <2>2
<1>6. QED
  BY <1>4, <1>5, NextIsSpaced

\* A time behind the last window is appended, and starts one.
LEMMA FitBehind ==
  ASSUME NEW now \in 0 .. MaxNow, NEW times \in Seq(0 .. MaxNow), NEW rest \in Int, NEW start \in Int,
         Fit(times, rest, start, now), Spaced(times), now >= start + Window,
         Len(times) - rest \in 0 .. MaxCalls
  PROVE  Fit(Append(times, now), Len(times), now, now) /\ Spaced(Append(times, now))
<1> DEFINE n == Len(times)
           after == Append(times, now)
<1>0. /\ now \in Nat /\ Window \in Nat \ {0} /\ MaxCalls \in Nat \ {0}
  BY LimitsAssumption
<1>1. /\ n \in Nat /\ Len(after) = n + 1 /\ after[n + 1] = now
      /\ \A i \in 1 .. n : after[i] = times[i] /\ times[i] \in Nat
  BY AppendFacts
<1>2. n - rest \in Nat /\ n - rest <= MaxCalls
  BY <1>0
<1>3. \A i \in 1 .. n + 1 : /\ after[i] < now + Window
                            /\ i > n => after[i] >= now
                            /\ i <= n => after[i] < now
                            /\ i <= n - MaxCalls => after[i] <= now - Window
  <2> SUFFICES ASSUME NEW i \in 1 .. n + 1
               PROVE  /\ after[i] < now + Window
                      /\ i > n => after[i] >= now
                      /\ i <= n => after[i] < now
                      /\ i <= n - MaxCalls => after[i] <= now - Window
    OBVIOUS
  <2>1. CASE i \in 1 .. n
    <3>1. after[i] = times[i] /\ times[i] \in Nat /\ times[i] < start + Window
          /\ (i <= rest => times[i] < start)
      BY <1>1, <2>1 DEF Fit
    <3> HIDE DEF n, after
    <3>2. i <= n - MaxCalls => i <= rest
      BY <1>0, <1>1, <1>2
    <3>3. QED
      BY <1>0, <1>1, <2>1, <3>1, <3>2
  <2>2. CASE i = n + 1
    <3>1. after[i] = now
      BY <1>1, <2>2
    <3> HIDE DEF n, after
    <3>2. QED
      BY <1>0, <1>1, <2>2, <3>1
  <2>3. i \in 1 .. n \/ i = n + 1
    BY <1>1
  <2>4. QED
    BY <2>1, <2>2, <2>3
<1>4. Fit(after, n, now, now)
  BY <1>0, <1>1, <1>3 DEF Fit
<1>5. \A i \in 1 .. n : i + 2 * MaxCalls = n + 1 => times[i] <= now - Window
  <2> SUFFICES ASSUME NEW i \in 1 .. n, i + 2 * MaxCalls = n + 1
               PROVE  times[i] <= now - Window
    OBVIOUS
  <2>1. i <= rest
    <3> HIDE DEF n
    <3> QED
      BY <1>0, <1>1, <1>2
  <2>2. times[i] < start /\ times[i] \in Nat
    BY <1>1, <2>1 DEF Fit
  <2>3. QED
    BY <1>0, <2>2
<1>6. QED
  BY <1>4, <1>5, NextIsSpaced

\* A call within the window of the bucket that is let through.
LEMMA CountedInWindow ==
  ASSUME NEW now \in 0 .. MaxNow, NEW b \in Buckets, NEW times \in Seq(0 .. MaxNow),
         WindowsFit(times, b, now), Spaced(times), now < b.resetAt, b.count < MaxCalls,
         NEW c \in Buckets, c.count = b.count + 1, c.resetAt = b.resetAt
  PROVE  WindowsFit(Append(times, now), c, now) /\ Spaced(Append(times, now))
<1> DEFINE rest == Len(times) - b.count
           start == b.resetAt - Window
<1>0. /\ b.count \in Nat /\ b.resetAt \in Nat /\ Window \in Nat /\ MaxCalls \in Nat /\ Len(times) \in Nat
  BY LimitsAssumption DEF Buckets
<1>1. InWindow(b) = b.count /\ InWindow(c) = b.count + 1
  BY <1>0 DEF InWindow
<1>2. rest \in Int /\ start \in Int /\ now < start + Window /\ Len(times) - rest \in 0 .. MaxCalls - 1
  BY <1>0
<1>3. Len(Append(times, now)) - (b.count + 1) = rest
  BY <1>0, AppendFacts
<1>4. Fit(times, rest, start, now)
  BY <1>1 DEF WindowsFit
<1> HIDE DEF rest
<1>5. Fit(Append(times, now), rest, start, now) /\ Spaced(Append(times, now))
  BY <1>2, <1>4, FitWithin
<1>6. QED
  BY <1>1, <1>3, <1>5 DEF WindowsFit

\* The first call behind the window of the bucket is let through and starts another one.
LEMMA CountedBehindWindow ==
  ASSUME NEW now \in 0 .. MaxNow, NEW b \in Buckets, NEW times \in Seq(0 .. MaxNow),
         WindowsFit(times, b, now), Spaced(times), now >= b.resetAt,
         NEW c \in Buckets, c.count = 1, c.resetAt = now + Window
  PROVE  WindowsFit(Append(times, now), c, now) /\ Spaced(Append(times, now))
<1> DEFINE rest == Len(times) - InWindow(b)
           start == b.resetAt - Window
<1>0. /\ b.resetAt \in Nat /\ Window \in Nat /\ MaxCalls \in Nat \ {0} /\ Len(times) \in Nat /\ now \in Nat
  BY LimitsAssumption DEF Buckets
<1>1. InWindow(c) = 1 /\ InWindow(b) \in 0 .. MaxCalls
  BY <1>0 DEF InWindow, Buckets
<1>2. rest \in Int /\ start \in Int /\ now >= start + Window /\ Len(times) - rest \in 0 .. MaxCalls
  BY <1>0, <1>1
<1>3. Len(Append(times, now)) - 1 = Len(times) /\ c.resetAt - Window = now
  BY <1>0, AppendFacts
<1>4. Fit(times, rest, start, now)
  BY DEF WindowsFit
<1> HIDE DEF rest, start
<1>5. Fit(Append(times, now), Len(times), now, now) /\ Spaced(Append(times, now))
  BY <1>2, <1>4, FitBehind
<1>6. QED
  BY <1>1, <1>3, <1>5 DEF WindowsFit

\* A call within the window that is refused changes only the count.
LEMMA RefusedInWindow ==
  ASSUME NEW now, NEW times, NEW b \in Buckets, WindowsFit(times, b, now), b.count >= MaxCalls,
         NEW c \in Buckets, c.count = b.count + 1, c.resetAt = b.resetAt
  PROVE  WindowsFit(times, c, now)
<1>1. InWindow(c) = InWindow(b)
  BY LimitsAssumption DEF InWindow, Buckets
<1>2. QED
  BY <1>1 DEF WindowsFit

\* A counted call keeps the calls of each key in their windows.
LEMMA LimiterCounts ==
  ASSUME LimiterInv, NEW k \in W!Keys, W!Count(k)
  PROVE  LimiterInv'
<1> USE LimitsAssumption
<1> DEFINE b == wBucket[k]
           c == W!Counted(k)
           times == wAdmitted[k]
           after == IF c.count > MaxCalls THEN times ELSE Append(times, wNow)
<1>1. b \in Buckets /\ times \in Seq(0 .. MaxNow) /\ wNow \in 0 .. MaxNow
      /\ WindowsFit(times, b, wNow) /\ Spaced(times)
  BY DEF LimiterInv
<1>2. /\ c.count <= MaxCalls + 1
      /\ wBucket' = [wBucket EXCEPT ![k] = c]
      /\ wAdmitted' = IF c.count > MaxCalls THEN wAdmitted
                      ELSE [wAdmitted EXCEPT ![k] = Append(@, wNow)]
      /\ UNCHANGED <<wNow, wKind>>
  BY DEF W!Count
<1>3. /\ c \in Buckets /\ after \in Seq(0 .. MaxNow)
      /\ WindowsFit(after, c, wNow) /\ Spaced(after)
  <2>1. CASE wNow >= b.resetAt
    <3>1. c = [count |-> 1, resetAt |-> wNow + Window]
      BY <2>1 DEF W!Counted, W!Current
    <3>2. c \in Buckets /\ c.count = 1 /\ c.resetAt = wNow + Window /\ ~ (c.count > MaxCalls)
      BY <1>1, <3>1 DEF Buckets
    <3>3. after = Append(times, wNow)
      BY <3>2
    <3> HIDE DEF c, b, times, after
    <3>4. QED
      BY <1>1, <2>1, <3>2, <3>3, CountedBehindWindow, AppendFacts
  <2>2. CASE wNow < b.resetAt
    <3>1. b.count \in Nat /\ b.resetAt \in Nat /\ wNow \in Nat
      BY <1>1 DEF Buckets
    <3>2. W!Current(k) = b
      BY <2>2, <3>1 DEF W!Current
    <3>3. c = [b EXCEPT !.count = b.count + 1]
      BY <3>2 DEF W!Counted
    <3>4. c.count = b.count + 1 /\ c.resetAt = b.resetAt
      BY <1>1, <3>3 DEF Buckets
    <3>5. c \in Buckets
      <4>1. b.count + 1 \in 0 .. MaxCalls + 1
        BY <1>2, <3>1, <3>4
      <4>2. QED
        BY <1>1, <3>3, <4>1 DEF Buckets
    <3>6. CASE b.count < MaxCalls
      <4>1. after = Append(times, wNow)
        BY <3>1, <3>4, <3>6
      <4> HIDE DEF c, b, times, after
      <4>2. QED
        BY <1>1, <2>2, <3>4, <3>5, <3>6, <4>1, CountedInWindow, AppendFacts
    <3>7. CASE b.count >= MaxCalls
      <4>1. after = times
        BY <3>1, <3>4, <3>7
      <4> HIDE DEF c, b, times, after
      <4>2. QED
        BY <1>1, <3>4, <3>5, <3>7, <4>1, RefusedInWindow
    <3>8. QED
      BY <3>1, <3>6, <3>7
  <2>3. QED
    BY <1>1, <2>1, <2>2 DEF Buckets
<1>4. wAdmitted' = [wAdmitted EXCEPT ![k] = after]
  BY <1>2 DEF LimiterInv
<1> HIDE DEF c, after
<1>5. QED
  BY <1>2, <1>3, <1>4 DEF LimiterInv

\* Every step of a limiter keeps LimiterInv.
LEMMA LimiterStep ==
  ASSUME LimiterInv, [W!Next]_wVars
  PROVE  LimiterInv'
<1>1. ASSUME NEW k \in W!Keys, W!Count(k) PROVE LimiterInv'
  BY <1>1, LimiterCounts
<1>2. ASSUME W!Tick PROVE LimiterInv'
  <2>1. wNow' = wNow + 1 /\ wNow' \in 0 .. MaxNow /\ UNCHANGED <<wBucket, wAdmitted>>
    BY <1>2, LimitsAssumption DEF W!Tick, LimiterInv
  <2>2. \A k \in W!Keys : WindowsFit(wAdmitted[k], wBucket[k], wNow)'
    <3> SUFFICES ASSUME NEW k \in W!Keys PROVE WindowsFit(wAdmitted[k], wBucket[k], wNow + 1)
      BY <2>1
    <3>1. wBucket[k].resetAt \in Nat /\ wNow \in Nat
      BY LimitsAssumption DEF LimiterInv, Buckets
    <3>2. QED
      BY <3>1, LimitsAssumption DEF LimiterInv, WindowsFit, Fit
  <2>3. QED
    BY <2>1, <2>2 DEF LimiterInv
<1>3. CASE UNCHANGED wVars
  BY <1>3 DEF wVars, LimiterInv
<1>4. \A client \in Clients : W!KeyFor(client) \in W!Keys /\ client \in W!Keys
  BY DEF W!KeyFor, W!Keys
<1>5. "all" \in W!Keys
  BY DEF W!Keys
<1>6. QED
  BY <1>1, <1>2, <1>3, <1>4, <1>5 DEF W!Next, W!checkAuditLedgerRateLimit, W!checkConversionRateLimit,
     W!checkDecimalsRateLimit, W!checkTaxEstimatorRateLimit, W!consume

\* LimiterInv is an invariant.
LEMMA LimiterHolds == Spec => []LimiterInv
<1>1. Init => LimiterInv
  <2> SUFFICES ASSUME W!Init PROVE LimiterInv
    BY DEF Init
  <2>1. wBucket \in [W!Keys -> Buckets] /\ wAdmitted \in [W!Keys -> Seq(0 .. MaxNow)] /\ wNow = 0
    BY LimitsAssumption DEF W!Init, Buckets
  <2>2. ASSUME NEW k \in W!Keys
        PROVE  WindowsFit(wAdmitted[k], wBucket[k], wNow) /\ Spaced(wAdmitted[k])
    BY LimitsAssumption DEF W!Init, WindowsFit, Fit, Spaced, InWindow
  <2>3. QED
    BY <2>1, <2>2, LimitsAssumption DEF LimiterInv
<1>2. LimiterInv /\ [Next]_vars => LimiterInv'
  BY LimiterStep, WSteps
<1>3. QED
  BY <1>1, <1>2, PTL DEF Spec

\* In the time of a window no more than twice the limit is let through, and a call
\* is refused only where the limit was (the limiters of the money modules).
THEOREM RateBounded == Spec => []RateIsBounded
<1>1. ASSUME LimiterInv PROVE RateIsBounded
  <2> SUFFICES ASSUME NEW k \in W!Keys
               PROVE  /\ \A i \in DOMAIN wAdmitted[k] : i + 2 * MaxCalls \in DOMAIN wAdmitted[k] =>
                           wAdmitted[k][i + 2 * MaxCalls] - wAdmitted[k][i] >= Window
                      /\ W!Counted(k).count > MaxCalls =>
                           /\ Len(wAdmitted[k]) >= MaxCalls
                           /\ wNow - wAdmitted[k][Len(wAdmitted[k]) - MaxCalls + 1] < Window
    BY DEF RateIsBounded, W!RateIsBounded
  <2> USE LimitsAssumption
  <2>1. wBucket[k] \in Buckets /\ wAdmitted[k] \in Seq(0 .. MaxNow) /\ wNow \in 0 .. MaxNow
        /\ WindowsFit(wAdmitted[k], wBucket[k], wNow) /\ Spaced(wAdmitted[k])
    BY <1>1 DEF LimiterInv
  <2>2. \A i \in DOMAIN wAdmitted[k] : i + 2 * MaxCalls \in DOMAIN wAdmitted[k] =>
          wAdmitted[k][i + 2 * MaxCalls] - wAdmitted[k][i] >= Window
    <3>1. DOMAIN wAdmitted[k] = 1 .. Len(wAdmitted[k])
      BY <2>1
    <3>2. QED
      BY <2>1, <3>1 DEF Spaced
  <2>3. ASSUME W!Counted(k).count > MaxCalls
        PROVE  /\ Len(wAdmitted[k]) >= MaxCalls
               /\ wNow - wAdmitted[k][Len(wAdmitted[k]) - MaxCalls + 1] < Window
    <3>1. wNow < wBucket[k].resetAt /\ wBucket[k].count >= MaxCalls /\ wBucket[k].resetAt \in Nat
      BY <2>1, <2>3 DEF W!Counted, W!Current, Buckets
    <3>2. InWindow(wBucket[k]) = MaxCalls
      BY <2>1, <3>1 DEF InWindow, Buckets
    <3>3. /\ Len(wAdmitted[k]) >= MaxCalls
          /\ wAdmitted[k][Len(wAdmitted[k]) - MaxCalls + 1] >= wBucket[k].resetAt - Window
      <4> DEFINE n == Len(wAdmitted[k])
      <4>1. n \in Nat /\ n - MaxCalls >= 0
            /\ \A i \in 1 .. n : i > n - MaxCalls => wAdmitted[k][i] >= wBucket[k].resetAt - Window
        BY <2>1, <3>2 DEF WindowsFit, Fit
      <4> HIDE DEF n
      <4>2. n - MaxCalls + 1 \in 1 .. n /\ n - MaxCalls + 1 > n - MaxCalls
        BY <4>1
      <4>3. QED
        BY <4>1, <4>2 DEF n
    <3>4. wAdmitted[k][Len(wAdmitted[k]) - MaxCalls + 1] \in Nat
      BY <2>1, <3>3
    <3>5. QED
      <4> DEFINE n     == Len(wAdmitted[k])
                 last  == wAdmitted[k][n - MaxCalls + 1]
                 reset == wBucket[k].resetAt
      <4>1. wNow \in Nat /\ Window \in Nat /\ reset \in Nat /\ last \in Nat
        BY <2>1, <3>1, <3>4, LimitsAssumption
      <4>2. n >= MaxCalls /\ wNow < reset /\ last >= reset - Window
        BY <3>1, <3>3
      <4> HIDE DEF reset, last
      <4>3. wNow - last < Window
        BY <4>1, <4>2
      <4>4. QED
        BY <4>2, <4>3 DEF last
  <2>4. QED
    BY <2>2, <2>3
<1>2. QED
  BY <1>1, LimiterHolds, PTL

(***************************************************************************)
(* Migrations: the database and every open transaction are at a release,   *)
(* and a transaction that may write starts from the database as it is.     *)
(***************************************************************************)
AtRelease(d, release) ==
  /\ d.done = 1 .. release
  /\ d.times = [v \in 1 .. 19 |-> IF v <= release THEN 1 ELSE 0]
  /\ d.tables = UNION {M!Adds(v) : v \in 1 .. release}
  /\ DOMAIN d.events = OldRows
  /\ release >= 13 => \A id \in OldRows : d.events[id] # "null"
  /\ release >= 18 => d.parties = OldRows

Releases == 0 .. 19

DbIsAtARelease == \E release \in Releases : AtRelease(mDb, release)

CopiesAreAtReleases ==
  \A p \in Processes : mProc[p] = "migrating" =>
    \E release \in Releases : AtRelease(mCopy[p], release) /\ mBase[p] <= mCommits

\* One transaction writes, from the last commit on; one that has not written yet
\* has read the database at the commit it is based on.
WritersAreAlone ==
  \A p \in Processes :
    /\ mWriting[p] => mProc[p] = "migrating" /\ mBase[p] = mCommits /\ mDb.done \subseteq mCopy[p].done
    /\ mWriting[p] => \A q \in Processes : mWriting[q] => q = p
    /\ mProc[p] = "migrating" /\ ~ mWriting[p] =>
         /\ mCopy[p].done \subseteq mDb.done
         /\ mBase[p] = mCommits => mCopy[p] = mDb

MigratedIsEnough ==
  \A p \in Processes :
    /\ mProc[p] \in {"migrated", "up"} => 1 .. Shipped[p] \subseteq mDb.done
    /\ mProc[p] = "up" => M!PollerAccepts(mDb)

MigrationVarsOK ==
  /\ mCommits \in Nat
  /\ mProc \in [Processes -> {"down", "migrating", "migrated", "up"}]
  /\ mCopy = [p \in Processes |-> mCopy[p]]
  /\ mBase \in [Processes -> Nat]
  /\ mWriting \in [Processes -> BOOLEAN]
  /\ mAttempt \in [Processes -> 0 .. MaxRetries]
  /\ mFaults \in 0 .. MaxFaults

MigrationInv ==
  MigrationVarsOK /\ DbIsAtARelease /\ CopiesAreAtReleases /\ WritersAreAlone /\ MigratedIsEnough

\* What is pending comes after what is done, and the first of it next.
LEMMA NextVersion ==
  ASSUME NEW p \in Processes, NEW release \in Releases,
         AtRelease(mCopy[p], release), M!Pending(p) # {}
  PROVE  M!Min(M!Pending(p)) = release + 1 /\ release + 1 <= Shipped[p]
<1>0. Shipped[p] \in 0 .. 19
  BY MigrationsAssumption
<1>1. M!Pending(p) = (release + 1) .. Shipped[p]
  <2>1. M!Pending(p) = (1 .. Shipped[p]) \ (1 .. release)
    BY DEF M!Pending, AtRelease
  <2>2. QED
    BY <1>0, <2>1 DEF Releases
<1>2. release + 1 \in M!Pending(p) /\ \A v \in M!Pending(p) : release + 1 <= v
  <2>1. release \in Nat /\ Shipped[p] \in Nat
    BY <1>0 DEF Releases
  <2>2. PICK v \in (release + 1) .. Shipped[p] : TRUE
    BY <1>1
  <2>3. release + 1 \in (release + 1) .. Shipped[p]
    BY <2>1, <2>2
  <2>4. \A w \in (release + 1) .. Shipped[p] : release + 1 <= w
    BY <2>1
  <2>5. QED
    BY <1>1, <2>3, <2>4
<1>3. \A v \in M!Pending(p) : v \in Int
  BY <1>1
<1>4. QED
  BY <1>1, <1>2, <1>3 DEF M!Min, Releases

\* A migration takes a database from one release to the next.
LEMMA MigrateOne ==
  ASSUME NEW d, NEW release \in Releases, release < 19, AtRelease(d, release)
  PROVE  AtRelease(M!Migrate(d, release + 1), release + 1)
<1> DEFINE new == M!Migrate(d, release + 1)
<1>1. new.done = 1 .. release + 1
  <2>1. new.done = (1 .. release) \cup {release + 1}
    BY DEF AtRelease, M!Migrate
  <2>2. 1 .. release + 1 = (1 .. release) \cup {release + 1}
    BY DEF Releases
  <2>3. QED
    BY <2>1, <2>2
<1>2. new.times = [v \in 1 .. 19 |-> IF v <= release + 1 THEN 1 ELSE 0]
  <2>1. new.times = [d.times EXCEPT ![release + 1] = @ + 1]
    BY DEF M!Migrate
  <2>2. d.times = [v \in 1 .. 19 |-> IF v <= release THEN 1 ELSE 0]
    BY DEF AtRelease
  <2>3. QED
    BY <2>1, <2>2 DEF Releases
<1>3. new.tables = UNION {M!Adds(v) : v \in 1 .. release + 1}
  <2>1. new.tables = d.tables \cup M!Adds(release + 1)
    BY DEF M!Migrate
  <2>2. 1 .. release + 1 = (1 .. release) \cup {release + 1}
    BY DEF Releases
  <2>3. d.tables = UNION {M!Adds(v) : v \in 1 .. release}
    BY DEF AtRelease
  <2>4. UNION {M!Adds(v) : v \in (1 .. release) \cup {release + 1}}
          = (UNION {M!Adds(v) : v \in 1 .. release}) \cup M!Adds(release + 1)
    <3> DEFINE past == 1 .. release
               next == release + 1
    <3> HIDE DEF past, next
    <3>1. UNION {M!Adds(v) : v \in past \cup {next}} = (UNION {M!Adds(v) : v \in past}) \cup M!Adds(next)
      <4> DEFINE all == past \cup {next}
                 old == UNION {M!Adds(v) : v \in past}
                 grown == UNION {M!Adds(v) : v \in all}
                 add == M!Adds(next)
      <4>0. \A v : v \in all <=> v \in past \/ v = next
        OBVIOUS
      <4> HIDE DEF all
      <4>1. \A x : x \in old <=> \E v \in past : x \in M!Adds(v)
        OBVIOUS
      <4>2. \A x : x \in grown <=> \E v \in all : x \in M!Adds(v)
        OBVIOUS
      <4>3. \A x : x \in add <=> x \in M!Adds(next)
        OBVIOUS
      <4> HIDE DEF old, grown, add
      <4>4. \A x : x \in grown <=> x \in old \/ x \in add
        BY <4>0, <4>1, <4>2, <4>3, Zenon
      <4>5. grown = old \cup add
        BY <4>4
      <4>6. QED
        BY <4>5 DEF old, grown, add, all
    <3>2. QED
      BY <3>1 DEF past, next
  <2>5. QED
    BY <2>1, <2>2, <2>3, <2>4, Zenon
<1>4. /\ DOMAIN new.events = OldRows
      /\ release + 1 >= 13 => \A id \in OldRows : new.events[id] # "null"
  <2>1. CASE release + 1 = 13
    BY <2>1 DEF AtRelease, M!Migrate, M!DedupeById, M!Legacy
  <2>2. CASE release + 1 # 13
    BY <2>2 DEF AtRelease, M!Migrate, M!RebuildEvents, Releases
  <2>3. QED
    BY <2>1, <2>2
<1>5. release + 1 >= 18 => new.parties = OldRows
  BY DEF AtRelease, M!Migrate, Releases
<1>6. QED
  BY <1>1, <1>2, <1>3, <1>4, <1>5 DEF AtRelease

\* A database starts at the release it was left at.
LEMMA MigrationInit == Init => MigrationInv
<1> SUFFICES ASSUME M!Init PROVE MigrationInv
  BY DEF Init
<1>1. Stored \in Releases /\ AtRelease(mDb, Stored)
  BY MigrationsAssumption DEF M!Init, M!InitialDb, M!MaxVersion, M!NoId, AtRelease, Releases
<1>2. MigrationVarsOK
  BY MigrationsAssumption DEF M!Init, MigrationVarsOK
<1>3. QED
  BY <1>1, <1>2 DEF M!Init, MigrationInv, DbIsAtARelease, CopiesAreAtReleases, WritersAreAlone, MigratedIsEnough

\* A process begins to migrate with the database as it is.
LEMMA OpenKeeps ==
  ASSUME MigrationInv, NEW p \in Processes, M!Open(p)
  PROVE  MigrationInv'
<1> USE DEF MigrationInv
<1>1. MigrationVarsOK'
  BY DEF M!Open, MigrationVarsOK
<1>2. DbIsAtARelease'
  BY DEF M!Open, DbIsAtARelease, AtRelease
<1>3. CopiesAreAtReleases'
  <2> SUFFICES ASSUME NEW q \in Processes, mProc'[q] = "migrating"
               PROVE  \E release \in Releases : AtRelease(mCopy'[q], release) /\ mBase'[q] <= mCommits'
    BY DEF CopiesAreAtReleases, AtRelease
  <2>1. CASE q = p
    <3>1. mCopy'[q] = mDb /\ mBase'[q] = mCommits /\ mCommits' = mCommits /\ mCommits \in Nat
      BY <2>1 DEF M!Open, MigrationVarsOK
    <3>2. QED
      BY <3>1 DEF DbIsAtARelease
  <2>2. CASE q # p
    <3>1. mCopy'[q] = mCopy[q] /\ mBase'[q] = mBase[q] /\ mCommits' = mCommits /\ mProc[q] = "migrating"
      BY <2>2 DEF M!Open, MigrationVarsOK
    <3>2. QED
      BY <3>1 DEF CopiesAreAtReleases
  <2>3. QED
    BY <2>1, <2>2
<1>4. WritersAreAlone'
  <2>1. ~ mWriting[p]
    BY DEF M!Open, WritersAreAlone
  <2> SUFFICES ASSUME NEW q \in Processes
               PROVE  /\ mWriting'[q] => mProc'[q] = "migrating" /\ mBase'[q] = mCommits' /\ mDb'.done \subseteq mCopy'[q].done
                      /\ mWriting'[q] => \A w \in Processes : mWriting'[w] => w = q
                      /\ mProc'[q] = "migrating" /\ ~ mWriting'[q] =>
                           /\ mCopy'[q].done \subseteq mDb'.done
                           /\ mBase'[q] = mCommits' => mCopy'[q] = mDb'
    BY DEF WritersAreAlone
  <2>2. CASE q = p
    BY <2>1, <2>2 DEF M!Open, MigrationVarsOK, WritersAreAlone
  <2>3. CASE q # p
    BY <2>1, <2>3 DEF M!Open, MigrationVarsOK, WritersAreAlone
  <2>4. QED
    BY <2>2, <2>3
<1>5. MigratedIsEnough'
  <2>1. mDb' = mDb /\ \A q \in Processes : mProc'[q] = mProc[q] \/ mProc'[q] = "migrating"
    BY DEF M!Open, MigrationVarsOK
  <2>2. QED
    BY <2>1 DEF MigratedIsEnough, M!PollerAccepts, M!HasGap
<1>6. QED
  BY <1>1, <1>2, <1>3, <1>4, <1>5

\* A migration changes the copy of the only transaction that writes.
LEMMA ApplyKeeps ==
  ASSUME MigrationInv, NEW p \in Processes, M!ApplyMigration(p)
  PROVE  MigrationInv'
<1> USE DEF MigrationInv
<1>0. PICK release \in Releases : AtRelease(mCopy[p], release) /\ mBase[p] <= mCommits
  BY DEF M!ApplyMigration, CopiesAreAtReleases
<1>a. M!Min(M!Pending(p)) = release + 1 /\ release + 1 <= Shipped[p]
  BY <1>0, NextVersion DEF M!ApplyMigration
<1>b. release + 1 \in Releases /\ release < 19
  <2>1. Shipped[p] \in 0 .. 19
    BY MigrationsAssumption
  <2>2. QED
    BY <1>a, <2>1 DEF Releases
<1>c. AtRelease(mCopy'[p], release + 1)
  <2>1. mCopy'[p] = M!Migrate(mCopy[p], release + 1)
    BY <1>a DEF M!ApplyMigration, MigrationVarsOK
  <2>2. QED
    BY <1>0, <1>b, <2>1, MigrateOne
<1>d. /\ mDb' = mDb /\ mCommits' = mCommits /\ mProc' = mProc /\ mBase' = mBase
      /\ mWriting'[p] = TRUE
      /\ \A q \in Processes : q # p => mCopy'[q] = mCopy[q] /\ mWriting'[q] = mWriting[q]
  BY DEF M!ApplyMigration, MigrationVarsOK
<1>e. mBase[p] = mCommits /\ \A q \in Processes : mWriting[q] => q = p
  BY DEF M!ApplyMigration, M!MayWrite, WritersAreAlone
<1>1. MigrationVarsOK'
  BY MigrationsAssumption DEF M!ApplyMigration, MigrationVarsOK
<1>2. DbIsAtARelease'
  BY <1>d DEF DbIsAtARelease, AtRelease
<1>3. CopiesAreAtReleases'
  <2> SUFFICES ASSUME NEW q \in Processes, mProc'[q] = "migrating"
               PROVE  \E r \in Releases : AtRelease(mCopy'[q], r) /\ mBase'[q] <= mCommits'
    BY DEF CopiesAreAtReleases, AtRelease
  <2>1. CASE q = p
    BY <1>0, <1>b, <1>c, <1>d, <2>1
  <2>2. CASE q # p
    BY <1>d, <2>2 DEF CopiesAreAtReleases
  <2>3. QED
    BY <2>1, <2>2
<1>4. WritersAreAlone'
  <2>1. mDb.done \subseteq mCopy[p].done
    BY <1>e DEF M!ApplyMigration, WritersAreAlone
  <2>2. mCopy[p].done \subseteq mCopy'[p].done
    BY <1>0, <1>c DEF AtRelease, Releases
  <2> SUFFICES ASSUME NEW q \in Processes
               PROVE  /\ mWriting'[q] => mProc'[q] = "migrating" /\ mBase'[q] = mCommits' /\ mDb'.done \subseteq mCopy'[q].done
                      /\ mWriting'[q] => \A w \in Processes : mWriting'[w] => w = q
                      /\ mProc'[q] = "migrating" /\ ~ mWriting'[q] =>
                           /\ mCopy'[q].done \subseteq mDb'.done
                           /\ mBase'[q] = mCommits' => mCopy'[q] = mDb'
    BY DEF WritersAreAlone
  <2>3. CASE q = p
    BY <1>d, <1>e, <2>1, <2>2, <2>3 DEF M!ApplyMigration
  <2>4. CASE q # p
    BY <1>d, <1>e, <2>4 DEF WritersAreAlone
  <2>5. QED
    BY <2>3, <2>4
<1>5. MigratedIsEnough'
  BY <1>d DEF MigratedIsEnough, M!PollerAccepts, M!HasGap
<1>6. QED
  BY <1>1, <1>2, <1>3, <1>4, <1>5

\* A transaction rolled back leaves no trace.
LEMMA FailKeeps ==
  ASSUME MigrationInv, NEW p \in Processes, M!Fail(p), mFaults' \in 0 .. MaxFaults
  PROVE  MigrationInv'
<1> USE DEF MigrationInv
<1>d. /\ mDb' = mDb /\ mCommits' = mCommits /\ mCopy' = mCopy /\ mBase' = mBase
      /\ mWriting'[p] = FALSE /\ mProc'[p] = "down"
      /\ \A q \in Processes : q # p => mProc'[q] = mProc[q] /\ mWriting'[q] = mWriting[q]
  BY DEF M!Fail, M!RollBack, MigrationVarsOK
<1>1. MigrationVarsOK'
  BY MigrationsAssumption DEF M!Fail, M!RollBack, MigrationVarsOK
<1>2. DbIsAtARelease'
  BY <1>d DEF DbIsAtARelease, AtRelease
<1>3. CopiesAreAtReleases'
  BY <1>d DEF CopiesAreAtReleases, AtRelease
<1>4. WritersAreAlone'
  BY <1>d DEF WritersAreAlone
<1>5. MigratedIsEnough'
  BY <1>d DEF MigratedIsEnough, M!PollerAccepts, M!HasGap
<1>6. QED
  BY <1>1, <1>2, <1>3, <1>4, <1>5

\* Nothing a check of the poller asks for is taken back by a later release.
LEMMA CommitKeeps ==
  ASSUME MigrationInv, NEW p \in Processes, M!Commit(p)
  PROVE  MigrationInv'
<1> USE DEF MigrationInv
<1>0. PICK old \in Releases : AtRelease(mDb, old)
  BY DEF DbIsAtARelease
<1>1. PICK release \in Releases : AtRelease(mCopy[p], release)
  BY DEF M!Commit, CopiesAreAtReleases
<1>2. 1 .. Shipped[p] \subseteq 1 .. release
  BY <1>1 DEF M!Commit, M!Pending, AtRelease
<1>3. /\ mProc' = [mProc EXCEPT ![p] = "migrated"] /\ mWriting' = [mWriting EXCEPT ![p] = FALSE]
      /\ mCopy' = mCopy /\ mBase' = mBase /\ mAttempt' = mAttempt /\ mFaults' = mFaults
      /\ mCommits \in Nat
  BY DEF M!Commit, MigrationVarsOK
<1>4. CASE mWriting[p]
  <2>1. mDb' = mCopy[p] /\ mCommits' = mCommits + 1
    BY <1>4 DEF M!Commit
  <2>2. \A q \in Processes : mWriting[q] => q = p
    BY <1>4 DEF WritersAreAlone
  <2>3. mDb.done \subseteq mDb'.done /\ mDb.tables \subseteq mDb'.tables
    <3>1. mDb.done \subseteq mDb'.done
      BY <1>4, <2>1 DEF WritersAreAlone
    <3>2. 1 .. old \subseteq 1 .. release
      BY <1>0, <1>1, <2>1, <3>1 DEF AtRelease
    <3>3. QED
      BY <1>0, <1>1, <2>1, <3>1, <3>2 DEF AtRelease
  <2>4. MigrationVarsOK'
    BY <1>3, <2>1 DEF MigrationVarsOK
  <2>5. DbIsAtARelease'
    BY <1>1, <2>1 DEF DbIsAtARelease, AtRelease
  <2>6. CopiesAreAtReleases'
    <3> SUFFICES ASSUME NEW q \in Processes, mProc'[q] = "migrating"
                 PROVE  \E r \in Releases : AtRelease(mCopy'[q], r) /\ mBase'[q] <= mCommits'
      BY DEF CopiesAreAtReleases, AtRelease
    <3>1. mProc[q] = "migrating" /\ mBase[q] \in Nat
      BY <1>3 DEF MigrationVarsOK
    <3>2. PICK r \in Releases : AtRelease(mCopy[q], r) /\ mBase[q] <= mCommits
      BY <3>1 DEF CopiesAreAtReleases
    <3>3. QED
      BY <1>3, <2>1, <3>1, <3>2
  <2>7. WritersAreAlone'
    <3>1. \A q \in Processes : ~ mWriting'[q]
      BY <1>3, <2>2 DEF MigrationVarsOK
    <3> SUFFICES ASSUME NEW q \in Processes, mProc'[q] = "migrating"
                 PROVE  /\ mCopy'[q].done \subseteq mDb'.done
                        /\ mBase'[q] = mCommits' => mCopy'[q] = mDb'
      BY <3>1 DEF WritersAreAlone
    <3>2. q # p /\ mProc[q] = "migrating" /\ ~ mWriting[q]
      BY <1>3, <2>2 DEF MigrationVarsOK
    <3>3. mCopy[q].done \subseteq mDb.done
      BY <3>2 DEF WritersAreAlone
    <3>4. mBase[q] \in Nat /\ mBase[q] <= mCommits
      BY <3>2 DEF CopiesAreAtReleases, MigrationVarsOK
    <3>5. mBase'[q] # mCommits'
      BY <1>3, <2>1, <3>4
    <3>6. QED
      BY <1>3, <2>3, <3>3, <3>5
  <2>8. MigratedIsEnough'
    <3> SUFFICES ASSUME NEW q \in Processes
                 PROVE  /\ mProc'[q] \in {"migrated", "up"} => 1 .. Shipped[q] \subseteq mDb'.done
                        /\ mProc'[q] = "up" => M!PollerAccepts(mDb')
      BY DEF MigratedIsEnough, M!PollerAccepts, M!HasGap
    <3>1. CASE q = p
      BY <1>1, <1>2, <1>3, <2>1, <3>1 DEF MigrationVarsOK, AtRelease
    <3>2. CASE q # p
      <4>1. mProc'[q] = mProc[q]
        BY <1>3, <3>2 DEF MigrationVarsOK
      <4>2. ~ M!HasGap(mDb')
        BY <1>1, <2>1 DEF M!HasGap, AtRelease, Releases
      <4>3. QED
        BY <4>1, <4>2, <2>3 DEF MigratedIsEnough, M!PollerAccepts
    <3>3. QED
      BY <3>1, <3>2
  <2>9. QED
    BY <2>4, <2>5, <2>6, <2>7, <2>8
<1>5. CASE ~ mWriting[p]
  <2>1. mDb' = mDb /\ mCommits' = mCommits
    BY <1>5 DEF M!Commit
  <2>2. /\ \A q \in Processes : q # p => mProc'[q] = mProc[q] /\ mWriting'[q] = mWriting[q]
        /\ mProc'[p] = "migrated" /\ ~ mWriting'[p]
    BY <1>3 DEF MigrationVarsOK
  <2>3. 1 .. Shipped[p] \subseteq mDb.done
    BY <1>1, <1>2, <1>5 DEF WritersAreAlone, M!Commit, AtRelease
  <2>4. MigrationVarsOK'
    BY <1>3, <2>1 DEF MigrationVarsOK
  <2>5. DbIsAtARelease'
    BY <2>1 DEF DbIsAtARelease, AtRelease
  <2>6. CopiesAreAtReleases'
    BY <1>3, <2>1, <2>2 DEF CopiesAreAtReleases, AtRelease
  <2>7. WritersAreAlone'
    BY <1>3, <2>1, <2>2 DEF WritersAreAlone
  <2>8. MigratedIsEnough'
    BY <2>1, <2>2, <2>3 DEF MigratedIsEnough, M!PollerAccepts, M!HasGap
  <2>9. QED
    BY <2>4, <2>5, <2>6, <2>7, <2>8
<1>6. QED
  BY <1>4, <1>5

\* The checks before the poller starts keep MigrationInv (index.ts, startPoller).
LEMMA StartPollerKeeps ==
  ASSUME MigrationInv, NEW p \in Processes, M!StartPoller(p)
  PROVE  MigrationInv'
<1> USE DEF MigrationInv
<1>1. /\ mDb' = mDb /\ mCommits' = mCommits /\ mCopy' = mCopy /\ mBase' = mBase
      /\ mWriting' = mWriting /\ mProc[p] = "migrated"
      /\ mProc'[p] = IF M!PollerAccepts(mDb) THEN "up" ELSE "down"
      /\ \A q \in Processes : q # p => mProc'[q] = mProc[q]
  BY DEF M!StartPoller, MigrationVarsOK
<1>2. MigrationVarsOK'
  BY DEF M!StartPoller, MigrationVarsOK
<1>3. DbIsAtARelease'
  BY <1>1 DEF DbIsAtARelease, AtRelease
<1>4. CopiesAreAtReleases'
  BY <1>1 DEF CopiesAreAtReleases, AtRelease
<1>5. WritersAreAlone'
  BY <1>1 DEF WritersAreAlone
<1>6. MigratedIsEnough'
  BY <1>1 DEF MigratedIsEnough, M!PollerAccepts, M!HasGap
<1>7. QED
  BY <1>2, <1>3, <1>4, <1>5, <1>6

\* MigrationInv depends on the database and the processes alone.
LEMMA WaitingKeeps ==
  ASSUME MigrationInv, MigrationVarsOK', UNCHANGED <<mDb, mCommits, mProc, mCopy, mBase, mWriting>>
  PROVE  MigrationInv'
<1>1. DbIsAtARelease'
  BY DEF MigrationInv, DbIsAtARelease, AtRelease
<1>2. CopiesAreAtReleases'
  BY DEF MigrationInv, CopiesAreAtReleases, AtRelease
<1>3. WritersAreAlone'
  BY DEF MigrationInv, WritersAreAlone
<1>4. MigratedIsEnough'
  BY DEF MigrationInv, MigratedIsEnough, M!PollerAccepts, M!HasGap
<1>5. QED
  BY <1>1, <1>2, <1>3, <1>4 DEF MigrationInv

\* Every step of a process that migrates keeps MigrationInv.
LEMMA MigrationStep == MigrationInv /\ [M!Next]_mVars => MigrationInv'
<1> SUFFICES ASSUME MigrationInv, [M!Next]_mVars PROVE MigrationInv'
  OBVIOUS
<1>1. CASE UNCHANGED mVars
  BY <1>1, WaitingKeeps DEF mVars, MigrationInv, MigrationVarsOK
<1>2. ASSUME NEW p \in Processes, M!Busy(p) PROVE MigrationInv'
  <2>1. MigrationVarsOK'
    BY <1>2, MigrationsAssumption DEF M!Busy, MigrationInv, MigrationVarsOK
  <2>2. QED
    BY <1>2, <2>1, WaitingKeeps DEF M!Busy
<1>3. ASSUME NEW p \in Processes, M!GiveUp(p) PROVE MigrationInv'
  BY <1>3, FailKeeps DEF M!GiveUp, MigrationInv, MigrationVarsOK
<1>4. ASSUME NEW p \in Processes, M!Fault(p) PROVE MigrationInv'
  <2>1. mFaults' \in 0 .. MaxFaults
    BY <1>4, MigrationsAssumption DEF M!Fault, MigrationInv, MigrationVarsOK
  <2>2. QED
    BY <1>4, <2>1, FailKeeps DEF M!Fault
<1>5. QED
  BY <1>1, <1>2, <1>3, <1>4, OpenKeeps, ApplyKeeps, CommitKeeps, StartPollerKeeps DEF M!Next

\* MigrationInv is an invariant.
LEMMA MigrationsHold == Spec => []MigrationInv
<1>1. MigrationInv /\ [Next]_vars => MigrationInv'
  BY MigrationStep, MSteps
<1>2. QED
  BY <1>1, MigrationInit, PTL DEF Spec

\* Whatever processes start together, fail or die between two migrations, the
\* database is at one release with all that is in it, and a process that runs has
\* the schema its release needs (runMigrations, verifySchemaIntegrity).
THEOREM MigrationsAtomic == Spec => []MigrationsAreAtomic
<1>1. MigrationInv => M!SchemaMatchesVersions
  <2> SUFFICES ASSUME MigrationInv PROVE M!SchemaMatchesVersions
    OBVIOUS
  <2>1. PICK release \in Releases : AtRelease(mDb, release)
    BY DEF MigrationInv, DbIsAtARelease
  <2>2. M!Cardinality(1 .. release) = release
    <3>1. 1 \in Int /\ release \in Int /\ release >= 0
      BY DEF Releases
    <3>2. Cardinality(1 .. release) = IF 1 > release THEN 0 ELSE release - 1 + 1
      BY <3>1, FS_Interval, Zenon
    <3>3. Cardinality(1 .. release) = release
      BY <3>1, <3>2
    <3>4. QED
      BY <3>3, Zenon DEF Cardinality, M!Cardinality
  <2>3. M!Cardinality(mDb.done) = release
    BY <2>1, <2>2 DEF AtRelease
  <2>4. \A v \in 1 .. 19 : mDb.times[v] = IF v <= release THEN 1 ELSE 0
    BY <2>1 DEF AtRelease
  <2>5. QED
    BY <2>1, <2>3, <2>4 DEF M!SchemaMatchesVersions, AtRelease, M!MaxVersion, M!NoId
<1>2. MigrationInv => M!ProcessesRunOnTheirSchema
  <2> SUFFICES ASSUME MigrationInv, NEW p \in Processes, mProc[p] = "up"
               PROVE  /\ UNION {M!Adds(v) : v \in 1 .. Shipped[p]} \subseteq mDb.tables
                      /\ Shipped[p] >= 15 => M!FailoverAccepts(mDb, Shipped[p])
                      /\ M!PollerAccepts(mDb) /\ M!MetricsAccepts(mDb, Shipped[p])
                      /\ M!TrackerAccepts(mDb) /\ M!VacuumAccepts(mDb)
    BY DEF M!ProcessesRunOnTheirSchema
  <2>1. PICK release \in Releases : AtRelease(mDb, release)
    BY DEF MigrationInv, DbIsAtARelease
  <2>2. 1 .. Shipped[p] \subseteq mDb.done /\ M!PollerAccepts(mDb)
    BY DEF MigrationInv, MigratedIsEnough
  <2>3. UNION {M!Adds(v) : v \in 1 .. Shipped[p]} \subseteq mDb.tables
    BY <2>1, <2>2 DEF AtRelease
  <2>4. Shipped[p] >= 15 => M!FailoverAccepts(mDb, Shipped[p])
    <3> SUFFICES ASSUME Shipped[p] >= 15 PROVE M!FailoverAccepts(mDb, Shipped[p])
      OBVIOUS
    <3>0. Shipped[p] \in 0 .. 19
      BY MigrationsAssumption
    <3>1. 15 \in 1 .. Shipped[p]
      BY <3>0
    <3>2. "rpc_node_health" \in M!Adds(15)
      BY DEF M!Adds, M!FeatureTables
    <3>3. "rpc_node_health" \in mDb.tables
      BY <2>3, <3>1, <3>2
    <3>4. QED
      BY <2>2, <3>3 DEF M!FailoverAccepts, M!PollerAccepts
  <2>5. QED
    BY <2>2, <2>3, <2>4 DEF M!PollerAccepts, M!MetricsAccepts, M!TrackerAccepts, M!VacuumAccepts
<1>3. QED
  BY <1>1, <1>2, MigrationsHold, PTL DEF MigrationsAreAtomic

(***************************************************************************)
(* Backfill: a fetch that has come to a position has everything of its     *)
(* range up to there, and the request that holds the guard is the only one.*)
(***************************************************************************)

\* While pages are read, the range ends on a closed ledger, and what lies behind the
\* cursor is stored.
FetchesAreOnTheirWay ==
  \A c \in B!Calls :
    /\ bStep[c] \in {"idle", "validating", "begun"} => bCursor[c] = 0
    /\ bStep[c] = "paging" =>
         /\ B!Valid(B!RangeOf(c))
         /\ \A p \in B!Within(B!RangeOf(c)) : p <= bCursor[c] => p \in bRows \cup bUndecoded

Busy == {"validating", "begun", "paging"}

GuardInv ==
  /\ bStep["configured"] # "validating"
  /\ \A c, d \in DOMAIN Posts : bStep[c] \in Busy /\ bStep[d] \in Busy => c = d
  /\ bStarting => \E c \in DOMAIN Posts : bStep[c] = "validating"
  /\ \A c \in DOMAIN Posts : bStep[c] = "validating" => bStarting
  /\ \A c \in DOMAIN Posts : bStep[c] \in {"begun", "paging"} => bJob = [id |-> c, status |-> "running"]
  /\ bJob.status = "running" => bJob.id \in DOMAIN Posts /\ bStep[bJob.id] \in {"begun", "paging"}
  /\ bJob.id = "configured" => bJob.status = "idle"

BackfillTypes ==
  /\ bHead \in 1 .. MaxHead /\ bRows \cup bUndecoded \subseteq DOMAIN OnChain
  /\ bRecorded \subseteq {Configured}
  /\ bStep \in [B!Calls -> B!Steps] /\ bCursor \in [B!Calls -> 0 .. Len(OnChain)]
  /\ bStarting \in BOOLEAN
  /\ bJob \in [id : B!Calls, status : {"idle", "running", "done", "failed"}]
  /\ bCrashes \in 0 .. MaxCrashes

BackfillInv ==
  BackfillTypes /\ FetchesAreOnTheirWay /\ GuardInv /\ B!DoneBackfillIsComplete

\* A page that is full reaches up to its last event, and one that is not is the
\* rest of the range.
LEMMA PageIsBeginning ==
  ASSUME BackfillInv, NEW c \in B!Calls, bStep[c] = "paging",
         NEW page, page = B!Answer(c)
  PROVE  /\ page \subseteq DOMAIN OnChain
         /\ page # {} => B!Max(page) \in page
         /\ \A p \in B!Within(B!RangeOf(c)) :
              p \in page \/ p \in bRows \cup bUndecoded
                \/ (~ B!IsLastPage(page) /\ page # {} /\ p > B!Max(page))
<1> DEFINE matching == {p \in DOMAIN OnChain :
                          /\ OnChain[p] <= bHead
                          /\ IF bCursor[c] = 0 THEN B!InRange(OnChain[p], B!RangeOf(c)) ELSE p > bCursor[c]}
<1>0. /\ DOMAIN OnChain = 1 .. Len(OnChain) /\ Len(OnChain) \in Nat
      /\ \A p \in DOMAIN OnChain : OnChain[p] \in Nat
      /\ bHead \in Nat /\ bCursor[c] \in Nat /\ Limit \in Nat /\ Limit > 0
  BY BackfillAssumption DEF BackfillInv, BackfillTypes
<1>1. page = FirstN(matching, Limit)
  BY DEF B!Answer, B!FirstN, FirstN, B!Cardinality, Cardinality
<1>2. matching \in SUBSET (0 .. Len(OnChain)) /\ matching \subseteq DOMAIN OnChain
  BY <1>0
<1>3. \A p \in B!Within(B!RangeOf(c)) : p \in matching \/ p \in bRows \cup bUndecoded
  <2> SUFFICES ASSUME NEW p \in B!Within(B!RangeOf(c)), p \notin bRows \cup bUndecoded
               PROVE  p \in matching
    OBVIOUS
  <2>1. p \in DOMAIN OnChain /\ B!InRange(OnChain[p], B!RangeOf(c))
    BY DEF B!Within
  <2>2. bCursor[c] < p /\ B!RangeOf(c).end <= bHead /\ B!RangeOf(c).end \in Nat
    BY <1>0, <2>1 DEF BackfillInv, FetchesAreOnTheirWay, B!Valid, B!ValidRange
  <2>3. OnChain[p] <= bHead
    BY <1>0, <2>1, <2>2 DEF B!InRange
  <2>4. QED
    BY <2>1, <2>2, <2>3
<1> HIDE DEF matching
<1>4. /\ \A i \in matching \ page, j \in page : j < i
      /\ Cardinality(page) < Limit => page = matching
  BY <1>0, <1>1, <1>2, FirstNBegins
<1>5. page \subseteq matching
  BY <1>1, FirstNFacts
<1>6. page # {} => B!Max(page) \in page /\ \A x \in page : x <= B!Max(page)
  <2>1. page \in SUBSET (0 .. Len(OnChain))
    BY <1>2, <1>5
  <2>2. page # {} => Max(page) \in page /\ \A x \in page : x <= Max(page)
    BY <1>0, <2>1, MaxProperty
  <2>3. B!Max(page) = Max(page)
    BY DEF Max, B!Max
  <2>4. QED
    BY <2>2, <2>3
<1>7. B!IsLastPage(page) => page = matching
  BY <1>4 DEF B!IsLastPage, B!Cardinality, Cardinality
<1>8. page = {} => B!IsLastPage(page)
  BY <1>0, FS_EmptySet DEF B!IsLastPage, B!Cardinality, Cardinality
<1>9. QED
  BY <1>2, <1>3, <1>4, <1>5, <1>6, <1>7, <1>8

\* The tables only grow, so what is complete stays so.
LEMMA CompleteStays ==
  ASSUME B!DoneBackfillIsComplete, bRows \subseteq bRows', bUndecoded \subseteq bUndecoded',
         UNCHANGED bRecorded, bJob' = bJob \/ bJob'.status # "done"
  PROVE  B!DoneBackfillIsComplete'
  BY DEF B!DoneBackfillIsComplete

\* A call that reads no page keeps what the others have stored.
LEMMA OthersOnTheirWay ==
  ASSUME BackfillInv, UNCHANGED <<bHead, bRows, bUndecoded, bCursor>>,
         \A c \in B!Calls :
           /\ bStep'[c] = "paging" => bStep[c] = "paging"
           /\ bStep'[c] \in {"idle", "validating", "begun"} => bStep[c] \in {"idle", "validating", "begun"}
  PROVE  FetchesAreOnTheirWay'
  BY DEF BackfillInv, FetchesAreOnTheirWay, B!Valid, B!Within, B!RangeOf

\* A request for a backfill, or its refusal, keeps BackfillInv.
LEMMA PostKeeps ==
  ASSUME BackfillInv, NEW c \in B!Calls, B!Post(c)
  PROVE  BackfillInv'
<1> USE DEF BackfillInv
<1>0. /\ c \in DOMAIN Posts /\ bStep' = [bStep EXCEPT ![c] = "validating"]
      /\ bStep \in [B!Calls -> B!Steps] /\ DOMAIN Posts \subseteq B!Calls
  BY DEF B!Post, B!Calls, B!Boot, BackfillTypes
<1>1. BackfillTypes'
  BY DEF B!Post, BackfillTypes, B!Steps
<1>2. FetchesAreOnTheirWay'
  BY <1>0, OthersOnTheirWay DEF B!Post
<1>3. B!DoneBackfillIsComplete'
  BY CompleteStays DEF B!Post
<1>4. GuardInv'
  <2>1. \A d \in DOMAIN Posts : bStep[d] \notin Busy
    BY DEF B!Post, GuardInv, Busy
  <2>2. c # "configured"
    BY DEF B!Post, B!Boot
  <2>3. \A d \in B!Calls : bStep'[d] = IF d = c THEN "validating" ELSE bStep[d]
    BY <1>0
  <2>4. \A d \in DOMAIN Posts : d # c => bStep'[d] \notin Busy
    BY <1>0, <2>1, <2>3
  <2>5. bStarting' = TRUE /\ bJob' = bJob /\ bJob.status # "running"
    BY DEF B!Post
  <2>6. "configured" \in B!Calls
    BY DEF B!Calls, B!Boot
  <2>7. QED
    BY <1>0, <2>2, <2>3, <2>4, <2>5, <2>6 DEF GuardInv, Busy
<1>5. QED
  BY <1>1, <1>2, <1>3, <1>4

\* The answer to the posted request: a job, or an error.
LEMMA ValidateKeeps ==
  ASSUME BackfillInv, NEW c \in B!Calls, B!Validate(c) \/ B!ValidationFails(c)
  PROVE  BackfillInv'
<1> USE DEF BackfillInv
<1>0. /\ bStep[c] = "validating" /\ c # "configured" /\ c \in DOMAIN Posts
      /\ bStep \in [B!Calls -> B!Steps] /\ DOMAIN Posts \subseteq B!Calls
      /\ "configured" \in B!Calls
  BY DEF B!Validate, B!ValidationFails, B!Calls, B!Boot, BackfillTypes, GuardInv
<1>1. /\ UNCHANGED <<bHead, bRows, bUndecoded, bRecorded, bCursor, bCrashes>>
      /\ bStarting' = FALSE
      /\ \/ bStep' = [bStep EXCEPT ![c] = "begun"] /\ bJob' = [id |-> c, status |-> "running"]
         \/ bStep' = [bStep EXCEPT ![c] = "ended"] /\ bJob' = bJob
  BY DEF B!Validate, B!ValidationFails, B!Unguard
<1>2. BackfillTypes'
  <2>1. bStep' \in [B!Calls -> B!Steps]
    BY <1>0, <1>1 DEF B!Steps
  <2>2. bJob' \in [id : B!Calls, status : {"idle", "running", "done", "failed"}]
    <3>1. bJob \in [id : B!Calls, status : {"idle", "running", "done", "failed"}]
      BY DEF BackfillTypes
    <3>2. QED
      BY <1>0, <1>1, <3>1
  <2>3. QED
    BY <1>1, <2>1, <2>2 DEF BackfillTypes
<1>3. FetchesAreOnTheirWay'
  BY <1>0, <1>1, OthersOnTheirWay
<1>4. B!DoneBackfillIsComplete'
  BY <1>1, CompleteStays
<1>5. GuardInv'
  <2>1. \A d \in DOMAIN Posts : d # c => bStep[d] \notin Busy
    BY <1>0 DEF GuardInv, Busy
  <2>2. \A d \in B!Calls : d # c => bStep'[d] = bStep[d]
    BY <1>0, <1>1
  <2>3. \A d \in DOMAIN Posts : d # c => bStep'[d] \notin Busy
    BY <1>0, <2>1, <2>2
  <2>4. bStep'["configured"] # "validating"
    BY <1>0, <2>2 DEF GuardInv
  <2>5. CASE bStep' = [bStep EXCEPT ![c] = "begun"] /\ bJob' = [id |-> c, status |-> "running"]
    BY <1>0, <1>1, <2>3, <2>4, <2>5 DEF GuardInv, Busy
  <2>6. CASE bStep' = [bStep EXCEPT ![c] = "ended"] /\ bJob' = bJob
    <3>1. bStep'[c] = "ended"
      BY <1>0, <2>6
    <3>2. bJob.status # "running"
      BY <1>0, <2>1 DEF GuardInv, Busy
    <3>3. QED
      BY <1>0, <1>1, <2>3, <2>4, <2>6, <3>1, <3>2 DEF GuardInv, Busy
  <2>7. QED
    BY <1>1, <2>5, <2>6
<1>6. QED
  BY <1>2, <1>3, <1>4, <1>5

\* The job of a fetch when it ends.
LEMMA GuardAfterFetch ==
  ASSUME BackfillInv, NEW c \in B!Calls, bStep[c] \in {"begun", "paging"},
         NEW status \in {"done", "failed"},
         bStep' = [bStep EXCEPT ![c] = "ended"], bJob' = B!JobAfter(c, status), UNCHANGED bStarting
  PROVE  /\ GuardInv'
         /\ bJob' \in [id : B!Calls, status : {"idle", "running", "done", "failed"}]
         /\ c # "configured" => bJob' = [id |-> c, status |-> status]
         /\ c = "configured" => bJob' = bJob
<1> USE DEF BackfillInv
<1>0. /\ bStep \in [B!Calls -> B!Steps] /\ DOMAIN Posts \subseteq B!Calls /\ "configured" \in B!Calls
      /\ c = "configured" \/ c \in DOMAIN Posts
      /\ bJob \in [id : B!Calls, status : {"idle", "running", "done", "failed"}]
  BY DEF BackfillTypes, B!Calls, B!Boot
<1>1. \A d \in B!Calls : bStep'[d] = IF d = c THEN "ended" ELSE bStep[d]
  BY <1>0
<1>2. CASE c = "configured"
  <2>1. bJob' = bJob /\ c \notin DOMAIN Posts
    BY <1>2, BackfillAssumption DEF B!JobAfter, B!Boot
  <2>2. \A d \in DOMAIN Posts : bStep'[d] = bStep[d]
    BY <1>0, <1>1, <2>1
  <2>3. bStep'["configured"] = "ended"
    BY <1>1, <1>2
  <2>4. QED
    BY <1>0, <1>2, <2>1, <2>2, <2>3 DEF GuardInv
<1>3. CASE c # "configured"
  <2>1. bJob = [id |-> c, status |-> "running"]
    BY <1>0, <1>3 DEF GuardInv
  <2>2. bJob' = [id |-> c, status |-> status]
    BY <1>3, <2>1 DEF B!JobAfter, B!Boot
  <2>3. \A d \in DOMAIN Posts : bStep'[d] \notin Busy
    BY <1>0, <1>1, <1>3 DEF GuardInv, Busy
  <2>4. bStep'["configured"] # "validating"
    BY <1>0, <1>1 DEF GuardInv
  <2>5. ~ bStarting
    BY <1>0, <1>3 DEF GuardInv, Busy
  <2>6. QED
    BY <1>0, <1>3, <2>2, <2>3, <2>4, <2>5 DEF GuardInv, Busy
<1>4. QED
  BY <1>2, <1>3

\* A failed page ends its backfill and frees the guard.
LEMMA FetchFailsKeeps ==
  ASSUME BackfillInv, NEW c \in B!Calls, B!FetchFails(c)
  PROVE  BackfillInv'
<1> USE DEF BackfillInv
<1>1. GuardInv' /\ bJob' \in [id : B!Calls, status : {"idle", "running", "done", "failed"}]
  BY GuardAfterFetch DEF B!FetchFails
<1>2. bJob' = bJob \/ bJob'.status = "failed"
  BY DEF B!FetchFails, B!JobAfter
<1>3. BackfillTypes'
  BY <1>1 DEF B!FetchFails, BackfillTypes, B!Steps
<1>4. FetchesAreOnTheirWay'
  BY OthersOnTheirWay DEF B!FetchFails, BackfillTypes
<1>5. B!DoneBackfillIsComplete'
  BY <1>2, CompleteStays DEF B!FetchFails
<1>6. QED
  BY <1>1, <1>3, <1>4, <1>5

\* A backfill that begins has nothing behind it.
LEMMA BeginFetchKeeps ==
  ASSUME BackfillInv, NEW c \in B!Calls, B!BeginFetch(c)
  PROVE  BackfillInv'
<1> USE DEF BackfillInv
<1>0. /\ bStep[c] = "begun" /\ bStep' = [bStep EXCEPT ![c] = "paging"]
      /\ UNCHANGED <<bHead, bRows, bUndecoded, bRecorded, bCursor, bStarting, bJob, bCrashes>>
      /\ bStep \in [B!Calls -> B!Steps] /\ DOMAIN Posts \subseteq B!Calls /\ "configured" \in B!Calls
      /\ B!Valid(B!RangeOf(c)) /\ bCursor[c] = 0
  BY DEF B!BeginFetch, BackfillTypes, B!Calls, B!Boot, FetchesAreOnTheirWay
<1>1. BackfillTypes'
  BY <1>0 DEF BackfillTypes, B!Steps
<1>2. FetchesAreOnTheirWay'
  <2>0. \A d \in B!Calls : bStep'[d] \in {"idle", "validating", "begun"} => bCursor[d] = 0
    BY <1>0 DEF FetchesAreOnTheirWay
  <2> SUFFICES ASSUME NEW d \in B!Calls, bStep'[d] = "paging"
               PROVE  /\ B!Valid(B!RangeOf(d))
                      /\ \A p \in B!Within(B!RangeOf(d)) : p <= bCursor[d] => p \in bRows \cup bUndecoded
    BY <1>0, <2>0 DEF FetchesAreOnTheirWay, B!Valid, B!Within, B!RangeOf
  <2>1. CASE d = c
    <3>1. \A p \in DOMAIN OnChain : ~ (p <= 0)
      BY BackfillAssumption
    <3>2. QED
      BY <1>0, <2>1, <3>1 DEF B!Within
  <2>2. CASE d # c
    BY <1>0, <2>2 DEF FetchesAreOnTheirWay
  <2>3. QED
    BY <2>1, <2>2
<1>3. B!DoneBackfillIsComplete'
  BY <1>0, CompleteStays
<1>4. GuardInv'
  <2>1. \A d \in B!Calls : bStep'[d] = IF d = c THEN "paging" ELSE bStep[d]
    BY <1>0
  <2>2. \A d \in DOMAIN Posts : bStep'[d] = bStep[d] \/ (bStep[d] = "begun" /\ bStep'[d] = "paging")
    BY <1>0, <2>1
  <2>3. bStep'["configured"] # "validating"
    BY <1>0, <2>1 DEF GuardInv
  <2>4. /\ \A d \in DOMAIN Posts : bStep'[d] \in Busy => bStep[d] \in Busy
        /\ \A d \in DOMAIN Posts : bStep'[d] \in {"begun", "paging"} => bStep[d] \in {"begun", "paging"}
        /\ \A d \in DOMAIN Posts : bStep[d] \in {"begun", "paging"} => bStep'[d] \in {"begun", "paging"}
        /\ \A d \in DOMAIN Posts : bStep'[d] = "validating" => bStep[d] = "validating"
        /\ \A d \in DOMAIN Posts : bStep[d] = "validating" => bStep'[d] = "validating"
    BY <2>2 DEF Busy
  <2>5. QED
    BY <1>0, <2>3, <2>4 DEF GuardInv
<1>5. QED
  BY <1>1, <1>2, <1>3, <1>4

\* A page: what it holds of the range is stored before the cursor moves behind it.
LEMMA FetchPageKeeps ==
  ASSUME BackfillInv, NEW c \in B!Calls, B!FetchPage(c)
  PROVE  BackfillInv'
<1> USE DEF BackfillInv
<1> DEFINE page == B!Answer(c)
           got  == {p \in page : B!InRange(OnChain[p], B!RangeOf(c))}
           last == B!IsLastPage(page)
<1>0. /\ bStep[c] = "paging"
      /\ bRows' = bRows \cup (got \ Undecodable)
      /\ bUndecoded' = bUndecoded \cup (page \cap Undecodable)
      /\ bCursor' = [bCursor EXCEPT ![c] = IF page = {} THEN @ ELSE B!Max(page)]
      /\ bStep' = [bStep EXCEPT ![c] = IF last THEN "ended" ELSE "paging"]
      /\ bJob' = IF last THEN B!JobAfter(c, "done") ELSE bJob
      /\ bRecorded' = IF last /\ c = "configured" THEN bRecorded \cup {Configured} ELSE bRecorded
      /\ UNCHANGED <<bHead, bStarting, bCrashes>>
  BY DEF B!FetchPage, B!Boot
<1>1. /\ page \subseteq DOMAIN OnChain
      /\ page # {} => B!Max(page) \in page
      /\ \A p \in B!Within(B!RangeOf(c)) :
           p \in page \/ p \in bRows \cup bUndecoded \/ (~ last /\ page # {} /\ p > B!Max(page))
  BY <1>0, PageIsBeginning
<1>2. \A p \in page : p \in B!Within(B!RangeOf(c)) => p \in bRows' \cup bUndecoded'
  BY <1>0 DEF B!Within
<1>3. /\ bRows \subseteq bRows' /\ bUndecoded \subseteq bUndecoded'
      /\ bRows' \cup bUndecoded' \subseteq DOMAIN OnChain
  BY <1>0, <1>1 DEF BackfillTypes
<1>4. /\ bStep \in [B!Calls -> B!Steps] /\ bCursor \in [B!Calls -> 0 .. Len(OnChain)]
      /\ DOMAIN OnChain = 1 .. Len(OnChain) /\ Len(OnChain) \in Nat
      /\ bStarting' = bStarting /\ bHead' = bHead
  BY <1>0, BackfillAssumption DEF BackfillTypes
<1> HIDE DEF page, got, last
<1>5. FetchesAreOnTheirWay'
  <2> SUFFICES ASSUME NEW d \in B!Calls
               PROVE  /\ bStep'[d] \in {"idle", "validating", "begun"} => bCursor'[d] = 0
                      /\ bStep'[d] = "paging" =>
                           /\ B!Valid(B!RangeOf(d))
                           /\ \A p \in B!Within(B!RangeOf(d)) : p <= bCursor'[d] => p \in bRows' \cup bUndecoded'
    BY <1>4 DEF FetchesAreOnTheirWay, B!Valid, B!Within, B!RangeOf
  <2>1. CASE d # c
    <3>1. bStep'[d] = bStep[d] /\ bCursor'[d] = bCursor[d]
      BY <1>0, <1>4, <2>1
    <3>2. QED
      BY <1>3, <3>1 DEF FetchesAreOnTheirWay
  <2>2. CASE d = c
    <3>1. bStep'[d] = (IF last THEN "ended" ELSE "paging") /\ bCursor'[d] = IF page = {} THEN bCursor[d] ELSE B!Max(page)
      BY <1>0, <1>4, <2>2
    <3>2. B!Valid(B!RangeOf(d))
      BY <1>0, <2>2 DEF FetchesAreOnTheirWay
    <3>3. ASSUME NEW p \in B!Within(B!RangeOf(d)), p <= bCursor'[d]
          PROVE  p \in bRows' \cup bUndecoded'
      <4>1. p \in Nat /\ (page # {} => B!Max(page) \in Nat)
        BY <1>1, <1>4 DEF B!Within
      <4>2. p \in page \/ p \in bRows \cup bUndecoded
        BY <1>1, <2>2, <3>1, <3>3, <4>1
      <4>3. QED
        BY <1>2, <1>3, <2>2, <4>2
    <3>4. QED
      BY <3>1, <3>2, <3>3
  <2>3. QED
    BY <2>1, <2>2
<1>6. CASE last
  <2>1. bStep' = [bStep EXCEPT ![c] = "ended"] /\ bJob' = B!JobAfter(c, "done")
    BY <1>0, <1>6
  <2>2. /\ GuardInv'
        /\ bJob' \in [id : B!Calls, status : {"idle", "running", "done", "failed"}]
        /\ c # "configured" => bJob' = [id |-> c, status |-> "done"]
        /\ c = "configured" => bJob' = bJob
    BY <1>0, <1>4, <2>1, GuardAfterFetch
  <2>3. BackfillTypes'
    <3>1. bStep' \in [B!Calls -> B!Steps]
      BY <1>4, <2>1 DEF B!Steps
    <3>2. bCursor' \in [B!Calls -> 0 .. Len(OnChain)]
      BY <1>0, <1>1, <1>4
    <3>3. bRecorded' \subseteq {Configured}
      BY <1>0 DEF BackfillTypes
    <3>4. QED
      BY <1>0, <1>3, <2>2, <3>1, <3>2, <3>3 DEF BackfillTypes
  <2>4. B!Within(B!RangeOf(c)) \subseteq bRows' \cup bUndecoded'
    BY <1>1, <1>2, <1>3, <1>6
  <2>5. B!DoneBackfillIsComplete'
    <3>1. \A r \in bRecorded' : B!Within(r) \subseteq bRows' \cup bUndecoded'
      <4>1. \A r \in bRecorded : B!Within(r) \subseteq bRows' \cup bUndecoded'
        BY <1>3 DEF B!DoneBackfillIsComplete
      <4>2. c = "configured" => B!Within(Configured) \subseteq bRows' \cup bUndecoded'
        BY <2>4 DEF B!RangeOf, B!Boot
      <4>3. QED
        BY <1>0, <4>1, <4>2
    <3>2. bJob'.status = "done" => B!Within(Posts[bJob'.id]) \subseteq bRows' \cup bUndecoded'
      <4>1. CASE c = "configured"
        BY <1>3, <2>2, <4>1 DEF B!DoneBackfillIsComplete
      <4>2. CASE c # "configured"
        BY <2>2, <2>4, <4>2 DEF B!RangeOf, B!Boot
      <4>3. QED
        BY <4>1, <4>2
    <3>3. QED
      BY <3>1, <3>2 DEF B!DoneBackfillIsComplete, B!Within
  <2>6. QED
    BY <1>5, <2>2, <2>3, <2>5
<1>7. CASE ~ last
  <2>1. bStep' = bStep /\ bJob' = bJob /\ bRecorded' = bRecorded
    BY <1>0, <1>4, <1>7
  <2>2. BackfillTypes'
    <3>1. bCursor' \in [B!Calls -> 0 .. Len(OnChain)]
      BY <1>0, <1>1, <1>4
    <3>2. QED
      BY <1>0, <1>3, <2>1, <3>1 DEF BackfillTypes
  <2>3. GuardInv'
    BY <1>4, <2>1 DEF GuardInv
  <2>4. B!DoneBackfillIsComplete'
    BY <1>3, <2>1, CompleteStays
  <2>5. QED
    BY <1>5, <2>2, <2>3, <2>4
<1>8. QED
  BY <1>6, <1>7

\* A crash loses the calls and the guard, and keeps the tables.
LEMMA CrashKeeps ==
  ASSUME BackfillInv, B!Crash
  PROVE  BackfillInv'
<1> USE DEF BackfillInv
<1>0. /\ bStep' = B!AtBoot(bRecorded) /\ bCursor' = [c \in B!Calls |-> 0]
      /\ bStarting' = FALSE /\ bJob' = [id |-> "configured", status |-> "idle"]
      /\ UNCHANGED <<bHead, bRows, bUndecoded, bRecorded>>
      /\ bCrashes' \in 0 .. MaxCrashes
      /\ "configured" \in B!Calls
  BY BackfillAssumption DEF B!Crash, B!NoJob, B!Boot, B!Calls, BackfillTypes
<1>1. \A c \in B!Calls : bStep'[c] \in {"idle", "begun"} /\ (c # "configured" => bStep'[c] = "idle")
  BY <1>0 DEF B!AtBoot, B!Boot
<1>2. BackfillTypes'
  <2>1. bStep' \in [B!Calls -> B!Steps]
    BY <1>0 DEF B!AtBoot, B!Steps
  <2>2. bCursor' \in [B!Calls -> 0 .. Len(OnChain)]
    BY <1>0, BackfillAssumption
  <2>3. QED
    BY <1>0, <2>1, <2>2 DEF BackfillTypes
<1>3. FetchesAreOnTheirWay'
  BY <1>0, <1>1 DEF FetchesAreOnTheirWay
<1>4. GuardInv'
  <2>1. \A c \in DOMAIN Posts : bStep'[c] = "idle"
    BY <1>1, BackfillAssumption DEF B!Calls
  <2>2. QED
    BY <1>0, <1>1, <2>1 DEF GuardInv, Busy
<1>5. B!DoneBackfillIsComplete'
  BY <1>0, CompleteStays
<1>6. QED
  BY <1>2, <1>3, <1>4, <1>5

\* A new ledger leaves what is stored and who runs alone.
LEMMA CloseLedgerKeeps ==
  ASSUME BackfillInv, B!CloseLedger
  PROVE  BackfillInv'
<1> USE DEF BackfillInv
<1>1. /\ bHead \in Nat /\ bHead' = bHead + 1 /\ bHead' \in 1 .. MaxHead
      /\ UNCHANGED <<bRows, bUndecoded, bRecorded, bStep, bCursor, bStarting, bJob, bCrashes>>
  BY BackfillAssumption DEF B!CloseLedger, BackfillTypes
<1>2. \A r : B!Valid(r) => B!Valid(r)'
  BY <1>1 DEF B!Valid, B!ValidRange
<1>3. FetchesAreOnTheirWay'
  BY <1>1, <1>2 DEF FetchesAreOnTheirWay, B!Within, B!RangeOf
<1>4. BackfillTypes' /\ GuardInv' /\ B!DoneBackfillIsComplete'
  BY <1>1, CompleteStays DEF BackfillTypes, GuardInv
<1>5. QED
  BY <1>3, <1>4

\* Every step of the backfills keeps BackfillInv.
LEMMA BackfillStep == BackfillInv /\ [B!Next]_bVars => BackfillInv'
<1> SUFFICES ASSUME BackfillInv, [B!Next]_bVars PROVE BackfillInv'
  OBVIOUS
<1>1. CASE UNCHANGED bVars
  <2>1. BackfillTypes' /\ GuardInv'
    BY <1>1 DEF bVars, BackfillInv, BackfillTypes, GuardInv
  <2>2. FetchesAreOnTheirWay'
    BY <1>1, OthersOnTheirWay DEF bVars
  <2>3. B!DoneBackfillIsComplete'
    BY <1>1, CompleteStays DEF bVars, BackfillInv
  <2>4. QED
    BY <2>1, <2>2, <2>3 DEF BackfillInv
<1>2. CASE B!Next
  BY <1>2, PostKeeps, ValidateKeeps, BeginFetchKeeps, FetchPageKeeps, FetchFailsKeeps, CrashKeeps,
     CloseLedgerKeeps DEF B!Next, B!Call
<1>3. QED
  BY <1>1, <1>2

\* BackfillInv holds when nothing has been asked for.
LEMMA BackfillInit == Init => BackfillInv
<1> SUFFICES ASSUME B!Init PROVE BackfillInv
  BY DEF Init
<1>1. /\ bStep = B!AtBoot({}) /\ bCursor = [c \in B!Calls |-> 0] /\ bHead = 1 /\ bRows = {} /\ bUndecoded = {}
      /\ bRecorded = {} /\ bStarting = FALSE /\ bJob = [id |-> "configured", status |-> "idle"] /\ bCrashes = 0
      /\ "configured" \in B!Calls
  BY DEF B!Init, B!NoJob, B!Boot, B!Calls
<1>2. \A c \in B!Calls : bStep[c] \in {"idle", "begun"} /\ (c # "configured" => bStep[c] = "idle")
  BY <1>1 DEF B!AtBoot, B!Boot
<1>3. BackfillTypes
  <2>1. bStep \in [B!Calls -> B!Steps]
    BY <1>1 DEF B!AtBoot, B!Steps
  <2>2. bCursor \in [B!Calls -> 0 .. Len(OnChain)]
    BY <1>1, BackfillAssumption
  <2>3. QED
    <3>1. bJob \in [id : B!Calls, status : {"idle", "running", "done", "failed"}]
      BY <1>1
    <3>2. bHead \in 1 .. MaxHead /\ bCrashes \in 0 .. MaxCrashes
      BY <1>1, BackfillAssumption
    <3>3. bRows \cup bUndecoded \subseteq DOMAIN OnChain /\ bRecorded \subseteq {Configured} /\ bStarting \in BOOLEAN
      BY <1>1
    <3>4. QED
      BY <2>1, <2>2, <3>1, <3>2, <3>3 DEF BackfillTypes
<1>4. FetchesAreOnTheirWay
  BY <1>1, <1>2 DEF FetchesAreOnTheirWay
<1>5. GuardInv
  <2>1. \A c \in DOMAIN Posts : bStep[c] = "idle"
    BY <1>2, BackfillAssumption DEF B!Calls
  <2>2. QED
    BY <1>1, <1>2, <2>1 DEF GuardInv, Busy
<1>6. B!DoneBackfillIsComplete
  BY <1>1 DEF B!DoneBackfillIsComplete
<1>7. QED
  BY <1>3, <1>4, <1>5, <1>6 DEF BackfillInv

\* BackfillInv is an invariant.
LEMMA BackfillHolds == Spec => []BackfillInv
<1>1. BackfillInv /\ [Next]_vars => BackfillInv'
  BY BackfillStep, BSteps
<1>2. QED
  BY <1>1, BackfillInit, PTL DEF Spec

\* A backfill recorded or reported as done has its events, whatever failed or
\* crashed beside it, and the guard is held exactly while one runs (poller.ts,
\* routes/admin.ts).
THEOREM BackfillsExact == Spec => []BackfillsAreExact
<1>1. BackfillInv => B!GuardHasItsBackfill
  <2> SUFFICES ASSUME BackfillInv PROVE B!GuardHasItsBackfill
    OBVIOUS
  <2> DEFINE busy == {c \in DOMAIN Posts : bStep[c] \in {"validating", "begun", "paging"}}
  <2>1. \A c, d \in busy : c = d
    BY DEF BackfillInv, GuardInv, Busy
  <2>2. B!Cardinality(busy) <= 1
    <3> HIDE DEF busy
    <3>1. busy = {} \/ \E c : busy = {c}
      BY <2>1
    <3>2. Cardinality(busy) \in {0, 1}
      <4>1. CASE busy = {}
        BY <4>1, FS_EmptySet
      <4>2. ASSUME NEW c, busy = {c} PROVE Cardinality(busy) = 1
        BY <4>2, FS_Singleton, Zenon
      <4>3. QED
        BY <3>1, <4>1, <4>2
    <3>3. B!Cardinality(busy) = Cardinality(busy)
      BY Zenon DEF Cardinality, B!Cardinality
    <3>4. QED
      BY <3>2, <3>3
  <2>3. bStarting <=> \E c \in DOMAIN Posts : bStep[c] = "validating"
    BY DEF BackfillInv, GuardInv
  <2>4. bJob.status = "running" <=> bJob.id \in B!Fetching
    BY DEF BackfillInv, GuardInv, B!Fetching
  <2>5. QED
    BY <2>2, <2>3, <2>4 DEF B!GuardHasItsBackfill
<1>2. QED
  BY <1>1, BackfillHolds, PTL DEF BackfillsAreExact, BackfillInv

(***************************************************************************)
(* EventQueue: the rows that are queued or in somebody's hands have keys   *)
(* of their own, so that giving a key back never frees another row's.      *)
(***************************************************************************)
QueueTypes ==
  /\ qStage \in [Submitters -> Q!Stages]
  /\ qHand \in [Submitters -> DOMAIN KeyOf \cup {"none"}]
  /\ \A s \in Submitters : qHand[s] # "none" => qStage[s] \in {"locking", "persisting"}
  /\ \A s \in Submitters : qStage[s] \in {"locking", "persisting"} => qHand[s] # "none"
  /\ qPending \in Seq(DOMAIN KeyOf) /\ Len(qPending) <= MaxQueueSize
  /\ qTold \in [Submitters -> [queued : Nat, inserted : Nat, duplicates : Nat]]
  /\ qRefusals \in 0 .. MaxRefusals

KeysAreDistinct ==
  /\ \A i, j \in DOMAIN qPending : KeyOf[qPending[i]] = KeyOf[qPending[j]] => i = j
  /\ \A s, t \in Submitters :
       qHand[s] # "none" /\ qHand[t] # "none" /\ KeyOf[qHand[s]] = KeyOf[qHand[t]] => s = t
  /\ \A s \in Submitters, i \in DOMAIN qPending :
       qHand[s] # "none" => KeyOf[qPending[i]] # KeyOf[qHand[s]]

\* NoKeyIsStuck, member by member.
KeysAreHeld ==
  \A key : key \in qPendingKeys <=>
    \/ \E i \in DOMAIN qPending : KeyOf[qPending[i]] = key
    \/ \E s \in Submitters : qHand[s] # "none" /\ KeyOf[qHand[s]] = key

QueueInv == QueueTypes /\ KeysAreDistinct /\ KeysAreHeld

\* What enqueue adds: rows of fresh keys that are distinct, within the limit.
LEMMA AcceptedFacts ==
  ASSUME QueueInv, NEW s \in Submitters, NEW order \in Q!Listings(Q!Accepted(s)),
         NEW added, added = [n \in DOMAIN order |-> Batch[s][order[n]]]
  PROVE  /\ added \in Seq(DOMAIN KeyOf) /\ Len(added) = Cardinality(Q!Accepted(s))
         /\ Cardinality(Q!Accepted(s)) \in Nat /\ Cardinality(Q!Duplicates(s)) \in Nat
         /\ Len(qPending) + Len(added) <= MaxQueueSize
         /\ \A n \in DOMAIN added : KeyOf[added[n]] \notin qPendingKeys
         /\ \A n, m \in DOMAIN added : KeyOf[added[n]] = KeyOf[added[m]] => n = m
         /\ \A key : key \in {KeyOf[Batch[s][i]] : i \in Q!Accepted(s)} <=>
              \E n \in DOMAIN added : KeyOf[added[n]] = key
<1> DEFINE last  == Len(Batch[s])
           fresh == Q!Fresh(s)
           room  == MaxQueueSize - Len(qPending)
           acc   == Q!Accepted(s)
<1>1. /\ last \in Nat /\ DOMAIN Batch[s] = 1 .. last
      /\ \A i \in DOMAIN Batch[s] : Batch[s][i] \in DOMAIN KeyOf
      /\ Len(qPending) \in Nat /\ room \in Nat
  <2>1. Batch[s] \in Seq(DOMAIN KeyOf)
    BY QueueAssumption
  <2>2. qPending \in Seq(DOMAIN KeyOf) /\ Len(qPending) <= MaxQueueSize
    BY DEF QueueInv, QueueTypes
  <2>3. Len(qPending) \in Nat
    BY <2>2
  <2>4. room \in Nat
    BY <2>2, <2>3, QueueAssumption
  <2>5. QED
    BY <2>1, <2>3, <2>4
<1>2. fresh \subseteq DOMAIN Batch[s] /\ acc = FirstN(fresh, room)
  BY DEF Q!Fresh, Q!Accepted, Q!FirstN, FirstN, Q!Cardinality, Cardinality
<1>3. fresh \in SUBSET (0 .. last)
  BY <1>1, <1>2
<1> HIDE DEF fresh, room, last, acc
<1>4. acc \subseteq fresh /\ Cardinality(acc) <= room
  BY <1>1, <1>2, <1>3, FirstNFacts, FirstNSize
<1>5. acc \subseteq Nat /\ IsFiniteSet(acc)
  <2>1. IsFiniteSet(0 .. last) /\ acc \in SUBSET (0 .. last)
    BY <1>1, <1>3, <1>4, FS_Interval
  <2>2. acc \subseteq Nat
    BY <1>1, <2>1
  <2>3. QED
    BY <2>1, <2>2, FS_Subset
<1>6. order \in Listings(acc)
  BY DEF acc, Q!Listings, Listings, Q!Cardinality, Cardinality
<1>7. /\ Cardinality(acc) \in Nat /\ order \in [1 .. Cardinality(acc) -> acc]
      /\ \A a, b \in 1 .. Cardinality(acc) : order[a] = order[b] => a = b
      /\ \A x \in acc : \E a \in 1 .. Cardinality(acc) : order[a] = x
  BY <1>5, <1>6, ListingFacts
<1> DEFINE k == Cardinality(acc)
<1>8. DOMAIN order = 1 .. k /\ \A n \in 1 .. k : order[n] \in acc /\ order[n] \in DOMAIN Batch[s]
  BY <1>2, <1>4, <1>7
<1>9. added \in [1 .. k -> DOMAIN KeyOf] /\ DOMAIN added = 1 .. k /\ \A n \in 1 .. k : added[n] = Batch[s][order[n]]
  BY <1>1, <1>8
<1>10. added \in Seq(DOMAIN KeyOf) /\ Len(added) = k
  BY <1>7, <1>9
<1>11. \A i \in acc : /\ KeyOf[Batch[s][i]] \notin qPendingKeys
                      /\ \A j \in acc : KeyOf[Batch[s][i]] = KeyOf[Batch[s][j]] => i = j
  <2> SUFFICES ASSUME NEW i \in acc
               PROVE  /\ KeyOf[Batch[s][i]] \notin qPendingKeys
                      /\ \A j \in acc : KeyOf[Batch[s][i]] = KeyOf[Batch[s][j]] => i = j
    OBVIOUS
  <2>1. \A j \in acc : /\ KeyOf[Batch[s][j]] \notin qPendingKeys
                       /\ \A l \in 1 .. j - 1 : KeyOf[Batch[s][l]] # KeyOf[Batch[s][j]]
    BY <1>4 DEF fresh, Q!Fresh
  <2>2. \A j \in acc : j \in Nat /\ j >= 1
    BY <1>1, <1>2, <1>4
  <2>3. \A j \in acc : i \in 1 .. j - 1 \/ j \in 1 .. i - 1 \/ i = j
    BY <2>2
  <2>4. QED
    BY <2>1, <2>3
<1>12. Cardinality(Q!Duplicates(s)) \in Nat
  <2>1. Q!Duplicates(s) \in SUBSET (1 .. last)
    BY <1>1 DEF Q!Duplicates
  <2>2. IsFiniteSet(1 .. last)
    BY <1>1, FS_Interval
  <2>3. QED
    BY <2>1, <2>2, FS_Subset, FS_CardinalityType
<1>13. Len(qPending) + Len(added) <= MaxQueueSize
  <2>1. k <= MaxQueueSize - Len(qPending)
    BY <1>4 DEF room
  <2> HIDE DEF k
  <2>2. k \in Nat
    BY <1>7 DEF k
  <2>3. QED
    BY <1>1, <1>10, <2>1, <2>2, QueueAssumption
<1>14. \A n \in DOMAIN added : KeyOf[added[n]] \notin qPendingKeys
  BY <1>8, <1>9, <1>11
<1>15. \A n, m \in DOMAIN added : KeyOf[added[n]] = KeyOf[added[m]] => n = m
  BY <1>7, <1>8, <1>9, <1>11
<1>16. \A key : key \in {KeyOf[Batch[s][i]] : i \in acc} <=> \E n \in DOMAIN added : KeyOf[added[n]] = key
  <2>1. ASSUME NEW i \in acc PROVE \E n \in DOMAIN added : KeyOf[added[n]] = KeyOf[Batch[s][i]]
    BY <1>7, <1>9
  <2>2. ASSUME NEW n \in DOMAIN added PROVE \E i \in acc : KeyOf[added[n]] = KeyOf[Batch[s][i]]
    BY <1>8, <1>9
  <2>3. QED
    BY <2>1, <2>2
<1>17. QED
  BY <1>7, <1>10, <1>12, <1>13, <1>14, <1>15, <1>16 DEF acc

\* A batch is queued behind what is there.
LEMMA EnqueueKeeps ==
  ASSUME QueueInv, NEW s \in Submitters, Q!Enqueue(s)
  PROVE  QueueInv'
<1> USE DEF QueueInv
<1>0. PICK order \in Q!Listings(Q!Accepted(s)) :
        qPending' = qPending \o [n \in DOMAIN order |-> Batch[s][order[n]]]
  BY DEF Q!Enqueue
<1> DEFINE added == [n \in DOMAIN order |-> Batch[s][order[n]]]
           news  == {KeyOf[Batch[s][i]] : i \in Q!Accepted(s)}
<1>1. /\ added \in Seq(DOMAIN KeyOf) /\ Len(added) = Cardinality(Q!Accepted(s))
      /\ Cardinality(Q!Accepted(s)) \in Nat /\ Cardinality(Q!Duplicates(s)) \in Nat
      /\ Len(qPending) + Len(added) <= MaxQueueSize
      /\ \A n \in DOMAIN added : KeyOf[added[n]] \notin qPendingKeys
      /\ \A n, m \in DOMAIN added : KeyOf[added[n]] = KeyOf[added[m]] => n = m
      /\ \A key : key \in news <=> \E n \in DOMAIN added : KeyOf[added[n]] = key
  BY <1>0, AcceptedFacts
<1>2. /\ qPending' = qPending \o added /\ qPendingKeys' = qPendingKeys \cup news
      /\ qStage[s] = "idle" /\ UNCHANGED <<qHand, qPersistedKeys, qRows, qRefusals>>
      /\ qStage' = [qStage EXCEPT ![s] = IF Q!Overflows(s) THEN "overflow" ELSE "flushing"]
      /\ qTold' = [qTold EXCEPT ![s].queued = Q!Cardinality(Q!Accepted(s)),
                                ![s].duplicates = Q!Cardinality(Q!Duplicates(s))]
  BY <1>0 DEF Q!Enqueue
<1>3. /\ Q!Cardinality(Q!Accepted(s)) = Cardinality(Q!Accepted(s))
      /\ Q!Cardinality(Q!Duplicates(s)) = Cardinality(Q!Duplicates(s))
  BY Zenon DEF Cardinality, Q!Cardinality
<1> HIDE DEF added, news
<1>4. /\ qPending \in Seq(DOMAIN KeyOf) /\ Len(qPending) \in Nat /\ Len(added) \in Nat
      /\ DOMAIN qPending = 1 .. Len(qPending) /\ DOMAIN added = 1 .. Len(added)
  BY <1>1 DEF QueueTypes
<1>5. /\ qPending' \in Seq(DOMAIN KeyOf) /\ Len(qPending') = Len(qPending) + Len(added)
      /\ DOMAIN qPending' = 1 .. Len(qPending) + Len(added)
      /\ \A i \in 1 .. Len(qPending) : qPending'[i] = qPending[i]
      /\ \A i \in DOMAIN qPending' : i > Len(qPending) => qPending'[i] = added[i - Len(qPending)]
  <2>0. qPending' = qPending \o added /\ qPending \in Seq(DOMAIN KeyOf) /\ added \in Seq(DOMAIN KeyOf)
    BY <1>1, <1>2, <1>4
  <2>1. qPending' \in Seq(DOMAIN KeyOf)
    BY <2>0
  <2>2. Len(qPending') = Len(qPending) + Len(added)
    BY <2>0
  <2>3. DOMAIN qPending' = 1 .. Len(qPending) + Len(added)
    BY <2>1, <2>2
  <2>4. ASSUME NEW i \in 1 .. Len(qPending) PROVE qPending'[i] = qPending[i]
    BY <1>1, <1>2, <1>4
  <2>5. ASSUME NEW i \in DOMAIN qPending', i > Len(qPending) PROVE qPending'[i] = added[i - Len(qPending)]
    <3>1. i \in Nat /\ i <= Len(qPending) + Len(added)
      BY <1>4, <2>3
    <3>2. QED
      BY <1>1, <1>2, <1>4, <2>5, <3>1
  <2>6. QED
    BY <2>1, <2>2, <2>3, <2>4, <2>5
<1>6. QueueTypes'
  <2>1. qStage' \in [Submitters -> Q!Stages] /\ qStage'[s] \in {"overflow", "flushing"}
        /\ \A t \in Submitters : t # s => qStage'[t] = qStage[t]
    BY <1>2 DEF QueueTypes, Q!Stages
  <2>2. qHand[s] = "none"
    BY <1>2 DEF QueueTypes
  <2>3. qTold' \in [Submitters -> [queued : Nat, inserted : Nat, duplicates : Nat]]
    <3> DEFINE a == Cardinality(Q!Accepted(s))
               d == Cardinality(Q!Duplicates(s))
    <3>1. a \in Nat /\ d \in Nat /\ qTold' = [qTold EXCEPT ![s].queued = a, ![s].duplicates = d]
      BY <1>1, <1>2, <1>3
    <3>2. qTold \in [Submitters -> [queued : Nat, inserted : Nat, duplicates : Nat]]
      BY DEF QueueTypes
    <3> HIDE DEF a, d
    <3>3. QED
      BY <3>1, <3>2
  <2>4. Len(qPending') <= MaxQueueSize
    BY <1>1, <1>5
  <2>5. \A t \in Submitters : qHand'[t] # "none" => qStage'[t] \in {"locking", "persisting"}
    BY <1>2, <2>1, <2>2 DEF QueueTypes
  <2>6. \A t \in Submitters : qStage'[t] \in {"locking", "persisting"} => qHand'[t] # "none"
    BY <1>2, <2>1 DEF QueueTypes
  <2>7. QED
    BY <1>2, <1>5, <2>1, <2>3, <2>4, <2>5, <2>6 DEF QueueTypes
<1>7. \A i \in DOMAIN qPending' :
        \/ i \in DOMAIN qPending /\ qPending'[i] = qPending[i]
        \/ /\ i \notin DOMAIN qPending /\ i - Len(qPending) \in DOMAIN added
           /\ qPending'[i] = added[i - Len(qPending)]
  BY <1>4, <1>5
<1>8. \A i \in DOMAIN qPending : KeyOf[qPending[i]] \in qPendingKeys
  BY DEF KeysAreHeld
<1>9. KeysAreDistinct'
  <2>1. \A i, j \in DOMAIN qPending' : KeyOf[qPending'[i]] = KeyOf[qPending'[j]] => i = j
    <3> SUFFICES ASSUME NEW i \in DOMAIN qPending', NEW j \in DOMAIN qPending',
                        KeyOf[qPending'[i]] = KeyOf[qPending'[j]]
                 PROVE  i = j
      OBVIOUS
    <3>1. CASE i \in DOMAIN qPending /\ j \in DOMAIN qPending
      BY <1>7, <3>1 DEF KeysAreDistinct
    <3>2. CASE i \notin DOMAIN qPending /\ j \notin DOMAIN qPending
      <4>1. i - Len(qPending) = j - Len(qPending)
        BY <1>1, <1>7, <3>2
      <4>2. QED
        BY <1>4, <1>5, <4>1
    <3>3. CASE i \in DOMAIN qPending /\ j \notin DOMAIN qPending
      BY <1>1, <1>7, <1>8, <3>3
    <3>4. CASE i \notin DOMAIN qPending /\ j \in DOMAIN qPending
      BY <1>1, <1>7, <1>8, <3>4
    <3>5. QED
      BY <3>1, <3>2, <3>3, <3>4
  <2>2. \A t, u \in Submitters :
          qHand'[t] # "none" /\ qHand'[u] # "none" /\ KeyOf[qHand'[t]] = KeyOf[qHand'[u]] => t = u
    BY <1>2 DEF KeysAreDistinct
  <2>3. \A t \in Submitters, i \in DOMAIN qPending' :
          qHand'[t] # "none" => KeyOf[qPending'[i]] # KeyOf[qHand'[t]]
    <3> SUFFICES ASSUME NEW t \in Submitters, NEW i \in DOMAIN qPending', qHand[t] # "none"
                 PROVE  KeyOf[qPending'[i]] # KeyOf[qHand[t]]
      BY <1>2
    <3>1. KeyOf[qHand[t]] \in qPendingKeys
      BY DEF KeysAreHeld
    <3>2. QED
      BY <1>1, <1>7, <3>1 DEF KeysAreDistinct
  <2>4. QED
    BY <2>1, <2>2, <2>3 DEF KeysAreDistinct
<1>10. KeysAreHeld'
  <2>1. ASSUME NEW key PROVE (\E i \in DOMAIN qPending' : KeyOf[qPending'[i]] = key)
                               <=> (\E i \in DOMAIN qPending : KeyOf[qPending[i]] = key) \/ key \in news
    <3>1. ASSUME NEW i \in DOMAIN qPending, KeyOf[qPending[i]] = key
          PROVE  \E l \in DOMAIN qPending' : KeyOf[qPending'[l]] = key
      <4>1. i \in DOMAIN qPending' /\ qPending'[i] = qPending[i]
        BY <1>4, <1>5
      <4>2. QED
        BY <3>1, <4>1
    <3>2. ASSUME NEW n \in DOMAIN added, KeyOf[added[n]] = key
          PROVE  \E l \in DOMAIN qPending' : KeyOf[qPending'[l]] = key
      <4>1. /\ Len(qPending) + n \in DOMAIN qPending' /\ Len(qPending) + n > Len(qPending)
            /\ (Len(qPending) + n) - Len(qPending) = n
        BY <1>4, <1>5
      <4>2. qPending'[Len(qPending) + n] = added[n]
        BY <1>5, <4>1
      <4>3. QED
        BY <3>2, <4>1, <4>2
    <3>3. QED
      BY <1>1, <1>7, <3>1, <3>2
  <2>2. QED
    BY <1>2, <2>1 DEF KeysAreHeld
<1>11. QED
  BY <1>6, <1>9, <1>10

\* The first row goes from the queue into the hands of s, with its key.
LEMMA TakeKeeps ==
  ASSUME QueueInv, NEW s \in Submitters, Q!Take(s)
  PROVE  QueueInv'
<1> USE DEF QueueInv
<1>0. /\ qStage[s] = "flushing" /\ qHand[s] = "none"
      /\ qPending \in Seq(DOMAIN KeyOf)
      /\ UNCHANGED <<qPendingKeys, qPersistedKeys, qRows, qTold, qRefusals>>
  BY DEF Q!Take, QueueTypes
<1>1. CASE qPending = <<>>
  <2>1. qStage' = [qStage EXCEPT ![s] = "done"] /\ UNCHANGED <<qHand, qPending>>
    BY <1>1 DEF Q!Take
  <2>2. QueueTypes'
    BY <1>0, <2>1 DEF QueueTypes, Q!Stages
  <2>3. KeysAreDistinct' /\ KeysAreHeld'
    BY <1>0, <2>1 DEF KeysAreDistinct, KeysAreHeld
  <2>4. QED
    BY <2>2, <2>3
<1>2. CASE qPending # <<>>
  <2>1. /\ qStage' = [qStage EXCEPT ![s] = "locking"]
        /\ qHand' = [qHand EXCEPT ![s] = qPending[1]]
        /\ qPending' = Tail(qPending)
    BY <1>0, <1>2 DEF Q!Take
  <2>2. /\ Len(qPending) \in Nat /\ Len(qPending) >= 1 /\ DOMAIN qPending = 1 .. Len(qPending)
        /\ qPending' \in Seq(DOMAIN KeyOf) /\ Len(qPending') = Len(qPending) - 1
        /\ DOMAIN qPending' = 1 .. Len(qPending) - 1
        /\ \A i \in DOMAIN qPending' : qPending'[i] = qPending[i + 1]
    BY <1>0, <1>2, <2>1
  <2>3. /\ qPending[1] \in DOMAIN KeyOf /\ qPending[1] # "none" /\ 1 \in DOMAIN qPending
        /\ \A i \in DOMAIN qPending' : i + 1 \in DOMAIN qPending /\ i + 1 # 1
        /\ \A i \in DOMAIN qPending : i = 1 \/ (i - 1 \in DOMAIN qPending' /\ (i - 1) + 1 = i)
    BY <1>0, <2>2, QueueAssumption
  <2>4. \A t \in Submitters : qHand'[t] = IF t = s THEN qPending[1] ELSE qHand[t]
    BY <2>1 DEF QueueTypes
  <2>5. QueueTypes'
    <3>1. qStage' \in [Submitters -> Q!Stages] /\ qHand' \in [Submitters -> DOMAIN KeyOf \cup {"none"}]
      BY <2>1, <2>3 DEF QueueTypes, Q!Stages
    <3>2. Len(qPending') <= MaxQueueSize
      BY <2>2, QueueAssumption DEF QueueTypes
    <3>3. \A t \in Submitters : qHand'[t] # "none" => qStage'[t] \in {"locking", "persisting"}
      BY <2>1, <2>4 DEF QueueTypes
    <3>4. \A t \in Submitters : qStage'[t] \in {"locking", "persisting"} => qHand'[t] # "none"
      BY <2>1, <2>3, <2>4 DEF QueueTypes
    <3>5. QED
      BY <1>0, <2>2, <3>1, <3>2, <3>3, <3>4 DEF QueueTypes
  <2>6. KeysAreDistinct'
    <3>1. \A i, j \in DOMAIN qPending' : KeyOf[qPending'[i]] = KeyOf[qPending'[j]] => i = j
      <4> SUFFICES ASSUME NEW i \in DOMAIN qPending', NEW j \in DOMAIN qPending',
                          KeyOf[qPending'[i]] = KeyOf[qPending'[j]]
                   PROVE  i = j
        OBVIOUS
      <4>1. i + 1 = j + 1
        BY <2>2, <2>3 DEF KeysAreDistinct
      <4>2. QED
        BY <2>2, <4>1
    <3>2. \A t, u \in Submitters :
            qHand'[t] # "none" /\ qHand'[u] # "none" /\ KeyOf[qHand'[t]] = KeyOf[qHand'[u]] => t = u
      BY <2>3, <2>4 DEF KeysAreDistinct
    <3>3. \A t \in Submitters, i \in DOMAIN qPending' :
            qHand'[t] # "none" => KeyOf[qPending'[i]] # KeyOf[qHand'[t]]
      BY <2>2, <2>3, <2>4 DEF KeysAreDistinct
    <3>4. QED
      BY <3>1, <3>2, <3>3 DEF KeysAreDistinct
  <2>7. KeysAreHeld'
    <3> SUFFICES ASSUME NEW key
                 PROVE  key \in qPendingKeys' <=>
                          \/ \E i \in DOMAIN qPending' : KeyOf[qPending'[i]] = key
                          \/ \E t \in Submitters : qHand'[t] # "none" /\ KeyOf[qHand'[t]] = key
      BY DEF KeysAreHeld
    <3>1. (\E i \in DOMAIN qPending : KeyOf[qPending[i]] = key)
            <=> (\E i \in DOMAIN qPending' : KeyOf[qPending'[i]] = key) \/ KeyOf[qPending[1]] = key
      <4>1. ASSUME NEW i \in DOMAIN qPending, KeyOf[qPending[i]] = key, KeyOf[qPending[1]] # key
            PROVE  \E j \in DOMAIN qPending' : KeyOf[qPending'[j]] = key
        <5>1. i - 1 \in DOMAIN qPending' /\ qPending'[i - 1] = qPending[(i - 1) + 1] /\ (i - 1) + 1 = i
          BY <2>2, <2>3, <4>1
        <5>2. QED
          BY <4>1, <5>1
      <4>2. ASSUME NEW j \in DOMAIN qPending', KeyOf[qPending'[j]] = key
            PROVE  \E i \in DOMAIN qPending : KeyOf[qPending[i]] = key
        BY <2>2, <2>3, <4>2
      <4>3. QED
        BY <2>3, <4>1, <4>2
    <3>2. (\E t \in Submitters : qHand'[t] # "none" /\ KeyOf[qHand'[t]] = key)
            <=> (\E t \in Submitters : qHand[t] # "none" /\ KeyOf[qHand[t]] = key) \/ KeyOf[qPending[1]] = key
      BY <1>0, <2>3, <2>4
    <3>3. QED
      BY <1>0, <3>1, <3>2 DEF KeysAreHeld
  <2>8. QED
    BY <2>5, <2>6, <2>7
<1>3. QED
  BY <1>1, <1>2

\* A row leaves somebody's hands: its key is given back, and nobody else's.
LEMMA ReleaseKeeps ==
  ASSUME QueueInv, NEW s \in Submitters, qHand[s] # "none",
         NEW next \in {"flushing", "failed"}, Q!Release(s, next), UNCHANGED qPending,
         qTold' \in [Submitters -> [queued : Nat, inserted : Nat, duplicates : Nat]],
         qRefusals' \in 0 .. MaxRefusals
  PROVE  QueueInv'
<1> USE DEF QueueInv
<1>1. /\ qPendingKeys' = qPendingKeys \ {KeyOf[qHand[s]]} /\ qPending' = qPending
      /\ qHand' = [qHand EXCEPT ![s] = "none"] /\ qStage' = [qStage EXCEPT ![s] = next]
  BY DEF Q!Release, Q!NoEvent
<1>2. QueueTypes'
  BY <1>1 DEF QueueTypes, Q!Stages
<1>3. \A t \in Submitters : qHand'[t] = IF t = s THEN "none" ELSE qHand[t]
  BY <1>1 DEF QueueTypes
<1>4. KeysAreDistinct'
  BY <1>1, <1>3 DEF KeysAreDistinct
<1>5. KeysAreHeld'
  <2> SUFFICES ASSUME NEW key
               PROVE  key \in qPendingKeys' <=>
                        \/ \E i \in DOMAIN qPending' : KeyOf[qPending'[i]] = key
                        \/ \E t \in Submitters : qHand'[t] # "none" /\ KeyOf[qHand'[t]] = key
    BY DEF KeysAreHeld
  <2>1. CASE key = KeyOf[qHand[s]]
    BY <1>1, <1>3, <2>1 DEF KeysAreDistinct
  <2>2. CASE key # KeyOf[qHand[s]]
    BY <1>1, <1>3, <2>2 DEF KeysAreHeld
  <2>3. QED
    BY <2>1, <2>2
<1>6. QED
  BY <1>2, <1>4, <1>5

\* Writing the queue, or failing to, keeps QueueInv (RpcEventQueue).
LEMMA PersistKeeps ==
  ASSUME QueueInv, NEW s \in Submitters, Q!Lock(s) \/ Q!Persist(s) \/ Q!PersistFails(s)
  PROVE  QueueInv'
<1> USE DEF QueueInv
<1>0. /\ qHand[s] # "none" /\ qRefusals \in 0 .. MaxRefusals
      /\ qTold \in [Submitters -> [queued : Nat, inserted : Nat, duplicates : Nat]]
  BY DEF Q!Lock, Q!Persist, Q!PersistFails, QueueTypes
<1>1. /\ [qTold EXCEPT ![s].duplicates = @ + 1] \in [Submitters -> [queued : Nat, inserted : Nat, duplicates : Nat]]
      /\ [qTold EXCEPT ![s].inserted = @ + 1] \in [Submitters -> [queued : Nat, inserted : Nat, duplicates : Nat]]
  BY <1>0
<1>2. CASE Q!Persist(s)
  BY <1>0, <1>1, <1>2, ReleaseKeeps DEF Q!Persist
<1>3. CASE Q!PersistFails(s)
  <2>1. qRefusals' \in 0 .. MaxRefusals
    BY <1>0, <1>3, QueueAssumption DEF Q!PersistFails
  <2>2. QED
    BY <1>0, <1>3, <2>1, ReleaseKeeps DEF Q!PersistFails, Q!ReleaseFailed
<1>4. CASE Q!Lock(s)
  <2>1. CASE KeyOf[qHand[s]] \in qPersistedKeys
    BY <1>0, <1>1, <1>4, <2>1, ReleaseKeeps DEF Q!Lock
  <2>2. CASE KeyOf[qHand[s]] \notin qPersistedKeys
    <3>1. /\ qStage' = [qStage EXCEPT ![s] = "persisting"]
          /\ UNCHANGED <<qPendingKeys, qHand, qTold, qPending, qRefusals>>
      BY <1>4, <2>2 DEF Q!Lock
    <3>2. QueueTypes'
      BY <1>0, <3>1 DEF QueueTypes, Q!Stages
    <3>3. KeysAreDistinct' /\ KeysAreHeld'
      BY <3>1 DEF KeysAreDistinct, KeysAreHeld
    <3>4. QED
      BY <3>2, <3>3
  <2>3. QED
    BY <2>1, <2>2
<1>5. QED
  BY <1>2, <1>3, <1>4

\* QueueInv is an invariant.
LEMMA QueueHolds == Spec => []QueueInv
<1>1. Init => QueueInv
  <2> SUFFICES ASSUME Q!Init PROVE QueueInv
    BY DEF Init
  <2>1. QueueTypes
    BY QueueAssumption DEF Q!Init, Q!NoEvent, Q!Stages, QueueTypes
  <2>2. KeysAreDistinct /\ KeysAreHeld
    BY DEF Q!Init, Q!NoEvent, KeysAreDistinct, KeysAreHeld
  <2>3. QED
    BY <2>1, <2>2 DEF QueueInv
<1>2. QueueInv /\ [Q!Next]_qVars => QueueInv'
  <2>1. ASSUME QueueInv, UNCHANGED qVars PROVE QueueInv'
    BY <2>1 DEF qVars, QueueInv, QueueTypes, KeysAreDistinct, KeysAreHeld
  <2>2. QED
    BY <2>1, EnqueueKeeps, TakeKeeps, PersistKeeps DEF Q!Next, Q!Step
<1>3. QueueInv /\ [Next]_vars => QueueInv'
  BY <1>2, QSteps
<1>4. QED
  BY <1>1, <1>3, PTL DEF Spec

\* A key is refused as pending only while a row of it is queued or in somebody's
\* hands, whatever overflows or fails in between (RpcEventQueue).
THEOREM NoKeyStaysBehind == Spec => []NoKeyIsStuck
<1>1. QueueInv => Q!NoKeyIsStuck
  <2> SUFFICES ASSUME QueueInv PROVE Q!NoKeyIsStuck
    OBVIOUS
  <2>1. \A key : key \in {KeyOf[e] : e \in Q!ToSet(qPending)} <=> \E i \in DOMAIN qPending : KeyOf[qPending[i]] = key
    BY DEF Q!ToSet
  <2>2. \A key : key \in {KeyOf[qHand[s]] : s \in Q!Holding} <=>
                   \E s \in Submitters : qHand[s] # "none" /\ KeyOf[qHand[s]] = key
    BY DEF Q!Holding, Q!NoEvent
  <2>3. QED
    BY <2>1, <2>2 DEF QueueInv, KeysAreHeld, Q!NoKeyIsStuck
<1>2. QED
  BY <1>1, QueueHolds, PTL DEF NoKeyIsStuck

(***************************************************************************)
(* EventStore: a page depends on the rows of the jobs its wallet takes     *)
(* part in and on the roles it has in them, and on nothing else.           *)
(***************************************************************************)
StoreRow == [event : Events, key : {<<>>} \cup {S!EventDedupeId(e) : e \in Events}]

StoreInv ==
  /\ sRows \in Seq(StoreRow) /\ Len(sRows) <= MaxRows
  /\ sPages = [w \in Wallets |-> sPages[w]]
  /\ sExcused \subseteq Wallets /\ sPointer \in 0 .. MaxLedger
  /\ \A s \in sSyncRanges : s.start <= s.end
  /\ S!PageIsCurrent

\* The page of a wallet stays what it was when neither its roles nor the rows of
\* its jobs change.
LEMMA SamePage ==
  ASSUME NEW w, NEW rs, NEW ts, NEW parts, NEW more,
         \A p : (p \in more /\ p[2] = w) <=> (p \in parts /\ p[2] = w),
         \A j \in S!JobsOf(w, parts) :
           /\ S!RowsOf(ts, j) = S!RowsOf(rs, j)
           /\ \A i \in S!RowsOf(rs, j) : ts[i] = rs[i]
  PROVE  S!JobsByWallet(w, ts, more) = S!JobsByWallet(w, rs, parts)
<1>1. S!JobsOf(w, more) = S!JobsOf(w, parts)
  BY DEF S!JobsOf
<1>2. ASSUME NEW j \in S!JobsOf(w, parts)
      PROVE  S!Latest(ts, j) = S!Latest(rs, j) /\ S!First(ts, j) = S!First(rs, j)
  <2> DEFINE mine    == S!RowsOf(rs, j)
             lasts   == {l \in mine : \A k \in mine \ {l} : S!Later(rs, l, k)}
             firsts  == {l \in mine : \A k \in mine \ {l} : S!Later(rs, k, l)}
             lasts2  == {l \in mine : \A k \in mine \ {l} : S!Later(ts, l, k)}
             firsts2 == {l \in mine : \A k \in mine \ {l} : S!Later(ts, k, l)}
  <2>1. S!RowsOf(ts, j) = mine /\ \A i \in mine : ts[i] = rs[i]
    OBVIOUS
  <2>2. \A i, k \in mine : S!Later(ts, i, k) = S!Later(rs, i, k)
    BY <2>1 DEF S!Later
  <2>3. lasts2 = lasts /\ firsts2 = firsts
    BY <2>2, Zenon
  <2>4. {ts[i].event : i \in lasts} = {rs[i].event : i \in lasts}
    BY <2>1
  <2>5. {ts[i].event : i \in firsts} = {rs[i].event : i \in firsts}
    BY <2>1
  <2>6. S!Latest(ts, j) = S!The({ts[i].event : i \in lasts}) /\ S!First(ts, j) = S!The({ts[i].event : i \in firsts})
    BY <2>1, <2>3, Zenon DEF S!Latest, S!First
  <2>7. S!Latest(rs, j) = S!The({rs[i].event : i \in lasts}) /\ S!First(rs, j) = S!The({rs[i].event : i \in firsts})
    BY Zenon DEF S!Latest, S!First
  <2>8. QED
    BY <2>4, <2>5, <2>6, <2>7, Zenon
<1>3. ASSUME NEW j PROVE S!RoleIn(j, w, more) = S!RoleIn(j, w, parts)
  <2>1. \A r : <<j, w, r>> \in more <=> <<j, w, r>> \in parts
    OBVIOUS
  <2>2. {l \in 1 .. 3 : /\ <<j, w, S!Roles[l]>> \in more
                        /\ \A k \in 1 .. l - 1 : <<j, w, S!Roles[k]>> \notin more}
          = {l \in 1 .. 3 : /\ <<j, w, S!Roles[l]>> \in parts
                            /\ \A k \in 1 .. l - 1 : <<j, w, S!Roles[k]>> \notin parts}
    BY <2>1, Zenon
  <2>3. QED
    BY <2>2, Zenon DEF S!RoleIn
<1>4. S!Listed(w, ts, more) = S!Listed(w, rs, parts)
  BY <1>1 DEF S!Listed
<1>5. \A j \in S!Listed(w, rs, parts) : j \in S!JobsOf(w, parts)
  BY DEF S!Listed
<1>6. \A j \in S!Listed(w, rs, parts) : S!Before(j, w, ts, more) = S!Before(j, w, rs, parts)
  BY <1>2, <1>4, <1>5, Zenon DEF S!Before
<1>7. \A j \in S!Listed(w, rs, parts) : S!Summary(j, w, ts, more) = S!Summary(j, w, rs, parts)
  BY <1>2, <1>3, <1>5, Zenon DEF S!Summary
<1> DEFINE on(ps, rr) == {k \in S!Listed(w, rr, ps) : S!Cardinality(S!Before(k, w, rr, ps)) < JobsPageSize}
<1>8. on(more, ts) = on(parts, rs) /\ on(parts, rs) \subseteq S!Listed(w, rs, parts)
  BY <1>4, <1>6, Zenon
<1>9. {S!Summary(j, w, ts, more) : j \in on(more, ts)} = {S!Summary(j, w, rs, parts) : j \in on(parts, rs)}
  BY <1>7, <1>8
<1>10. S!JobsByWallet(w, ts, more) =
         [total |-> S!Cardinality(S!JobsOf(w, more)), jobs |-> {S!Summary(j, w, ts, more) : j \in on(more, ts)}]
  BY Zenon DEF S!JobsByWallet
<1>11. S!JobsByWallet(w, rs, parts) =
         [total |-> S!Cardinality(S!JobsOf(w, parts)), jobs |-> {S!Summary(j, w, rs, parts) : j \in on(parts, rs)}]
  BY Zenon DEF S!JobsByWallet
<1>12. QED
  BY <1>1, <1>9, <1>10, <1>11, Zenon

\* The insert loop adds rows behind those that are there.
LEMMA InsertAdds ==
  ASSUME StoreInv, NEW new \in Seq(StoreRow), S!InsertOrIgnore(new)
  PROVE  /\ sRows' \in Seq(StoreRow) /\ Len(sRows') <= MaxRows
         /\ \A j : (\A i \in DOMAIN new : new[i].event.job # j) =>
              /\ S!RowsOf(sRows', j) = S!RowsOf(sRows, j)
              /\ \A i \in S!RowsOf(sRows, j) : sRows'[i] = sRows[i]
<1> DEFINE fresh == S!Fresh(new)
           k     == Cardinality(fresh)
<1>1. /\ Len(new) \in Nat /\ DOMAIN new = 1 .. Len(new) /\ \A i \in DOMAIN new : new[i] \in StoreRow
      /\ Len(sRows) \in Nat /\ DOMAIN sRows = 1 .. Len(sRows) /\ sRows \in Seq(StoreRow)
  BY DEF StoreInv
<1>2. fresh \subseteq DOMAIN new
  BY DEF S!Fresh
<1>3. IsFiniteSet(fresh) /\ fresh \subseteq Nat
  <2>1. IsFiniteSet(1 .. Len(new)) /\ fresh \in SUBSET (1 .. Len(new))
    BY <1>1, <1>2, FS_Interval
  <2>2. fresh \subseteq Nat
    BY <1>1, <2>1
  <2> HIDE DEF fresh
  <2>3. QED
    BY <2>1, <2>2, FS_Subset
<1>4. PICK order \in S!Listings(fresh) : sRows' = sRows \o [n \in DOMAIN order |-> new[order[n]]]
  BY DEF S!InsertOrIgnore
<1>5. Len(sRows) + k <= MaxRows
  BY DEF S!InsertOrIgnore, S!Cardinality, Cardinality
<1>6. order \in Listings(fresh)
  BY DEF S!Listings, Listings, S!Cardinality, Cardinality
<1> HIDE DEF fresh
<1>7. k \in Nat /\ order \in [1 .. k -> fresh]
  BY <1>3, <1>6, ListingFacts
<1> HIDE DEF k
<1> DEFINE added == [n \in DOMAIN order |-> new[order[n]]]
<1>8. added \in [1 .. k -> StoreRow] /\ \A n \in 1 .. k : \E i \in DOMAIN new : added[n] = new[i]
  BY <1>1, <1>2, <1>7
<1>9. sRows' = sRows \o added
  BY <1>4
<1> HIDE DEF added
<1>10. added \in Seq(StoreRow) /\ Len(added) = k
  BY <1>7, <1>8
<1>11. sRows' \in Seq(StoreRow) /\ Len(sRows') = Len(sRows) + k
  <2>1. sRows' = sRows \o added /\ sRows \in Seq(StoreRow) /\ added \in Seq(StoreRow)
    BY <1>1, <1>9, <1>10
  <2>2. sRows' \in Seq(StoreRow) /\ Len(sRows') = Len(sRows) + Len(added)
    BY <2>1
  <2>3. QED
    BY <1>10, <2>2
<1>12. DOMAIN sRows' = 1 .. Len(sRows) + k
  BY <1>11
<1>13. ASSUME NEW i \in 1 .. Len(sRows) PROVE sRows'[i] = sRows[i]
  BY <1>1, <1>9, <1>10
<1>14. ASSUME NEW i \in DOMAIN sRows', i \notin DOMAIN sRows
       PROVE  \E l \in DOMAIN new : sRows'[i] = new[l]
  <2>1. i \in Nat /\ i > Len(sRows) /\ i - Len(sRows) \in 1 .. k
    BY <1>1, <1>7, <1>12, <1>14
  <2>2. sRows'[i] = added[i - Len(sRows)]
    BY <1>1, <1>7, <1>9, <1>10, <2>1
  <2>3. QED
    BY <1>8, <2>1, <2>2
<1>15. ASSUME NEW j, \A i \in DOMAIN new : new[i].event.job # j
       PROVE  /\ S!RowsOf(sRows', j) = S!RowsOf(sRows, j)
              /\ \A i \in S!RowsOf(sRows, j) : sRows'[i] = sRows[i]
  <2>1. \A i \in S!RowsOf(sRows, j) : i \in DOMAIN sRows /\ sRows'[i] = sRows[i] /\ i \in DOMAIN sRows'
    BY <1>1, <1>7, <1>12, <1>13 DEF S!RowsOf
  <2>2. \A i \in S!RowsOf(sRows', j) : i \in DOMAIN sRows /\ sRows'[i] = sRows[i]
    BY <1>1, <1>13, <1>14, <1>15 DEF S!RowsOf
  <2>3. QED
    BY <2>1, <2>2 DEF S!RowsOf
<1>16. Len(sRows') <= MaxRows
  BY <1>5, <1>11 DEF k
<1>17. QED
  BY <1>11, <1>15, <1>16

\* The pages that are neither dropped nor excused are those of wallets that take
\* part in none of the jobs an insert is about.
LEMMA InsertKeepsPages ==
  ASSUME StoreInv, NEW new \in Seq(StoreRow), S!InsertOrIgnore(new),
         NEW about, \A i \in DOMAIN new : new[i].event \in about,
         sParticipants \subseteq sParticipants',
         \A p \in sParticipants' \ sParticipants : \E e \in about : p[1] = e.job,
         NEW dropped, sPages' = S!Invalidate(dropped),
         NEW more, sExcused' = S!StillExcused(more),
         \A w \in Wallets \ dropped, e \in about :
           e.job \in S!JobsOf(w, sParticipants') => w \in more
  PROVE  S!PageIsCurrent' /\ sPages' = [w \in Wallets |-> sPages'[w]]
<1>1. sPages' = [w \in Wallets |-> sPages'[w]]
  BY DEF S!Invalidate
<1>2. SUFFICES ASSUME NEW w \in Wallets, w \notin sExcused', sPages'[w] # S!NoPage
               PROVE  sPages'[w] = S!JobsByWallet(w, sRows', sParticipants')
  BY <1>1 DEF S!PageIsCurrent, S!NoPage
<1>3. w \notin dropped /\ sPages'[w] = sPages[w]
  BY <1>2 DEF S!Invalidate
<1>4. w \notin sExcused /\ w \notin more
  BY <1>2 DEF S!StillExcused
<1>5. sPages[w] = S!JobsByWallet(w, sRows, sParticipants)
  BY <1>2, <1>3, <1>4 DEF StoreInv, S!PageIsCurrent
<1>6. \A e \in about : e.job \notin S!JobsOf(w, sParticipants')
  BY <1>3, <1>4
<1>7. \A p : (p \in sParticipants' /\ p[2] = w) <=> (p \in sParticipants /\ p[2] = w)
  BY <1>6 DEF S!JobsOf
<1>8. ASSUME NEW j \in S!JobsOf(w, sParticipants)
      PROVE  /\ S!RowsOf(sRows', j) = S!RowsOf(sRows, j)
             /\ \A i \in S!RowsOf(sRows, j) : sRows'[i] = sRows[i]
  <2>1. j \in S!JobsOf(w, sParticipants')
    BY DEF S!JobsOf
  <2>2. \A i \in DOMAIN new : new[i].event.job # j
    BY <1>6, <2>1
  <2>3. QED
    BY <2>2, InsertAdds
<1>9. S!JobsByWallet(w, sRows', sParticipants') = S!JobsByWallet(w, sRows, sParticipants)
  BY <1>7, <1>8, SamePage
<1>10. QED
  BY <1>3, <1>5, <1>9

\* The rows a writer makes of its events.
LEMMA RowsForFacts ==
  ASSUME NEW events \in Seq(Events)
  PROVE  /\ S!RowsFor(events) \in Seq(StoreRow) /\ DOMAIN S!RowsFor(events) = DOMAIN events
         /\ \A i \in DOMAIN events : S!RowsFor(events)[i].event = events[i]
<1>1. /\ DOMAIN events = 1 .. Len(events) /\ Len(events) \in Nat
      /\ \A i \in DOMAIN events : events[i] \in Events
  OBVIOUS
<1>2. S!RowsFor(events) \in [1 .. Len(events) -> StoreRow]
  BY <1>1 DEF S!RowsFor, StoreRow
<1>3. S!RowsFor(events) \in Seq(StoreRow)
  BY <1>1, <1>2
<1>4. QED
  BY <1>1, <1>2, <1>3 DEF S!RowsFor

\* Who is recorded as a participant is one of an event of the batch.
LEMMA ParticipantsGrow ==
  ASSUME NEW events \in Seq(Events), sParticipants' = S!ParticipantsWith(events)
  PROVE  /\ sParticipants \subseteq sParticipants'
         /\ \A p \in sParticipants' \ sParticipants : \E e \in S!ToSet(events) : p[1] = e.job
<1>1. S!Fresh(S!RowsFor(events)) \subseteq DOMAIN events
  BY RowsForFacts DEF S!Fresh
<1>2. \A e : \A p \in S!ParticipantsOf(e) : p[1] = e.job
  BY DEF S!ParticipantsOf
<1>3. QED
  BY <1>1, <1>2 DEF S!ParticipantsWith, S!ToSet

\* insertEventBatch, insertHistoricalEventBatch.
LEMMA WriteBatchKeeps ==
  ASSUME StoreInv, NEW events \in Seq(Events), S!WriteBatch(events), sPointer' \in 0 .. MaxLedger
  PROVE  StoreInv'
<1> DEFINE new     == S!RowsFor(events)
           about   == S!ToSet(events)
           dropped == S!ExtractAddresses(events)
           more    == S!Unannounced(events, sParticipants')
<1>1. /\ S!InsertOrIgnore(new) /\ sParticipants' = S!ParticipantsWith(events)
      /\ sPages' = S!Invalidate(dropped) /\ sExcused' = S!StillExcused(more)
      /\ sSyncRanges' = sSyncRanges
  BY DEF S!WriteBatch
<1>2. new \in Seq(StoreRow) /\ \A i \in DOMAIN new : new[i].event \in about
  BY RowsForFacts DEF S!ToSet
<1>3. /\ sParticipants \subseteq sParticipants'
      /\ \A p \in sParticipants' \ sParticipants : \E e \in about : p[1] = e.job
  BY <1>1, ParticipantsGrow
<1>4. \A w \in Wallets \ dropped, e \in about : e.job \in S!JobsOf(w, sParticipants') => w \in more
  BY DEF S!ExtractAddresses, S!Unannounced
<1>5. more \subseteq Wallets
  BY DEF S!Unannounced
<1> HIDE DEF new, about, dropped, more
<1>6. S!PageIsCurrent' /\ sPages' = [w \in Wallets |-> sPages'[w]]
  BY <1>1, <1>2, <1>3, <1>4, InsertKeepsPages
<1>7. sRows' \in Seq(StoreRow) /\ Len(sRows') <= MaxRows
  BY <1>1, <1>2, InsertAdds
<1>8. sExcused' \subseteq Wallets
  BY <1>1, <1>5 DEF S!StillExcused, StoreInv
<1>9. QED
  BY <1>1, <1>6, <1>7, <1>8 DEF StoreInv

\* A single insert keeps every page current, or drops it (insertEvent).
LEMMA InsertEventKeeps ==
  ASSUME StoreInv, NEW e \in Events, S!InsertEvent(e)
  PROVE  StoreInv'
<1> DEFINE events == <<e>>
           new    == S!RowsFor(events)
           about  == {e}
           none   == {}
           more   == {w \in Wallets : e.job \in S!JobsOf(w, sParticipants')}
<1>1. /\ S!InsertOrIgnore(new) /\ sParticipants' = S!ParticipantsWith(events)
      /\ sPages' = sPages /\ sExcused' = S!StillExcused(more)
      /\ sSyncRanges' = sSyncRanges /\ sPointer' = sPointer
  BY DEF S!InsertEvent
<1>2. events \in Seq(Events) /\ S!ToSet(events) = {e}
  BY DEF S!ToSet
<1> HIDE DEF events
<1>3. new \in Seq(StoreRow) /\ \A i \in DOMAIN new : new[i].event \in about
  BY <1>2, RowsForFacts DEF S!ToSet
<1>4. /\ sParticipants \subseteq sParticipants'
      /\ \A p \in sParticipants' \ sParticipants : \E d \in about : p[1] = d.job
  BY <1>1, <1>2, ParticipantsGrow
<1>5. sPages' = S!Invalidate(none)
  BY <1>1 DEF StoreInv, S!Invalidate
<1>6. \A w \in Wallets \ none, d \in about : d.job \in S!JobsOf(w, sParticipants') => w \in more
  OBVIOUS
<1>7. more \subseteq Wallets
  OBVIOUS
<1> HIDE DEF new, more, about, none
<1>8. S!PageIsCurrent' /\ sPages' = [w \in Wallets |-> sPages'[w]]
  BY <1>1, <1>3, <1>4, <1>5, <1>6, InsertKeepsPages
<1>9. sRows' \in Seq(StoreRow) /\ Len(sRows') <= MaxRows
  BY <1>1, <1>3, InsertAdds
<1>10. sExcused' \subseteq Wallets
  BY <1>1, <1>7 DEF S!StillExcused, StoreInv
<1>11. QED
  BY <1>1, <1>8, <1>9, <1>10 DEF StoreInv

\* An import with its dedup table keeps every page current, or drops it (insertEventsWithDedup).
LEMMA DedupKeeps ==
  ASSUME StoreInv, NEW import \in StoreImports, S!InsertEventsWithDedup(import)
  PROVE  StoreInv'
<1> DEFINE new   == [i \in DOMAIN import.events |-> [event |-> import.events[i], key |-> <<>>]]
           about == S!ToSet(import.events)
           more  == {w \in Wallets : \E e \in about : e.job \in S!JobsOf(w, sParticipants)}
<1>0. import.events \in Seq(Events) /\ import.start <= import.end
  BY StoreAssumption
<1>1. /\ S!InsertOrIgnore(new) /\ sParticipants' = sParticipants
      /\ sPages' = sPages /\ sExcused' = S!StillExcused(more) /\ sPointer' = sPointer
      /\ sSyncRanges' = sSyncRanges \cup {[start |-> import.start, end |-> import.end]}
  BY DEF S!InsertEventsWithDedup, S!NoKey
<1>2. new \in Seq(StoreRow) /\ \A i \in DOMAIN new : new[i].event \in about
  <2>1. /\ DOMAIN import.events = 1 .. Len(import.events) /\ Len(import.events) \in Nat
        /\ \A i \in DOMAIN import.events : import.events[i] \in Events
    BY <1>0
  <2>2. new \in [1 .. Len(import.events) -> StoreRow]
    BY <2>1 DEF StoreRow
  <2>3. QED
    BY <2>1, <2>2 DEF S!ToSet
<1>3. sPages' = S!Invalidate({})
  BY <1>1 DEF StoreInv, S!Invalidate
<1>4. \A w \in Wallets \ {}, d \in about : d.job \in S!JobsOf(w, sParticipants') => w \in more
  BY <1>1
<1>5. more \subseteq Wallets
  OBVIOUS
<1>6. \A s \in sSyncRanges' : s.start <= s.end
  BY <1>0, <1>1 DEF StoreInv
<1> HIDE DEF new, more, about
<1>7. S!PageIsCurrent' /\ sPages' = [w \in Wallets |-> sPages'[w]]
  BY <1>1, <1>2, <1>3, <1>4, InsertKeepsPages
<1>8. sRows' \in Seq(StoreRow) /\ Len(sRows') <= MaxRows
  BY <1>1, <1>2, InsertAdds
<1>9. sExcused' \subseteq Wallets
  BY <1>1, <1>5 DEF S!StillExcused, StoreInv
<1>10. QED
  BY <1>1, <1>6, <1>7, <1>8, <1>9 DEF StoreInv

\* A deletion excuses every page.
LEMMA DeleteKeeps ==
  ASSUME StoreInv, NEW start, NEW end, S!DeleteEventsInRange(start, end)
  PROVE  StoreInv'
<1> DEFINE kept == {i \in DOMAIN sRows : sRows[i].event.ledger < start \/ sRows[i].event.ledger > end}
           k    == Cardinality(kept)
<1>1. /\ Len(sRows) \in Nat /\ DOMAIN sRows = 1 .. Len(sRows) /\ Len(sRows) <= MaxRows
      /\ \A i \in DOMAIN sRows : sRows[i] \in StoreRow
  BY DEF StoreInv
<1>2. kept \in SUBSET (1 .. Len(sRows))
  BY <1>1
<1>3. PICK order \in S!Listings(kept) : sRows' = [n \in DOMAIN order |-> sRows[order[n]]]
  BY DEF S!DeleteEventsInRange
<1>4. order \in Listings(kept)
  BY DEF S!Listings, Listings, S!Cardinality, Cardinality
<1>5. /\ sPages' = sPages /\ sExcused' = S!StillExcused(Wallets) /\ sPointer' = sPointer
      /\ sSyncRanges' \subseteq sSyncRanges
  BY DEF S!DeleteEventsInRange
<1> HIDE DEF kept
<1>6. IsFiniteSet(1 .. Len(sRows)) /\ Cardinality(1 .. Len(sRows)) = Len(sRows)
  BY <1>1, FS_Interval
<1>7. IsFiniteSet(kept) /\ k <= Len(sRows) /\ kept \subseteq Nat
  <2>1. IsFiniteSet(kept) /\ Cardinality(kept) <= Cardinality(1 .. Len(sRows))
    BY <1>2, <1>6, FS_Subset
  <2>2. kept \subseteq Nat
    BY <1>1, <1>2
  <2>3. QED
    BY <1>6, <2>1, <2>2
<1>8. k \in Nat /\ order \in [1 .. k -> kept]
  BY <1>4, <1>7, ListingFacts
<1> HIDE DEF k
<1>9. sRows' \in [1 .. k -> StoreRow]
  BY <1>1, <1>2, <1>3, <1>8
<1>10. sRows' \in Seq(StoreRow) /\ Len(sRows') = k
  BY <1>8, <1>9
<1>11. Len(sRows') <= MaxRows
  BY <1>1, <1>7, <1>8, <1>10, StoreAssumption
<1>12. sExcused' \subseteq Wallets /\ S!PageIsCurrent'
  BY <1>5 DEF S!StillExcused, StoreInv, S!PageIsCurrent
<1>13. QED
  BY <1>5, <1>10, <1>11, <1>12 DEF StoreInv

\* Reading a page, or its expiry, leaves the other pages as they are.
LEMMA PagesKeep ==
  ASSUME StoreInv, NEW w \in Wallets, S!GetJobsByWallet(w) \/ S!PageExpires(w)
  PROVE  StoreInv'
<1>1. /\ UNCHANGED <<sRows, sParticipants, sSyncRanges, sPointer>>
      /\ sExcused' = sExcused \ {w}
      /\ \/ sPages' = [sPages EXCEPT ![w] = S!JobsByWallet(w, sRows, sParticipants)]
         \/ sPages' = [sPages EXCEPT ![w] = S!NoPage]
  BY DEF S!GetJobsByWallet, S!PageExpires
<1>2. sPages' = [v \in Wallets |-> sPages'[v]]
  BY <1>1 DEF StoreInv
<1>3. \A v \in Wallets : v # w => sPages'[v] = sPages[v]
  BY <1>1 DEF StoreInv
<1>4. sPages'[w] = S!JobsByWallet(w, sRows, sParticipants) \/ sPages'[w] = S!NoPage
  BY <1>1 DEF StoreInv
<1>5. \A v \in Wallets : S!JobsByWallet(v, sRows', sParticipants') = S!JobsByWallet(v, sRows, sParticipants)
  BY <1>1
<1>6. S!PageIsCurrent'
  BY <1>1, <1>3, <1>4, <1>5 DEF StoreInv, S!PageIsCurrent, S!NoPage
<1>7. QED
  BY <1>1, <1>2, <1>6 DEF StoreInv

\* StoreInv is an invariant.
LEMMA StoreHolds == Spec => []StoreInv
<1>1. Init => StoreInv
  <2> SUFFICES ASSUME S!Init PROVE StoreInv
    BY DEF Init
  <2>1. S!PageIsCurrent
    BY DEF S!Init, S!PageIsCurrent
  <2>2. QED
    BY <2>1, StoreAssumption DEF S!Init, StoreInv
<1>2. StoreInv /\ [S!Next]_sVars => StoreInv'
  <2> SUFFICES ASSUME StoreInv, [S!Next]_sVars PROVE StoreInv'
    OBVIOUS
  <2>1. CASE UNCHANGED sVars
    <3>1. S!PageIsCurrent'
      <4>1. sRows' = sRows /\ sParticipants' = sParticipants /\ sPages' = sPages /\ sExcused' = sExcused
        BY <2>1 DEF sVars
      <4>2. \A v \in Wallets : S!JobsByWallet(v, sRows', sParticipants') = S!JobsByWallet(v, sRows, sParticipants)
        BY <4>1
      <4>3. QED
        BY <4>1, <4>2 DEF StoreInv, S!PageIsCurrent, S!NoPage
    <3>2. QED
      BY <2>1, <3>1 DEF sVars, StoreInv
  <2>2. ASSUME NEW batch \in Batches, NEW newLedger \in 1 .. MaxLedger, S!InsertEventBatch(batch, newLedger)
        PROVE  StoreInv'
    BY <2>2, StoreAssumption, WriteBatchKeeps DEF S!InsertEventBatch
  <2>3. ASSUME NEW batch \in Batches, NEW r \in Ranges, NEW advance \in BOOLEAN,
               S!InsertHistoricalEventBatch(batch, r.start, r.end, advance)
        PROVE  StoreInv'
    <3>1. sPointer' \in 0 .. MaxLedger
      BY <2>3, StoreAssumption DEF S!InsertHistoricalEventBatch, StoreInv
    <3>2. QED
      BY <2>3, <3>1, StoreAssumption, WriteBatchKeeps DEF S!InsertHistoricalEventBatch
  <2>4. QED
    BY <2>1, <2>2, <2>3, InsertEventKeeps, DedupKeeps, DeleteKeeps, PagesKeep DEF S!Next
<1>3. StoreInv /\ [Next]_vars => StoreInv'
  BY <1>2, SSteps
<1>4. QED
  BY <1>1, <1>3, PTL DEF Spec

\* A cached page of jobs is what the tables say, but for the listed gaps of the
\* invalidation (getJobsByWallet, invalidateJobsByWalletCache).
THEOREM PagesAreCurrent == Spec => []PageIsCurrent
  BY StoreHolds, PTL DEF StoreInv, PageIsCurrent

(***************************************************************************)
(* Metrics: between the first query and the last the snapshot stays what   *)
(* it is, and what was counted is counted in it.                           *)
(***************************************************************************)

\* What each query of a collection has answered by its place.
CountsInv ==
  /\ xStage \in {"idle", "total", "done"} => xSnapshot = X!NoSnapshot
  /\ xStage \in {"types", "ledgers"} => xSnapshot \subseteq Stock
  /\ xStage \in {"types", "ledgers"} => xPartial.total = Cardinality(X!InRange)
  /\ xStage \in {"ledgers", "done"} => xPartial.total = Total(xPartial.byType, X!Types)
  /\ xStage = "done" => xPartial.total = Total(xPartial.byLedger, X!Ledgers)

MetricsInv ==
  /\ X!TypeOK /\ CountsInv
  /\ xPartial \in [total : 0 .. Cardinality(Stock), byType : [X!Types -> Int], byLedger : [X!Ledgers -> Int]]

\* The module's own operators on sets and sums are those of the proofs.
LEMMA SumsOfMetrics ==
  /\ \A set : X!Cardinality(set) = Cardinality(set)
  /\ \A f, set : X!Total(f, set) = Total(f, set)
<1>1. \A set : X!Cardinality(set) = Cardinality(set)
  BY Zenon DEF X!Cardinality, Cardinality
<1>2. \A f, set : X!Total(f, set) = Total(f, set)
  BY Zenon DEF X!Total, X!The, Total, The
<1>3. QED
  BY <1>1, <1>2

\* What the events of a collection come to by type and by ledger.
LEMMA PartsAddUp ==
  ASSUME NEW set \in SUBSET Stock
  PROVE  /\ Cardinality(set) \in 0 .. Cardinality(Stock)
         /\ [t \in X!Types |-> Cardinality({e \in set : TypeOf[e] = t})] \in [X!Types -> Int]
         /\ [l \in X!Ledgers |-> Cardinality({e \in set : LedgerOf[e] = l})] \in [X!Ledgers -> Int]
         /\ Total([t \in X!Types |-> Cardinality({e \in set : TypeOf[e] = t})], X!Types) = Cardinality(set)
         /\ Total([l \in X!Ledgers |-> Cardinality({e \in set : LedgerOf[e] = l})], X!Ledgers) = Cardinality(set)
<1>0. IsFiniteSet(Stock)
  BY MetricsAssumption
<1>1. \A part \in SUBSET Stock : IsFiniteSet(part) /\ Cardinality(part) \in Nat /\ Cardinality(part) <= Cardinality(Stock)
  BY <1>0, FS_Subset, FS_CardinalityType
<1>2. Cardinality(Stock) \in Nat
  BY <1>0, FS_CardinalityType
<1>3. IsFiniteSet(X!Types) /\ IsFiniteSet(X!Ledgers)
  <2>1. [e \in Stock |-> TypeOf[e]] \in Surjection(Stock, X!Types)
    BY DEF Surjection, X!Types
  <2>2. [e \in Stock |-> LedgerOf[e]] \in Surjection(Stock, X!Ledgers)
    BY DEF Surjection, X!Ledgers
  <2>3. IsFiniteSet(X!Types)
    BY <1>0, <2>1, FS_Surjection, Zenon
  <2>4. IsFiniteSet(X!Ledgers)
    BY <1>0, <2>2, FS_Surjection, Zenon
  <2>5. QED
    BY <2>3, <2>4
<1>4. (\A e \in set : TypeOf[e] \in X!Types) /\ (\A e \in set : LedgerOf[e] \in X!Ledgers)
  BY DEF X!Types, X!Ledgers
<1>5. \A t \in X!Types : Cardinality({e \in set : TypeOf[e] = t}) \in Int
  <2>1. \A t \in X!Types : {e \in set : TypeOf[e] = t} \in SUBSET Stock
    OBVIOUS
  <2>2. QED
    BY <1>1, <2>1
<1>6. \A l \in X!Ledgers : Cardinality({e \in set : LedgerOf[e] = l}) \in Int
  <2>1. \A l \in X!Ledgers : {e \in set : LedgerOf[e] = l} \in SUBSET Stock
    OBVIOUS
  <2>2. QED
    BY <1>1, <2>1
<1>7. IsFiniteSet(set)
  BY <1>1
<1>8. Total([t \in X!Types |-> Cardinality({e \in set : TypeOf[e] = t})], X!Types) = Cardinality(set)
  BY <1>3, <1>4, <1>7, CountingByClasses, Zenon
<1>9. Total([l \in X!Ledgers |-> Cardinality({e \in set : LedgerOf[e] = l})], X!Ledgers) = Cardinality(set)
  BY <1>3, <1>4, <1>7, CountingByClasses, Zenon
<1>10. Cardinality(set) \in 0 .. Cardinality(Stock)
  BY <1>1, <1>2
<1>11. QED
  BY <1>5, <1>6, <1>8, <1>9, <1>10

\* The events a query counts are events.
LEMMA SeenEvents ==
  ASSUME MetricsInv
  PROVE  /\ X!InRange \in SUBSET Stock
         /\ xStage \in {"types", "ledgers"} => X!Seen(xSnapshot) = xSnapshot
         /\ X!Seen(X!Seen(xSnapshot)) = X!Seen(xSnapshot)
         /\ X!Seen(xSnapshot) \subseteq Stock
  BY MetricsAssumption DEF MetricsInv, CountsInv, X!TypeOK, X!InRange, X!Seen, X!NoSnapshot

\* The first query takes the snapshot and counts it.
LEMMA QueryTotalKeeps ==
  ASSUME MetricsInv, X!QueryTotal
  PROVE  MetricsInv'
<1>1. /\ xStage = "total" /\ xStage' = "types" /\ xSnapshot' = X!Seen(xSnapshot)
      /\ xPartial' = [xPartial EXCEPT !.total = Cardinality(X!InRange)]
      /\ UNCHANGED <<xLive, xRange, xLast, xProcessed>>
  BY SumsOfMetrics DEF X!QueryTotal
<1>2. X!InRange' = X!InRange
  <2>1. X!Seen(xSnapshot') = X!Seen(xSnapshot) /\ X!Seen(xSnapshot)' = X!Seen(xSnapshot')
    BY <1>1, SeenEvents DEF X!Seen, X!NoSnapshot
  <2>2. QED
    BY <1>1, <2>1 DEF X!InRange
<1>3. Cardinality(X!InRange) \in 0 .. Cardinality(Stock)
  BY SeenEvents, PartsAddUp
<1>4. /\ xPartial' \in [total : 0 .. Cardinality(Stock), byType : [X!Types -> Int], byLedger : [X!Ledgers -> Int]]
      /\ xPartial'.total = Cardinality(X!InRange)
  BY <1>1, <1>3 DEF MetricsInv
<1>5. X!TypeOK'
  <2>1. X!Cardinality(Stock) = Cardinality(Stock)
    BY SumsOfMetrics
  <2>2. \E i \in DOMAIN X!Stages : X!Stages[i] = xStage'
    BY <1>1 DEF X!Stages
  <2>3. QED
    BY <1>1, <1>4, <2>1, <2>2, SeenEvents DEF MetricsInv, X!TypeOK
<1>6. CountsInv'
  BY <1>1, <1>2, <1>4, SeenEvents DEF CountsInv
<1>7. QED
  BY <1>4, <1>5, <1>6 DEF MetricsInv

\* The query by type counts what the total counted.
LEMMA QueryTypesKeeps ==
  ASSUME MetricsInv, X!QueryTypes
  PROVE  MetricsInv'
<1> DEFINE counts == [t \in X!Types |-> Cardinality({e \in X!InRange : TypeOf[e] = t})]
<1>1. /\ xStage = "types" /\ xStage' = "ledgers" /\ xPartial' = [xPartial EXCEPT !.byType = counts]
      /\ UNCHANGED <<xLive, xSnapshot, xRange, xLast, xProcessed>>
  BY SumsOfMetrics DEF X!QueryTypes
<1>2. X!InRange' = X!InRange
  BY <1>1 DEF X!InRange, X!Seen
<1>3. counts \in [X!Types -> Int] /\ Total(counts, X!Types) = Cardinality(X!InRange)
  BY SeenEvents, PartsAddUp
<1> HIDE DEF counts
<1>4. /\ xPartial' \in [total : 0 .. Cardinality(Stock), byType : [X!Types -> Int], byLedger : [X!Ledgers -> Int]]
      /\ xPartial'.total = xPartial.total /\ xPartial'.byType = counts
  BY <1>1, <1>3 DEF MetricsInv
<1>5. X!TypeOK'
  <2>1. X!Cardinality(Stock) = Cardinality(Stock)
    BY SumsOfMetrics
  <2>2. \E i \in DOMAIN X!Stages : X!Stages[i] = xStage'
    BY <1>1 DEF X!Stages
  <2>3. QED
    BY <1>1, <1>4, <2>1, <2>2 DEF MetricsInv, X!TypeOK
<1>6. CountsInv'
  BY <1>1, <1>2, <1>3, <1>4 DEF MetricsInv, CountsInv
<1>7. QED
  BY <1>4, <1>5, <1>6 DEF MetricsInv

\* So does the query by ledger, the last of the transaction.
LEMMA QueryLedgersKeeps ==
  ASSUME MetricsInv, X!QueryLedgers
  PROVE  MetricsInv'
<1> DEFINE counts == [l \in X!Ledgers |-> Cardinality({e \in X!InRange : LedgerOf[e] = l})]
<1>1. /\ xStage = "ledgers" /\ xStage' = "done" /\ xPartial' = [xPartial EXCEPT !.byLedger = counts]
      /\ xSnapshot' = X!NoSnapshot
      /\ UNCHANGED <<xLive, xRange, xLast, xProcessed>>
  BY SumsOfMetrics DEF X!QueryLedgers
<1>3. counts \in [X!Ledgers -> Int] /\ Total(counts, X!Ledgers) = Cardinality(X!InRange)
  BY SeenEvents, PartsAddUp
<1> HIDE DEF counts
<1>4. /\ xPartial' \in [total : 0 .. Cardinality(Stock), byType : [X!Types -> Int], byLedger : [X!Ledgers -> Int]]
      /\ xPartial'.total = xPartial.total /\ xPartial'.byType = xPartial.byType /\ xPartial'.byLedger = counts
  BY <1>1, <1>3 DEF MetricsInv
<1>5. X!TypeOK'
  <2>1. X!Cardinality(Stock) = Cardinality(Stock)
    BY SumsOfMetrics
  <2>2. \E i \in DOMAIN X!Stages : X!Stages[i] = xStage'
    BY <1>1 DEF X!Stages
  <2>3. QED
    BY <1>1, <1>4, <2>1, <2>2 DEF MetricsInv, X!TypeOK
<1>6. CountsInv'
  BY <1>1, <1>3, <1>4 DEF MetricsInv, CountsInv
<1>7. QED
  BY <1>4, <1>5, <1>6 DEF MetricsInv

\* What is told of a collection does not touch its counts.
LEMMA OnCollectedKeeps ==
  ASSUME MetricsInv, X!OnCollected
  PROVE  MetricsInv'
<1>0. Cardinality(Stock) \in Nat /\ X!Cardinality(Stock) = Cardinality(Stock)
  BY MetricsAssumption, FS_CardinalityType, SumsOfMetrics
<1>1. /\ xStage = "done" /\ xStage' = "idle"
      /\ UNCHANGED <<xLive, xSnapshot, xRange, xPartial>>
  BY DEF X!OnCollected
<1>2. xPartial.total \in 0 .. Cardinality(Stock)
  BY DEF MetricsInv
<1>3. xLast' \in -1 .. Cardinality(Stock) /\ xProcessed' \in 0 .. Cardinality(Stock)
  BY <1>0, <1>2 DEF X!OnCollected, MetricsInv, X!TypeOK
<1>4. \E i \in DOMAIN X!Stages : X!Stages[i] = xStage'
  BY <1>1 DEF X!Stages
<1>5. X!TypeOK'
  BY <1>0, <1>1, <1>3, <1>4 DEF MetricsInv, X!TypeOK
<1>6. CountsInv'
  BY <1>1 DEF MetricsInv, CountsInv
<1>7. QED
  BY <1>1, <1>5, <1>6 DEF MetricsInv

\* Every step of a collection and of the processes beside it keeps MetricsInv.
LEMMA MetricsStep == MetricsInv /\ [X!Next]_xVars => MetricsInv'
<1> SUFFICES ASSUME MetricsInv, [X!Next]_xVars PROVE MetricsInv'
  OBVIOUS
<1>0. Cardinality(Stock) \in Nat /\ X!Cardinality(Stock) = Cardinality(Stock)
  BY MetricsAssumption, FS_CardinalityType, SumsOfMetrics
<1>1. ASSUME NEW e \in Stock, X!OtherProcess(e) PROVE MetricsInv'
  <2>1. /\ xLive' \subseteq Stock
        /\ UNCHANGED <<xSnapshot, xRange, xStage, xPartial, xLast, xProcessed>>
    BY <1>1 DEF X!OtherProcess, MetricsInv, X!TypeOK
  <2>2. xStage \in {"types", "ledgers"} => X!InRange' = X!InRange
    <3>1. xStage \in {"types", "ledgers"} => xSnapshot # X!NoSnapshot
      BY MetricsAssumption DEF MetricsInv, CountsInv, X!NoSnapshot
    <3>2. QED
      BY <2>1, <3>1 DEF X!InRange, X!Seen
  <2>3. QED
    BY <2>1, <2>2 DEF MetricsInv, X!TypeOK, CountsInv
<1>2. ASSUME NEW ledgers \in SUBSET X!Ledgers, X!Begin(ledgers) PROVE MetricsInv'
  <2>1. /\ xStage = "idle" /\ xStage' = "total" /\ xRange' = ledgers /\ xPartial' = X!Nothing
        /\ UNCHANGED <<xLive, xSnapshot, xLast, xProcessed>>
    BY <1>2 DEF X!Begin
  <2>2. xPartial' \in [total : 0 .. Cardinality(Stock), byType : [X!Types -> Int], byLedger : [X!Ledgers -> Int]]
    BY <1>0, <2>1 DEF X!Nothing
  <2>3. \E i \in DOMAIN X!Stages : X!Stages[i] = xStage'
    BY <2>1 DEF X!Stages
  <2>4. X!TypeOK'
    BY <1>0, <2>1, <2>2, <2>3 DEF MetricsInv, X!TypeOK
  <2>5. QED
    BY <2>1, <2>2, <2>4 DEF MetricsInv, CountsInv
<1>3. CASE X!QueryFails
  <2>1. /\ xStage' = "idle" /\ xSnapshot' = X!NoSnapshot
        /\ UNCHANGED <<xLive, xRange, xPartial, xLast, xProcessed>>
    BY <1>3 DEF X!QueryFails
  <2>2. \E i \in DOMAIN X!Stages : X!Stages[i] = xStage'
    BY <2>1 DEF X!Stages
  <2>3. QED
    BY <1>0, <2>1, <2>2 DEF MetricsInv, X!TypeOK, CountsInv
<1>4. CASE UNCHANGED xVars
  BY <1>4 DEF xVars, MetricsInv, X!TypeOK, CountsInv, X!InRange, X!Seen
<1>5. QED
  BY <1>1, <1>2, <1>3, <1>4, QueryTotalKeeps, QueryTypesKeeps, QueryLedgersKeeps, OnCollectedKeeps DEF X!Next

\* MetricsInv is an invariant.
LEMMA MetricsHold == Spec => []MetricsInv
<1>1. Init => MetricsInv
  <2> SUFFICES ASSUME Init PROVE MetricsInv
    OBVIOUS
  <2>0. Cardinality(Stock) \in Nat /\ X!Cardinality(Stock) = Cardinality(Stock)
    BY MetricsAssumption, FS_CardinalityType, SumsOfMetrics
  <2>1. /\ xLive = {} /\ xSnapshot = X!NoSnapshot /\ xRange = X!Ledgers
        /\ xStage = "idle" /\ xPartial = X!Nothing /\ xLast = -1 /\ xProcessed = 0
    BY DEF Init, X!Init
  <2>2. xPartial \in [total : 0 .. Cardinality(Stock), byType : [X!Types -> Int], byLedger : [X!Ledgers -> Int]]
    BY <2>0, <2>1 DEF X!Nothing
  <2>3. \E i \in DOMAIN X!Stages : X!Stages[i] = xStage
    BY <2>1 DEF X!Stages
  <2>4. X!TypeOK
    BY <2>0, <2>1, <2>2, <2>3 DEF X!TypeOK
  <2>5. QED
    BY <2>1, <2>2, <2>4 DEF MetricsInv, CountsInv
<1>2. MetricsInv /\ [Next]_vars => MetricsInv'
  BY MetricsStep, XSteps
<1>3. QED
  BY <1>1, <1>2, PTL DEF Spec

\* The counts of a collection add up, by type and by ledger, whatever another process
\* inserts and prunes between its queries (collectIndexerMetrics).
THEOREM SnapshotsAddUp == Spec => []SnapshotAddsUp
<1>1. MetricsInv => SnapshotAddsUp
  BY SumsOfMetrics DEF MetricsInv, CountsInv, SnapshotAddsUp, X!SnapshotAddsUp
<1>2. QED
  BY <1>1, MetricsHold, PTL

(***************************************************************************)
(* Reconciliation: a row knows the events it summed, and these had all     *)
(* happened; so what it misses is what happened and was not among them.    *)
(***************************************************************************)

\* A row of reconciliation_results.
Verdicts ==
  [contract : STRING, status : {"match", "mismatch", "error"}, expected : Int, balance : Int, events : SUBSET Moves]

\* What reconcileContract holds while it awaits the balance.
Sums == [contract : STRING, expected : Int, events : SUBSET Moves]

\* What the sums in hand say of the events they were taken over.
SumsInv ==
  rSums # R!NoSums =>
    /\ rSums \in Sums
    /\ rSums.events \subseteq R!MovesOf(rSums.contract, rOnChain)
    /\ rSums.expected = R!SumOf(rSums.events, R!Inflow) - R!SumOf(rSums.events, R!Outflow)

ReconciliationInv ==
  /\ R!TypeOK /\ SumsInv
  /\ rJob # R!NoRun => rJob \in Seq(STRING)
  /\ rResults \in Seq(Verdicts)

\* The sums of the module are those of the proofs.
LEMMA SumsOfReconciliation == \A f, set : R!Total(f, set) = Total(f, set)
  BY Zenon DEF R!Total, R!The, Total, The

\* A sum over moves is a number, and moves of nothing do not change it.
LEMMA SumsOfMoves ==
  ASSUME NEW A \in SUBSET Moves, NEW E \in SUBSET A, NEW K
  PROVE  /\ R!SumOf(A, K) \in Int
         /\ (\A m \in A \ E : MoveOf[m].amount = 0) => R!SumOf(A, K) = R!SumOf(E, K)
<1> DEFINE f    == [m \in Moves |-> MoveOf[m].amount]
           set  == {m \in A : MoveOf[m].kind \in K}
           sub  == {m \in E : MoveOf[m].kind \in K}
<1>1. IsFiniteSet(set) /\ sub \in SUBSET set
  BY MovesAssumption, FS_Subset
<1>2. \A m \in set : f[m] \in Int
  BY MovesAssumption
<1>3. R!SumOf(A, K) = Total(f, set) /\ R!SumOf(E, K) = Total(f, sub)
  BY SumsOfReconciliation DEF R!SumOf
<1>4. Total(f, set) \in Int
  BY <1>1, <1>2, TotalType
<1>5. ASSUME \A m \in A \ E : MoveOf[m].amount = 0 PROVE Total(f, set) = Total(f, sub)
  <2>1. \A m \in set \ sub : f[m] = 0
    BY <1>5
  <2> HIDE DEF f, set, sub
  <2>2. QED
    BY <1>1, <1>2, <2>1, TotalOfPart
<1>6. QED
  BY <1>3, <1>4, <1>5

\* What is left of the contracts after the next is again what is left of them.
LEMMA RestOfContracts ==
  ASSUME NEW n \in 0 .. Len(Contracts), rJob = SubSeq(Contracts, n + 1, Len(Contracts)), rJob # <<>>
  PROVE  /\ \E k \in 0 .. Len(Contracts) : Tail(rJob) = SubSeq(Contracts, k + 1, Len(Contracts))
         /\ rJob # R!NoRun /\ Head(rJob) \in STRING /\ Head(rJob) # "none"
<1>1. Contracts \in Seq(STRING) /\ \A i \in DOMAIN Contracts : Contracts[i] # "none"
  BY MovesAssumption
<1>2. n < Len(Contracts)
  BY <1>1
<1>3. Tail(rJob) = SubSeq(Contracts, (n + 1) + 1, Len(Contracts))
  BY <1>1, <1>2
<1>4. Head(rJob) = Contracts[n + 1]
  BY <1>1, <1>2
<1>5. rJob # R!NoRun
  <2>1. Head(R!NoRun) = "none"
    BY DEF R!NoRun
  <2>2. Contracts[n + 1] # "none"
    BY <1>1, <1>2
  <2>3. QED
    BY <1>4, <2>1, <2>2
<1>6. n + 1 \in 0 .. Len(Contracts) /\ Head(rJob) \in STRING /\ Head(rJob) # "none"
  BY <1>1, <1>2, <1>4
<1>7. QED
  BY <1>3, <1>5, <1>6

\* Writing a row takes the contract off the run.
LEMMA VerdictKeeps ==
  ASSUME ReconciliationInv, rJob # <<>>, rJob # R!NoRun,
         NEW c \in STRING, NEW status \in {"match", "mismatch", "error"}, NEW e \in Int, NEW b \in Int,
         NEW ms \in SUBSET Moves, R!Verdict(c, status, e, b, ms)
  PROVE  /\ rResults' \in Seq(Verdicts) /\ rJob' \in Seq(STRING)
         /\ \E k \in 0 .. Len(Contracts) : rJob' = SubSeq(Contracts, k + 1, Len(Contracts))
         /\ Len(rResults') = Len(rResults) + 1
         /\ R!Last(rResults') = [contract |-> c, status |-> status, expected |-> e, balance |-> b, events |-> ms]
         /\ \A i \in DOMAIN rResults' : rResults'[i].status \in {"match", "mismatch", "error"}
<1> DEFINE row == [contract |-> c, status |-> status, expected |-> e, balance |-> b, events |-> ms]
<1>1. rResults' = Append(rResults, row) /\ rJob' = Tail(rJob)
  BY DEF R!Verdict
<1>2. row \in Verdicts
  BY DEF Verdicts
<1> HIDE DEF row
<1>3. rResults \in Seq(Verdicts) /\ rJob \in Seq(STRING)
  BY DEF ReconciliationInv
<1>4. rResults' \in Seq(Verdicts) /\ Len(rResults') = Len(rResults) + 1 /\ rResults'[Len(rResults')] = row
  BY <1>1, <1>2, <1>3
<1>5. \A i \in DOMAIN rResults' : rResults'[i].status \in {"match", "mismatch", "error"}
  <2>1. \A i \in DOMAIN rResults' : rResults'[i] \in Verdicts
    BY <1>4
  <2>2. QED
    BY <2>1 DEF Verdicts
<1>6. rJob' \in Seq(STRING)
  BY <1>1, <1>3
<1>7. PICK n \in 0 .. Len(Contracts) : rJob = SubSeq(Contracts, n + 1, Len(Contracts))
  BY DEF ReconciliationInv, R!TypeOK
<1>8. \E k \in 0 .. Len(Contracts) : rJob' = SubSeq(Contracts, k + 1, Len(Contracts))
  BY <1>1, <1>7, RestOfContracts
<1>9. R!Last(rResults') = row
  BY <1>4 DEF R!Last
<1>10. QED
  BY <1>4, <1>5, <1>6, <1>8, <1>9 DEF row

\* Taking the sums of a contract, or giving up on them.
LEMMA SumEventsKeeps ==
  ASSUME ReconciliationInv, R!SumEvents
  PROVE  ReconciliationInv' /\ (Len(rResults') > Len(rResults) => R!Last(rResults').status = "error")
<1> DEFINE c  == Head(rJob)
           ms == R!MovesOf(c, rStored)
<1>1. /\ rJob # R!NoRun /\ rJob # <<>> /\ rSums = R!NoSums /\ UNCHANGED <<rOnChain, rStored, rPruned>>
      /\ \/ R!Verdict(c, "error", 0, 0, ms) /\ UNCHANGED rSums
         \/ /\ rSums' = [contract |-> c, expected |-> R!SumOf(ms, R!Inflow) - R!SumOf(ms, R!Outflow), events |-> ms]
            /\ UNCHANGED <<rJob, rResults>>
  BY DEF R!SumEvents
<1>2. PICK n \in 0 .. Len(Contracts) : rJob = SubSeq(Contracts, n + 1, Len(Contracts))
  BY <1>1 DEF ReconciliationInv, R!TypeOK
<1>3. c \in STRING
  BY <1>1, <1>2, RestOfContracts
<1>4. ms \in SUBSET Moves /\ ms \subseteq R!MovesOf(c, rOnChain)
  BY DEF ReconciliationInv, R!TypeOK, R!MovesOf
<1>5. R!SumOf(ms, R!Inflow) \in Int /\ R!SumOf(ms, R!Outflow) \in Int
  BY <1>4, SumsOfMoves
<1> HIDE DEF ms
<1>6. CASE R!Verdict(c, "error", 0, 0, ms) /\ UNCHANGED rSums
  <2>1. /\ rResults' \in Seq(Verdicts) /\ rJob' \in Seq(STRING)
        /\ \E k \in 0 .. Len(Contracts) : rJob' = SubSeq(Contracts, k + 1, Len(Contracts))
        /\ R!Last(rResults') = [contract |-> c, status |-> "error", expected |-> 0, balance |-> 0, events |-> ms]
        /\ \A i \in DOMAIN rResults' : rResults'[i].status \in {"match", "mismatch", "error"}
    <3>1. /\ rJob # <<>> /\ rJob # R!NoRun /\ c \in STRING /\ ms \in SUBSET Moves
          /\ "error" \in {"match", "mismatch", "error"} /\ 0 \in Int
      BY <1>1, <1>3, <1>4
    <3> HIDE DEF c
    <3>2. QED
      BY <1>6, <3>1, VerdictKeeps, Zenon
  <2>2. R!TypeOK'
    BY <1>1, <1>6, <2>1 DEF ReconciliationInv, R!TypeOK
  <2>3. SumsInv'
    BY <1>1, <1>6 DEF SumsInv
  <2>4. QED
    BY <2>1, <2>2, <2>3 DEF ReconciliationInv
<1>7. CASE /\ rSums' = [contract |-> c, expected |-> R!SumOf(ms, R!Inflow) - R!SumOf(ms, R!Outflow), events |-> ms]
           /\ UNCHANGED <<rJob, rResults>>
  <2>1. rSums'.contract = Head(rJob) /\ rSums' \in Sums
    BY <1>3, <1>4, <1>5, <1>7 DEF Sums
  <2>2. R!TypeOK'
    BY <1>1, <1>7, <2>1 DEF ReconciliationInv, R!TypeOK
  <2>3. /\ rSums'.events = ms /\ rSums'.contract = c
        /\ rSums'.expected = R!SumOf(ms, R!Inflow) - R!SumOf(ms, R!Outflow)
    BY <1>7
  <2>5. /\ R!SumOf(rSums.events, R!Inflow)' = R!SumOf(ms, R!Inflow)
        /\ R!SumOf(rSums.events, R!Outflow)' = R!SumOf(ms, R!Outflow)
    BY <2>3 DEF R!SumOf, R!Inflow, R!Outflow
  <2>6. R!MovesOf(rSums.contract, rOnChain)' = R!MovesOf(c, rOnChain)
    BY <1>1, <2>3 DEF R!MovesOf
  <2>7. SumsInv'
    BY <1>4, <2>1, <2>3, <2>5, <2>6 DEF SumsInv
  <2>8. ~ (Len(rResults') > Len(rResults))
    BY <1>7 DEF ReconciliationInv
  <2>9. QED
    BY <1>7, <2>2, <2>7, <2>8 DEF ReconciliationInv
<1>8. QED
  BY <1>1, <1>6, <1>7

\* What the balance reader's answer says: a mismatch misses a move of some amount.
LEMMA BalanceAnswersKeeps ==
  ASSUME ReconciliationInv, R!BalanceAnswers
  PROVE  /\ ReconciliationInv'
         /\ R!Last(rResults').status = "mismatch" =>
              \E m \in R!MovesOf(R!Last(rResults').contract, rOnChain) \ R!Last(rResults').events : MoveOf[m].amount # 0
<1> DEFINE c      == rSums.contract
           E      == rSums.events
           A      == R!MovesOf(c, rOnChain)
           paidIn == R!SumOf(A, {"fund"})
           out    == R!SumOf(A, {"approve", "splitref"})
           status == IF R!Balance(c) = rSums.expected THEN "match" ELSE "mismatch"
<1>1. /\ rSums # R!NoSums /\ rSums' = R!NoSums /\ UNCHANGED <<rOnChain, rStored, rPruned>>
      /\ R!Verdict(c, status, rSums.expected, R!Balance(c), E)
  BY DEF R!BalanceAnswers
<1>2. rJob # R!NoRun /\ rJob # <<>>
  BY <1>1 DEF ReconciliationInv, R!TypeOK
<1>3. /\ c \in STRING /\ E \in SUBSET Moves /\ E \subseteq A /\ rSums.expected \in Int
      /\ rSums.expected = R!SumOf(E, R!Inflow) - R!SumOf(E, R!Outflow)
  BY <1>1 DEF ReconciliationInv, SumsInv, Sums
<1>4. A \in SUBSET Moves
  BY DEF ReconciliationInv, R!TypeOK, R!MovesOf
<1>5. R!Balance(c) = paidIn - out
  BY DEF R!Balance
<1>6. paidIn \in Int /\ out \in Int
  BY <1>4, SumsOfMoves
<1>7. ASSUME \A m \in A \ E : MoveOf[m].amount = 0 PROVE R!Balance(c) = rSums.expected
  <2>1. E \in SUBSET A
    BY <1>3
  <2>2. paidIn = R!SumOf(E, {"fund"}) /\ out = R!SumOf(E, {"approve", "splitref"})
    <3> HIDE DEF A, E
    <3>1. QED
      BY <1>4, <1>7, <2>1, SumsOfMoves
  <2>3. QED
    BY <1>3, <1>5, <2>2 DEF R!Inflow, R!Outflow
<1>8. status = "mismatch" => \E m \in A \ E : MoveOf[m].amount # 0
  BY <1>7
<1>9. /\ R!Balance(c) \in Int /\ status \in {"match", "mismatch", "error"}
      /\ rSums.expected \in Int
  BY <1>3, <1>5, <1>6
<1> HIDE DEF c, E, A, status
<1>10. /\ rResults' \in Seq(Verdicts) /\ rJob' \in Seq(STRING)
       /\ \E k \in 0 .. Len(Contracts) : rJob' = SubSeq(Contracts, k + 1, Len(Contracts))
       /\ R!Last(rResults') = [contract |-> c, status |-> status, expected |-> rSums.expected,
                               balance |-> R!Balance(c), events |-> E]
       /\ \A i \in DOMAIN rResults' : rResults'[i].status \in {"match", "mismatch", "error"}
  BY <1>1, <1>2, <1>3, <1>9, VerdictKeeps, Zenon
<1>11. /\ R!Last(rResults').status = status /\ R!Last(rResults').contract = c
       /\ R!Last(rResults').events = E
  BY <1>10
<1>12. R!TypeOK' /\ SumsInv'
  BY <1>1, <1>10 DEF ReconciliationInv, R!TypeOK, SumsInv
<1>13. R!Last(rResults').status = "mismatch" =>
         \E m \in R!MovesOf(R!Last(rResults').contract, rOnChain) \ R!Last(rResults').events : MoveOf[m].amount # 0
  BY <1>8, <1>11, Zenon DEF A
<1>14. QED
  BY <1>10, <1>12, <1>13 DEF ReconciliationInv

\* The balance reader throws: an error row.
LEMMA BalanceFailsKeeps ==
  ASSUME ReconciliationInv, R!BalanceFails
  PROVE  ReconciliationInv' /\ R!Last(rResults').status = "error"
<1>1. /\ rSums # R!NoSums /\ rSums' = R!NoSums /\ UNCHANGED <<rOnChain, rStored, rPruned>>
      /\ R!Verdict(rSums.contract, "error", rSums.expected, 0, rSums.events)
  BY DEF R!BalanceFails
<1>2. /\ rJob # R!NoRun /\ rJob # <<>> /\ rSums.contract \in STRING /\ rSums.events \in SUBSET Moves
      /\ rSums.expected \in Int /\ 0 \in Int /\ "error" \in {"match", "mismatch", "error"}
  BY <1>1 DEF ReconciliationInv, R!TypeOK, SumsInv, Sums
<1>3. /\ rResults' \in Seq(Verdicts) /\ rJob' \in Seq(STRING)
      /\ \E k \in 0 .. Len(Contracts) : rJob' = SubSeq(Contracts, k + 1, Len(Contracts))
      /\ R!Last(rResults') = [contract |-> rSums.contract, status |-> "error", expected |-> rSums.expected,
                              balance |-> 0, events |-> rSums.events]
      /\ \A i \in DOMAIN rResults' : rResults'[i].status \in {"match", "mismatch", "error"}
  BY <1>1, <1>2, VerdictKeeps, Zenon
<1>4. R!TypeOK' /\ SumsInv'
  BY <1>1, <1>3 DEF ReconciliationInv, R!TypeOK, SumsInv
<1>5. QED
  BY <1>3, <1>4 DEF ReconciliationInv

\* The run begins with all the contracts, and ends with none left.
LEMMA RunKeeps ==
  ASSUME ReconciliationInv, R!StartRun \/ R!EndRun
  PROVE  ReconciliationInv' /\ UNCHANGED rResults
<1>0. Contracts \in Seq(STRING)
  BY MovesAssumption
<1>1. CASE R!StartRun
  <2>1. rJob = R!NoRun /\ rJob' = Contracts /\ UNCHANGED <<rOnChain, rStored, rPruned, rSums, rResults>>
    BY <1>1 DEF R!StartRun
  <2>2. Contracts = SubSeq(Contracts, 0 + 1, Len(Contracts)) /\ 0 \in 0 .. Len(Contracts)
    BY <1>0
  <2>3. rSums = R!NoSums
    BY <2>1 DEF ReconciliationInv, R!TypeOK
  <2>4. R!TypeOK'
    BY <2>1, <2>2, <2>3 DEF ReconciliationInv, R!TypeOK
  <2>5. QED
    BY <1>0, <2>1, <2>3, <2>4 DEF ReconciliationInv, SumsInv
<1>2. CASE R!EndRun
  <2>1. rJob = <<>> /\ rJob' = R!NoRun /\ UNCHANGED <<rOnChain, rStored, rPruned, rSums, rResults>>
    BY <1>2 DEF R!EndRun
  <2>2. rSums = R!NoSums
    BY <2>1 DEF ReconciliationInv, R!TypeOK
  <2>3. R!TypeOK'
    BY <2>1, <2>2 DEF ReconciliationInv, R!TypeOK
  <2>4. QED
    BY <2>1, <2>2, <2>3 DEF ReconciliationInv, SumsInv
<1>3. QED
  BY <1>1, <1>2

\* A move, its event and its pruning leave the sums in hand as they are.
LEMMA MovesKeep ==
  ASSUME ReconciliationInv, NEW m \in Moves, R!Move(m) \/ R!Index(m) \/ R!Prune(m)
  PROVE  ReconciliationInv' /\ UNCHANGED rResults
<1>1. /\ rOnChain \subseteq rOnChain' /\ UNCHANGED <<rJob, rSums, rResults>>
      /\ rStored' \cup rPruned' \subseteq rOnChain' /\ rOnChain' \subseteq Moves /\ rStored' \cap rPruned' = {}
  <2>1. /\ rStored \cup rPruned \subseteq rOnChain /\ rOnChain \subseteq Moves /\ rStored \cap rPruned = {}
    BY DEF ReconciliationInv, R!TypeOK
  <2>2. CASE R!Move(m)
    BY <2>1, <2>2 DEF R!Move
  <2>3. CASE R!Index(m)
    BY <2>1, <2>3 DEF R!Index
  <2>4. CASE R!Prune(m)
    BY <2>1, <2>4 DEF R!Prune
  <2>5. QED
    BY <2>2, <2>3, <2>4
<1>2. R!MovesOf(rSums.contract, rOnChain) \subseteq R!MovesOf(rSums.contract, rOnChain)'
  BY <1>1 DEF R!MovesOf
<1>3. /\ R!SumOf(rSums.events, R!Inflow)' = R!SumOf(rSums.events, R!Inflow)
      /\ R!SumOf(rSums.events, R!Outflow)' = R!SumOf(rSums.events, R!Outflow)
  BY <1>1 DEF R!SumOf, R!Inflow, R!Outflow
<1>4. SumsInv'
  BY <1>1, <1>2, <1>3 DEF ReconciliationInv, SumsInv
<1>5. R!TypeOK'
  BY <1>1 DEF ReconciliationInv, R!TypeOK
<1>6. QED
  BY <1>1, <1>4, <1>5 DEF ReconciliationInv

\* Every step of the reconciliation keeps ReconciliationInv, and no step reports a
\* contract without a cause.
LEMMA ReconciliationStep ==
  ASSUME ReconciliationInv, [R!Next]_rVars
  PROVE  /\ ReconciliationInv'
         /\ Len(rResults') > Len(rResults) /\ R!Last(rResults').status = "mismatch" =>
              \E m \in R!MovesOf(R!Last(rResults').contract, rOnChain) \ R!Last(rResults').events : MoveOf[m].amount # 0
<1>1. CASE R!StartRun \/ R!EndRun
  BY <1>1, RunKeeps DEF ReconciliationInv
<1>2. CASE R!SumEvents
  BY <1>2, SumEventsKeeps
<1>3. CASE R!BalanceAnswers
  BY <1>3, BalanceAnswersKeeps
<1>4. CASE R!BalanceFails
  BY <1>4, BalanceFailsKeeps
<1>5. CASE \E m \in Moves : R!Move(m) \/ R!Index(m) \/ R!Prune(m)
  BY <1>5, MovesKeep DEF ReconciliationInv
<1>6. CASE UNCHANGED rVars
  <2>1. UNCHANGED <<rOnChain, rStored, rPruned, rJob, rSums, rResults>>
    BY <1>6 DEF rVars
  <2>2. R!TypeOK'
    BY <2>1 DEF ReconciliationInv, R!TypeOK
  <2>3. SumsInv'
    BY <2>1 DEF ReconciliationInv, SumsInv, R!SumOf, R!MovesOf, R!Inflow, R!Outflow
  <2>4. QED
    BY <2>1, <2>2, <2>3 DEF ReconciliationInv
<1>7. QED
  BY <1>1, <1>2, <1>3, <1>4, <1>5, <1>6 DEF R!Next

\* ReconciliationInv is an invariant.
LEMMA ReconciliationHolds == Spec => []ReconciliationInv
<1>1. Init => ReconciliationInv
  <2> SUFFICES ASSUME Init PROVE ReconciliationInv
    OBVIOUS
  <2>1. /\ rOnChain = {} /\ rStored = {} /\ rPruned = {}
        /\ rJob = R!NoRun /\ rSums = R!NoSums /\ rResults = <<>>
    BY DEF Init, R!Init
  <2>2. rResults \in Seq(Verdicts)
    BY <2>1
  <2>3. R!TypeOK
    BY <2>1 DEF R!TypeOK
  <2>4. QED
    BY <2>1, <2>2, <2>3 DEF ReconciliationInv, SumsInv
<1>2. ReconciliationInv /\ [Next]_vars => ReconciliationInv'
  BY ReconciliationStep, RSteps
<1>3. QED
  BY <1>1, <1>2, PTL DEF Spec

\* A contract is reported with a mismatch only if money of it had moved that the
\* events it summed do not hold (reconcileContract).
THEOREM MismatchesHaveCauses == Spec => MismatchHasACause
<1>1. ReconciliationInv /\ [Next]_vars =>
        [Len(rResults') > Len(rResults) /\ R!Last(rResults').status = "mismatch" =>
           \E m \in R!MovesOf(R!Last(rResults').contract, rOnChain) \ R!Last(rResults').events :
             MoveOf[m].amount # 0]_<<rOnChain, rStored, rPruned, rJob, rSums, rResults>>
  BY ReconciliationStep, RSteps
<1>2. QED
  BY <1>1, ReconciliationHolds, PTL DEF Spec, MismatchHasACause, R!MismatchHasACause, R!reconVars

(***************************************************************************)
(* The ledger range tracker: what RangeTrackerProofs shows of it alone.    *)
(***************************************************************************)

\* The tracker of the services is that of its proofs.
TP == INSTANCE RangeTrackerProofs WITH
  OnChain <- TrackedEvents, phase <- tPhase, range <- tRange,
  blockers <- tBlockers, active <- tActive, page <- tPage, attempt <- tAttempt,
  collected <- tCollected, inserted <- tInserted, events <- tEvents,
  pointer <- tPointer, failures <- tFailures

\* What is asked for is bounded and finite.
LEMMA ImportsAreBounded == TP!RequestsAreBounded /\ TP!SizesAreFinite
<1>1. TP!RequestsAreBounded
  BY ImportsAssumption, StoreAssumption DEF TP!RequestsAreBounded
<1>2. TP!SizesAreFinite
  BY ImportsAssumption, MigrationsAssumption DEF TP!SizesAreFinite, IsFiniteSet, TP!IsFiniteSet
<1>3. QED
  BY <1>1, <1>2

\* It begins as it does alone.
LEMMA TrackerBegins == T!Init => TP!Init
  BY Zenon DEF T!Init, TP!Init, T!NoRange, TP!NoRange, T!Undefined, TP!Undefined

\* Its steps are those it does alone.
LEMMA TrackerMoves == [T!Next]_tVars => [TP!Next]_(TP!rangeVars)
<1>1. ASSUME NEW i \in Imports, T!Step(i) PROVE TP!Step(i)
  BY <1>1, Zenon DEF T!Step, TP!Step,
    T!Start, TP!Start, T!Retry, TP!Retry, T!FetchPage, TP!FetchPage, T!FetchFails, TP!FetchFails,
    T!Persist, TP!Persist, T!PersistFails, TP!PersistFails, T!Fail, TP!Fail, T!TryLock, TP!TryLock,
    T!Lock, TP!Lock, T!Overlapping, TP!Overlapping, T!RangesOverlap, TP!RangesOverlap, T!Ended, TP!Ended,
    T!Pages, TP!Pages, T!ChunkLedgerRange, TP!ChunkLedgerRange, T!FilterToRange, TP!FilterToRange,
    T!InRange, TP!InRange, T!ResolveRange, TP!ResolveRange, T!OrElse, TP!OrElse, T!ValidRange, TP!ValidRange,
    T!DefaultStart, TP!DefaultStart, T!NoRange, TP!NoRange, T!Undefined, TP!Undefined,
    T!Cardinality, TP!Cardinality
<1>2. QED
  BY <1>1 DEF T!Next, TP!Next, TP!rangeVars, tVars

\* What its invariant says is what is asked of it here.
LEMMA TrackerSays == TP!TrackerInv => T!TypeOK /\ T!ImportIsCompleteAndCountedOnce
<1>1. TP!TypeOK => T!TypeOK
  BY Zenon DEF T!TypeOK, TP!TypeOK, T!NoRange, TP!NoRange, T!Undefined, TP!Undefined, T!ValidRange, TP!ValidRange,
     T!Phases, TP!Phases
<1>2. TP!ImportIsCompleteAndCountedOnce => T!ImportIsCompleteAndCountedOnce
  BY Zenon DEF T!ImportIsCompleteAndCountedOnce, TP!ImportIsCompleteAndCountedOnce, T!Total, TP!Total, T!The, TP!The,
     T!Cardinality, TP!Cardinality
<1>3. QED
  BY <1>1, <1>2, TP!TrackerInvSays

\* The tracker's invariant.
LEMMA TrackerHolds == Spec => [](T!TypeOK /\ T!ImportIsCompleteAndCountedOnce)
<1>1. Init => TP!TrackerInv
  BY ImportsAreBounded, TrackerBegins, TP!InitTrackerInv DEF Init
<1>2. TP!TrackerInv /\ [Next]_vars => TP!TrackerInv'
  BY ImportsAreBounded, TrackerMoves, TSteps, TP!TrackerStep
<1>3. QED
  BY <1>1, <1>2, TrackerSays, PTL DEF Spec

\* The tracker among the services implements the range lock: every import enters with
\* a range that no other one holds a ledger of, and leaves once (withOverlappingRangeLock).
THEOREM WorkExclusive == Spec => WorkIsExclusive
<1>1. Init => T!Exclusion!Init
  BY DEF Init, T!Init, T!Exclusion!Init, T!Exclusion!NoRange, T!Exclusion!Undefined, T!NoRange, T!Undefined, T!Working
<1>2. TP!LockInv /\ [Next]_vars =>
        [T!Exclusion!Next]_[i \in Imports |-> IF i \in T!Working THEN tRange[i] ELSE T!NoRange]
  <2> SUFFICES ASSUME TP!LockInv, [Next]_vars
               PROVE  [T!Exclusion!Next]_[i \in Imports |-> IF i \in T!Working THEN tRange[i] ELSE T!NoRange]
    OBVIOUS
  <2>1. TP!Exclusion!Next \/ TP!Holding' = TP!Holding
    BY ImportsAreBounded, TrackerMoves, TSteps, TP!EveryStepIsLockStep
  <2>2. /\ TP!Holding = [i \in Imports |-> IF i \in T!Working THEN tRange[i] ELSE T!NoRange]
        /\ TP!Holding' = [i \in Imports |-> IF i \in T!Working THEN tRange[i] ELSE T!NoRange]'
    BY DEF TP!Holding, TP!Working, T!Working, TP!NoRange, T!NoRange, TP!Undefined, T!Undefined
  <2>3. TP!Exclusion!Next => T!Exclusion!Next
    BY Zenon DEF TP!Exclusion!Next, T!Exclusion!Next, TP!Exclusion!Enter, T!Exclusion!Enter,
      TP!Exclusion!Leave, T!Exclusion!Leave, TP!Exclusion!Inside, T!Exclusion!Inside,
      TP!Exclusion!Disjoint, T!Exclusion!Disjoint, TP!Exclusion!InRange, T!Exclusion!InRange,
      TP!Exclusion!NoRange, T!Exclusion!NoRange, TP!Exclusion!Undefined, T!Exclusion!Undefined,
      TP!Working, T!Working, TP!NoRange, T!NoRange, TP!Undefined, T!Undefined
  <2>4. QED
    BY <2>1, <2>2, <2>3
<1>3. Init => TP!LockInv
  BY TrackerBegins, TP!InitLockInv DEF Init
<1>4. TP!LockInv /\ [Next]_vars => TP!LockInv'
  BY ImportsAreBounded, TrackerMoves, TSteps, TP!EveryStepIsLockStep
<1>5. QED
  BY <1>1, <1>2, <1>3, <1>4, PTL DEF Spec, WorkIsExclusive, T!WorkIsExclusive, T!Exclusion!Spec

(***************************************************************************)
(* The historical fetch: answers are the beginning of what is left of a    *)
(* page, so that the requests of a page reach as far as they count.        *)
(***************************************************************************)

\* The events of a chain from a ledger up to a position, and those of a range.
UpTo(c, start, x) == {q \in DOMAIN c : c[q] >= start /\ q <= x}
After(c, start, x) == {q \in DOMAIN c : c[q] >= start /\ q > x}
Within(c, r) == {q \in DOMAIN c : r.start <= c[q] /\ c[q] <= r.end}
Counted(c, r, n) == {q \in Within(c, r) : Cardinality(UpTo(c, r.start, q)) <= n}

\* The positions of a range up to one, and those of an answer.
Seen(c, r, x)   == {q \in Within(c, r) : q <= x}
Inside(c, r, batch) == {q \in batch : q \in Within(c, r)}

\* A chain is in the order of its ledgers.
Ordered(c) == c \in Seq(Int) /\ \A i, j \in DOMAIN c : i < j => c[i] <= c[j]

\* Sets of positions are finite, and less of them is no more.
LEMMA Positions ==
  ASSUME NEW c, Ordered(c), NEW set \in SUBSET DOMAIN c
  PROVE  /\ Len(c) \in Nat /\ DOMAIN c = 1 .. Len(c) /\ set \in SUBSET (0 .. Len(c))
         /\ IsFiniteSet(set) /\ Cardinality(set) \in Nat
         /\ \A sub \in SUBSET set : IsFiniteSet(sub) /\ Cardinality(sub) <= Cardinality(set)
<1>1. Len(c) \in Nat /\ DOMAIN c = 1 .. Len(c)
  BY DEF Ordered
<1>2. IsFiniteSet(1 .. Len(c))
  <2>1. 1 \in Int /\ Len(c) \in Int
    BY <1>1
  <2>2. QED
    BY <2>1, FS_Interval, Zenon
<1>3. IsFiniteSet(set)
  BY <1>1, <1>2, FS_Subset
<1>4. Cardinality(set) \in Nat
  BY <1>3, FS_CardinalityType
<1>5. \A sub \in SUBSET set : IsFiniteSet(sub) /\ Cardinality(sub) <= Cardinality(set)
  BY <1>3, FS_Subset
<1>6. set \in SUBSET (0 .. Len(c))
  BY <1>1
<1>7. QED
  BY <1>1, <1>3, <1>4, <1>5, <1>6

\* An answer counts on from where the last one ended.
LEMMA AnswerCountsOn ==
  ASSUME NEW c, Ordered(c), NEW start \in Int, NEW x \in 0 .. Len(c), NEW limit \in Nat,
         NEW batch, batch = FirstN(After(c, start, x), limit), batch # {}
  PROVE  /\ Max(batch) \in batch /\ Max(batch) > x /\ Max(batch) \in DOMAIN c /\ c[Max(batch)] >= start
         /\ UpTo(c, start, Max(batch)) = UpTo(c, start, x) \cup batch
         /\ Cardinality(UpTo(c, start, Max(batch))) = Cardinality(UpTo(c, start, x)) + Cardinality(batch)
<1> DEFINE A == After(c, start, x)
           U == UpTo(c, start, x)
<1>1. /\ A \in SUBSET DOMAIN c /\ U \in SUBSET DOMAIN c /\ batch \subseteq A
  BY FirstNFacts DEF After, UpTo
<1>2. /\ Len(c) \in Nat /\ DOMAIN c = 1 .. Len(c) /\ A \in SUBSET (0 .. Len(c)) /\ batch \in SUBSET (0 .. Len(c))
      /\ IsFiniteSet(batch) /\ IsFiniteSet(U) /\ Cardinality(U) \in Nat /\ Cardinality(batch) \in Nat
  BY <1>1, Positions
<1>3. \A i \in A \ batch, j \in batch : j < i
  <2> HIDE DEF A
  <2>1. QED
    BY <1>2, FirstNBegins DEF A
<1>4. Max(batch) \in batch /\ \A q \in batch : q <= Max(batch)
  BY <1>2, MaxProperty
<1>5. Max(batch) > x /\ Max(batch) \in DOMAIN c /\ c[Max(batch)] >= start
  BY <1>1, <1>4 DEF After
<1>6. UpTo(c, start, Max(batch)) = U \cup batch
  <2>1. ASSUME NEW q \in UpTo(c, start, Max(batch)) PROVE q \in U \cup batch
    <3>1. CASE q <= x
      BY <3>1 DEF UpTo
    <3>2. CASE ~ (q <= x)
      <4>1. q \in DOMAIN c /\ c[q] >= start /\ q <= Max(batch)
        BY DEF UpTo
      <4>2. q \in A /\ q \in Nat /\ Max(batch) \in Nat
        BY <1>2, <1>5, <3>2, <4>1 DEF After
      <4>3. CASE q \notin batch
        BY <1>3, <1>4, <4>1, <4>2, <4>3
      <4>4. QED
        BY <4>3
    <3>3. QED
      BY <3>1, <3>2
  <2>2. ASSUME NEW q \in U \cup batch PROVE q \in UpTo(c, start, Max(batch))
    <3>1. CASE q \in U
      BY <1>2, <1>5, <3>1 DEF UpTo
    <3>2. CASE q \in batch
      BY <1>1, <1>4, <3>2 DEF UpTo, After
    <3>3. QED
      BY <3>1, <3>2
  <2>3. QED
    BY <2>1, <2>2
<1>7. U \cap batch = {}
  BY <1>1, <1>2 DEF UpTo, After
<1>8. Cardinality(U \cup batch) = Cardinality(U) + Cardinality(batch)
  <2> HIDE DEF U, A
  <2>1. Cardinality({}) = 0
    BY FS_EmptySet
  <2>2. Cardinality(U \cup batch) = Cardinality(U) + Cardinality(batch) - Cardinality(U \cap batch)
    BY <1>2, FS_Union, Zenon
  <2>3. Cardinality(U \cap batch) = 0
    BY <1>7, <2>1, Zenon
  <2>4. Cardinality(U) \in Nat /\ Cardinality(batch) \in Nat
    BY <1>2
  <2> HIDE DEF A
  <2>5. QED
    BY <2>2, <2>3, <2>4
<1>9. QED
  BY <1>4, <1>5, <1>6, <1>8

\* The request number n + 1 of a page, of most, behind position x, is answered with batch.
IsAnswered(c, r, x, limit, most, n, batch) ==
  /\ Ordered(c) /\ r.start \in Int /\ r.end \in Int /\ x \in 0 .. Len(c)
  /\ limit \in Nat \ {0} /\ most \in Nat \ {0} /\ n \in 0 .. most - 1
  /\ Cardinality(UpTo(c, r.start, x)) = n * limit
  /\ batch = FirstN(After(c, r.start, x), limit)

\* After an answer the page is over, and what was kept of it is what its requests
\* count; or it goes on, and the answer was full and inside of it.
AnswerTells(c, r, x, limit, most, n, batch) ==
  /\ (Cardinality(batch) < limit \/ (\E q \in batch : c[q] > r.end) \/ n + 1 = most) =>
       Seen(c, r, x) \cup Inside(c, r, batch) = Counted(c, r, limit * most)
  /\ (~ (Cardinality(batch) < limit) /\ ~ (\E q \in batch : c[q] > r.end)) =>
       /\ batch # {} /\ Cardinality(UpTo(c, r.start, Max(batch))) = (n + 1) * limit
       /\ Seen(c, r, x) \cup Inside(c, r, batch) = Seen(c, r, Max(batch))

\* The requests of a page tell when it is over and what it kept.
LEMMA AnswerOfAPage ==
  ASSUME NEW c, NEW r, NEW x, NEW limit, NEW most, NEW n, NEW batch, IsAnswered(c, r, x, limit, most, n, batch)
  PROVE  AnswerTells(c, r, x, limit, most, n, batch)
<1>0. /\ Ordered(c) /\ r.start \in Int /\ r.end \in Int /\ x \in 0 .. Len(c)
      /\ limit \in Nat \ {0} /\ most \in Nat \ {0} /\ n \in 0 .. most - 1
      /\ Cardinality(UpTo(c, r.start, x)) = n * limit
      /\ batch = FirstN(After(c, r.start, x), limit)
  BY DEF IsAnswered
<1> USE <1>0
<1> DEFINE A == After(c, r.start, x)
           U == UpTo(c, r.start, x)
           kept == {q \in Within(c, r) : q <= x} \cup {q \in batch : q \in Within(c, r)}
<1>1. /\ A \in SUBSET DOMAIN c /\ U \in SUBSET DOMAIN c /\ batch \subseteq A
  BY FirstNFacts DEF After, UpTo
<1>2. /\ Len(c) \in Nat /\ DOMAIN c = 1 .. Len(c) /\ A \in SUBSET (0 .. Len(c))
      /\ Cardinality(U) \in Nat /\ IsFiniteSet(batch) /\ Cardinality(batch) \in Nat
  BY <1>1, Positions
<1>3. /\ \A i \in A \ batch, j \in batch : j < i
      /\ Cardinality(batch) < limit => batch = A
      /\ Cardinality(batch) <= limit
  <2> HIDE DEF A
  <2>1. QED
    BY <1>2, FirstNBegins, FirstNSize DEF A
<1>4. /\ n * limit \in Int /\ (n + 1) * limit = n * limit + limit
      /\ (n + 1) * limit <= limit * most
  <2>1. (n + 1) * limit <= most * limit
    BY Times
  <2>2. QED
    BY <2>1
<1>5. \A q \in DOMAIN c : Cardinality(UpTo(c, r.start, q)) \in Nat
  <2>1. \A q \in DOMAIN c : UpTo(c, r.start, q) \in SUBSET DOMAIN c
    BY DEF UpTo
  <2>2. QED
    BY <2>1, Positions
\* What is kept is counted.
<1>6. \A q \in U \cup batch : Cardinality(UpTo(c, r.start, q)) <= limit * most
  <2> SUFFICES ASSUME NEW q \in U \cup batch PROVE Cardinality(UpTo(c, r.start, q)) <= limit * most
    OBVIOUS
  <2>0. q \in DOMAIN c
    BY <1>1
  <2>1. CASE batch = {}
    <3>1. UpTo(c, r.start, q) \in SUBSET U
      BY <1>2, <2>0, <2>1 DEF UpTo
    <3>2. Cardinality(UpTo(c, r.start, q)) <= Cardinality(U)
      <4> HIDE DEF U
      <4>1. QED
        BY <1>1, <3>1, Positions
    <3>3. QED
      BY <1>4, <1>5, <2>0, <3>2
  <2>2. CASE batch # {}
    <3>1. /\ Max(batch) \in DOMAIN c /\ UpTo(c, r.start, Max(batch)) = U \cup batch
          /\ Cardinality(UpTo(c, r.start, Max(batch))) = Cardinality(U) + Cardinality(batch)
      BY <2>2, AnswerCountsOn
    <3>2. q <= Max(batch)
      BY <3>1 DEF UpTo
    <3>3. UpTo(c, r.start, q) \in SUBSET UpTo(c, r.start, Max(batch))
      BY <1>2, <2>0, <3>1, <3>2 DEF UpTo
    <3>4. Cardinality(UpTo(c, r.start, q)) <= Cardinality(UpTo(c, r.start, Max(batch)))
      <4>1. UpTo(c, r.start, Max(batch)) \in SUBSET DOMAIN c
        BY DEF UpTo
      <4>2. QED
        BY <3>3, <4>1, Positions
    <3> HIDE DEF U
    <3>5. Cardinality(UpTo(c, r.start, q)) <= n * limit + limit
      BY <1>2, <1>3, <1>5, <2>0, <3>1, <3>4 DEF U
    <3>6. QED
      <4> DEFINE size == Cardinality(UpTo(c, r.start, q))
                 all  == n * limit + limit
      <4>1. size \in Nat /\ limit * most \in Int /\ all \in Int /\ all <= limit * most
        BY <1>4, <1>5, <2>0
      <4>2. size <= all
        BY <3>5
      <4> HIDE DEF size, all
      <4>3. size <= limit * most
        BY <4>1, <4>2
      <4>4. QED
        BY <4>3 DEF size
  <2>3. QED
    BY <2>1, <2>2
<1>7. Within(c, r) \subseteq DOMAIN c /\ Within(c, r) \subseteq U \cup A
  BY <1>2 DEF Within, UpTo, After
<1>8. kept \subseteq Within(c, r) /\ kept \subseteq U \cup batch
  BY <1>7 DEF UpTo, After, Within
\* What is not kept is not counted, when the page is over.
<1>9. ASSUME Cardinality(batch) < limit \/ (\E q \in batch : c[q] > r.end) \/ n + 1 = most,
             NEW q \in Within(c, r), q \notin kept
      PROVE  ~ (Cardinality(UpTo(c, r.start, q)) <= limit * most)
  <2>1. q \in A \ batch
    BY <1>7, <1>9 DEF UpTo
  <2>2. \A b \in batch : b < q
    BY <1>3, <2>1
  <2>3. ~ (Cardinality(batch) < limit)
    BY <1>3, <2>1
  <2>4. ~ \E b \in batch : c[b] > r.end
    <3> SUFFICES ASSUME NEW b \in batch, c[b] > r.end PROVE FALSE
      OBVIOUS
    <3>1. b \in DOMAIN c /\ q \in DOMAIN c /\ b < q
      BY <1>1, <1>7, <2>2
    <3>2. c[b] <= c[q] /\ c[q] <= r.end /\ c[b] \in Int /\ c[q] \in Int
      BY <3>1 DEF Ordered, Within
    <3>3. QED
      BY <3>2
  <2>5. n + 1 = most /\ Cardinality(batch) = limit /\ batch # {}
    <3>1. Cardinality(batch) = limit
      BY <1>2, <1>3, <2>3
    <3>2. batch # {}
      BY <3>1, FS_EmptySet
    <3>3. QED
      BY <1>9, <2>3, <2>4, <3>1, <3>2
  <2>6. /\ Max(batch) \in batch /\ Max(batch) \in DOMAIN c
        /\ Cardinality(UpTo(c, r.start, Max(batch))) = Cardinality(U) + Cardinality(batch)
    BY <2>5, AnswerCountsOn
  <2>7. Max(batch) < q /\ q \in DOMAIN c /\ c[q] >= r.start
    BY <2>1, <2>2, <2>6 DEF After
  <2>8. UpTo(c, r.start, Max(batch)) \cup {q} \in SUBSET UpTo(c, r.start, q) /\ q \notin UpTo(c, r.start, Max(batch))
    BY <1>2, <2>6, <2>7 DEF UpTo
  <2>9. Cardinality(UpTo(c, r.start, Max(batch)) \cup {q}) = Cardinality(UpTo(c, r.start, Max(batch))) + 1
    <3>1. UpTo(c, r.start, Max(batch)) \in SUBSET DOMAIN c
      BY DEF UpTo
    <3>2. IsFiniteSet(UpTo(c, r.start, Max(batch)))
      BY <3>1, Positions
    <3>3. QED
      BY <2>8, <3>2, FS_AddElement
  <2>10. Cardinality(UpTo(c, r.start, Max(batch)) \cup {q}) <= Cardinality(UpTo(c, r.start, q))
    <3>1. UpTo(c, r.start, q) \in SUBSET DOMAIN c
      BY DEF UpTo
    <3>2. QED
      BY <2>8, <3>1, Positions
  <2>11. n * limit + limit = limit * most
    <3>1. (n + 1) * limit = most * limit
      BY <2>5
    <3>2. QED
      BY <1>4, <3>1
  <2> HIDE DEF U
  <2>12. Cardinality(UpTo(c, r.start, q)) >= n * limit + limit + 1
    BY <1>4, <1>5, <2>5, <2>6, <2>7, <2>9, <2>10 DEF U
  <2>13. QED
    BY <1>4, <1>5, <2>7, <2>11, <2>12
<1>10. Cardinality(batch) < limit \/ (\E q \in batch : c[q] > r.end) \/ n + 1 = most => kept = Counted(c, r, limit * most)
  <2> SUFFICES ASSUME Cardinality(batch) < limit \/ (\E q \in batch : c[q] > r.end) \/ n + 1 = most
               PROVE  kept = Counted(c, r, limit * most)
    OBVIOUS
  <2>1. \A q \in Within(c, r) : q \in kept <=> Cardinality(UpTo(c, r.start, q)) <= limit * most
    <3> HIDE DEF kept, U
    <3>1. QED
      BY <1>6, <1>8, <1>9
  <2> HIDE DEF kept
  <2>2. QED
    BY <1>8, <2>1 DEF Counted
<1>11. ASSUME ~ (Cardinality(batch) < limit), ~ \E q \in batch : c[q] > r.end
       PROVE  /\ batch # {} /\ Cardinality(UpTo(c, r.start, Max(batch))) = (n + 1) * limit
              /\ kept = {q \in Within(c, r) : q <= Max(batch)}
  <2>1. Cardinality(batch) = limit /\ batch # {}
    <3>1. Cardinality(batch) = limit
      BY <1>2, <1>3, <1>11
    <3>2. batch # {}
      BY <3>1, FS_EmptySet
    <3>3. QED
      BY <3>1, <3>2
  <2>2. /\ Max(batch) > x /\ Max(batch) \in DOMAIN c /\ UpTo(c, r.start, Max(batch)) = U \cup batch
        /\ Cardinality(UpTo(c, r.start, Max(batch))) = Cardinality(U) + Cardinality(batch)
    BY <2>1, AnswerCountsOn
  <2>3. ASSUME NEW q \in Within(c, r) PROVE q \in kept <=> q <= Max(batch)
    <3>1. q <= Max(batch) <=> q \in UpTo(c, r.start, Max(batch))
      BY <1>2, <2>2 DEF Within, UpTo
    <3>2. q \in kept <=> q \in U \/ q \in batch
      BY <1>2 DEF Within, UpTo
    <3>3. QED
      BY <2>2, <3>1, <3>2
  <2>4. kept = {q \in Within(c, r) : q <= Max(batch)}
    <3> HIDE DEF kept
    <3>1. QED
      BY <1>8, <2>3
  <2>5. QED
    BY <1>4, <2>1, <2>2, <2>4
<1>12. kept = Seen(c, r, x) \cup Inside(c, r, batch) /\ Seen(c, r, Max(batch)) = {q \in Within(c, r) : q <= Max(batch)}
  BY DEF Seen, Inside
<1> HIDE DEF kept
<1>13. QED
  BY <1>10, <1>11, <1>12 DEF AnswerTells

\* The pages of the range that is wanted.
Page(k) == H!Pages[k]
Gathered(c, n) == UNION {Counted(c, Page(k), Limit * MaxRequests) : k \in 1 .. n}
Ascending(s) == \A a, b \in DOMAIN s : a < b => s[a] < s[b]

\* What is fetched is what the pages behind count, and the page in progress up to the
\* cursor; and up to the cursor there are as many events as were asked for.
FetchInv ==
  /\ hChain \in Chains /\ hStatus \in {"running", "done", "failed"}
  /\ hPageNo \in 1 .. Len(H!Pages) + 1 /\ hCursor \in 0 .. Len(hChain)
  /\ hRequest \in 0 .. MaxRequests - 1 /\ hAttempt \in 0 .. MaxRetries
  /\ hFetched \in Seq(DOMAIN hChain) /\ Ascending(hFetched)
  /\ H!ToSet(hFetched) = Gathered(hChain, hPageNo - 1) \cup Seen(hChain, Page(hPageNo), hCursor)
  /\ hStatus = "running" =>
       /\ hPageNo <= Len(H!Pages)
       /\ hCursor # 0 => hChain[hCursor] >= Page(hPageNo).start
       /\ Cardinality(UpTo(hChain, Page(hPageNo).start, hCursor)) = hRequest * Limit
  /\ hStatus = "done" => hPageNo = Len(H!Pages) + 1 /\ hCursor = 0

\* Pages follow each other.
LEMMA WantedPages ==
  /\ Len(H!Pages) \in Nat \ {0} /\ DOMAIN H!Pages = 1 .. Len(H!Pages)
  /\ \A k \in 1 .. Len(H!Pages) : Page(k).start \in Int /\ Page(k).end \in Int
  /\ \A j, k \in 1 .. Len(H!Pages) : j < k => Page(j).end < Page(k).start
<1> DEFINE s == Wanted.start
           t == Wanted.end
           n == (t - s) \div PageSize
<1>1. s \in Int /\ t \in Int /\ s <= t /\ PageSize \in Nat \ {0}
  BY FetchAssumption, ImportsAssumption
<1>2. H!Pages = [k \in 1 .. n + 1 |->
        [start |-> s + (k - 1) * PageSize,
         end   |-> IF s + (k - 1) * PageSize + PageSize - 1 < t THEN s + (k - 1) * PageSize + PageSize - 1 ELSE t]]
  BY DEF H!Pages, H!ChunkLedgerRange
<1> HIDE DEF s, t
<1>3. n \in Nat
  BY <1>1, PagesCover
<1> HIDE DEF n
<1>4. /\ Len(H!Pages) = n + 1 /\ DOMAIN H!Pages = 1 .. n + 1
      /\ \A k \in 1 .. n + 1 :
           /\ Page(k).start = s + (k - 1) * PageSize
           /\ Page(k).end =
                IF s + (k - 1) * PageSize + PageSize - 1 < t THEN s + (k - 1) * PageSize + PageSize - 1 ELSE t
  BY <1>2, <1>3 DEF Page
<1>5. ASSUME NEW k \in 1 .. n + 1 PROVE Page(k).start \in Int /\ Page(k).end \in Int
  <2>1. (k - 1) * PageSize \in Int
    BY <1>1, <1>3
  <2>2. /\ Page(k).start = s + (k - 1) * PageSize
        /\ Page(k).end =
             IF s + (k - 1) * PageSize + PageSize - 1 < t THEN s + (k - 1) * PageSize + PageSize - 1 ELSE t
    BY <1>4
  <2>3. QED
    BY <1>1, <2>1, <2>2
<1>6. ASSUME NEW j \in 1 .. n + 1, NEW k \in 1 .. n + 1, j < k PROVE Page(j).end < Page(k).start
  <2>1. /\ Page(k).start = s + (k - 1) * PageSize
        /\ Page(j).end =
             IF s + (j - 1) * PageSize + PageSize - 1 < t THEN s + (j - 1) * PageSize + PageSize - 1 ELSE t
    BY <1>4
  <2>2. (j - 1) * PageSize + PageSize <= (k - 1) * PageSize
    <3>1. j <= k - 1 /\ j \in Int /\ k - 1 \in Int
      BY <1>3, <1>6
    <3>2. j * PageSize <= (k - 1) * PageSize
      BY <1>1, <3>1, Times
    <3>3. (j - 1) * PageSize + PageSize = j * PageSize
      BY <1>1, <3>1
    <3>4. QED
      BY <3>2, <3>3
  <2>3. (j - 1) * PageSize \in Int /\ (k - 1) * PageSize \in Int
    BY <1>1, <1>3
  <2>4. QED
    BY <1>1, <2>1, <2>2, <2>3
<1>7. QED
  BY <1>3, <1>4, <1>5, <1>6

\* The operators the fetch is written with are those of the lemmas.
LEMMA OperatorsOfFetch ==
  /\ \A set : H!Cardinality(set) = Cardinality(set) /\ H!Max(set) = Max(set)
  /\ \A set, n : H!FirstN(set, n) = FirstN(set, n)
  /\ \A set : H!Listings(set) = Listings(set)
<1>1. \A set : H!Cardinality(set) = Cardinality(set)
  BY Zenon DEF H!Cardinality, Cardinality
<1>2. \A set : H!Max(set) = Max(set)
  BY Zenon DEF H!Max, Max
<1>3. \A set, n : H!FirstN(set, n) = FirstN(set, n)
  BY Zenon DEF H!FirstN, FirstN, H!Cardinality, Cardinality
<1>4. \A set : H!Listings(set) = Listings(set)
  BY Zenon DEF H!Listings, Listings, H!Cardinality, Cardinality
<1>5. QED
  BY <1>1, <1>2, <1>3, <1>4

\* Appending what lies behind keeps a list in order.
LEMMA Appending ==
  ASSUME NEW n \in Nat, NEW s \in Seq(1 .. n), Ascending(s), NEW K \in SUBSET (1 .. n), NEW f \in Listings(K),
         \A i \in DOMAIN s, q \in K : s[i] < q
  PROVE  /\ s \o f \in Seq(1 .. n) /\ Ascending(s \o f)
         /\ H!ToSet(s \o f) = H!ToSet(s) \cup K
<1> DEFINE k == Cardinality(K)
           m == Len(s)
<1>1. IsFiniteSet(K) /\ K \subseteq Nat
  <2>1. 1 \in Int /\ n \in Int
    OBVIOUS
  <2>2. IsFiniteSet(1 .. n)
    BY <2>1, FS_Interval, Zenon
  <2>3. IsFiniteSet(K)
    BY <2>2, FS_Subset
  <2>4. QED
    BY <2>3
<1>2. /\ k \in Nat /\ f \in [1 .. k -> K] /\ \A x \in K : \E a \in 1 .. k : f[a] = x
  BY <1>1, ListingFacts
<1>3. \A a, b \in 1 .. k : a < b => f[a] < f[b]
  BY <1>2 DEF Listings
<1> HIDE DEF k
<1>4. m \in Nat /\ DOMAIN s = 1 .. m /\ f \in Seq(1 .. n) /\ Len(f) = k
  <2>1. f \in [1 .. k -> 1 .. n]
    BY <1>2
  <2>2. QED
    BY <1>2, <2>1
<1>5. /\ s \o f \in Seq(1 .. n) /\ Len(s \o f) = m + k /\ DOMAIN (s \o f) = 1 .. m + k
      /\ \A i \in 1 .. m + k : (s \o f)[i] = IF i <= m THEN s[i] ELSE f[i - m]
  <2>0. s \in Seq(1 .. n) /\ f \in Seq(1 .. n)
    BY <1>4
  <2>1. s \o f \in Seq(1 .. n)
    BY <2>0
  <2>2. Len(s \o f) = m + k
    <3>1. Len(s \o f) = Len(s) + Len(f)
      BY <2>0
    <3>2. QED
      BY <1>4, <3>1
  <2>3. DOMAIN (s \o f) = 1 .. m + k
    BY <2>1, <2>2
  <2>4. \A i \in 1 .. m + k : (s \o f)[i] = IF i <= m THEN s[i] ELSE f[i - m]
    BY <1>2, <1>4
  <2>5. QED
    BY <2>1, <2>2, <2>3, <2>4
<1> DEFINE z == s \o f
<1> HIDE DEF z, m
<1>6. /\ z \in Seq(1 .. n) /\ DOMAIN z = 1 .. m + k
      /\ \A i \in 1 .. m : z[i] = s[i] /\ s[i] \in 1 .. n
      /\ \A i \in 1 .. k : z[m + i] = f[i] /\ f[i] \in K
  BY <1>2, <1>4, <1>5 DEF z, m
<1>7. ASSUME NEW a \in 1 .. m + k, NEW b \in 1 .. m + k, a < b PROVE z[a] < z[b]
  <2>1. CASE b <= m
    <3>1. a \in 1 .. m /\ b \in 1 .. m
      BY <1>2, <1>4, <1>7, <2>1
    <3>2. s[a] < s[b]
      BY <1>4, <1>7, <3>1 DEF Ascending
    <3>3. QED
      BY <1>6, <3>1, <3>2
  <2>2. CASE m < a
    <3>1. PICK i \in 1 .. k, j \in 1 .. k : a = m + i /\ b = m + j /\ i < j
      <4>1. a - m \in 1 .. k /\ b - m \in 1 .. k /\ a = m + (a - m) /\ b = m + (b - m) /\ a - m < b - m
        BY <1>2, <1>4, <1>7, <2>2
      <4>2. QED
        BY <4>1
    <3>2. QED
      BY <1>3, <1>6, <3>1
  <2>3. CASE a <= m /\ m < b
    <3>1. PICK j \in 1 .. k : b = m + j
      <4>1. b - m \in 1 .. k /\ b = m + (b - m)
        BY <1>2, <1>4, <2>3
      <4>2. QED
        BY <4>1
    <3>2. a \in 1 .. m
      BY <1>2, <1>4, <2>3
    <3>3. QED
      BY <1>4, <1>6, <3>1, <3>2
  <2>4. QED
    BY <1>2, <1>4, <2>1, <2>2, <2>3
<1>8. \A x : x \in H!ToSet(z) <=> x \in H!ToSet(s) \cup K
  <2>1. H!ToSet(z) = {z[i] : i \in 1 .. m + k} /\ H!ToSet(s) = {s[i] : i \in 1 .. m}
    BY <1>4, <1>6 DEF H!ToSet
  <2>2. ASSUME NEW i \in 1 .. m + k PROVE z[i] \in {s[j] : j \in 1 .. m} \cup K
    <3>1. CASE i <= m
      BY <1>4, <1>6, <3>1
    <3>2. CASE ~ (i <= m)
      <4>1. i - m \in 1 .. k /\ i = m + (i - m)
        BY <1>2, <1>4, <3>2
      <4>2. PICK j \in 1 .. k : i = m + j
        BY <4>1
      <4>3. QED
        BY <1>6, <4>2
    <3>3. QED
      BY <3>1, <3>2
  <2>3. ASSUME NEW i \in 1 .. m PROVE \E j \in 1 .. m + k : z[j] = s[i]
    BY <1>2, <1>4, <1>6
  <2>4. ASSUME NEW x \in K PROVE \E j \in 1 .. m + k : z[j] = x
    <3>1. PICK i \in 1 .. k : f[i] = x
      BY <1>2
    <3>2. m + i \in 1 .. m + k
      BY <1>2, <1>4
    <3>3. QED
      BY <1>6, <3>1, <3>2
  <2>5. {z[i] : i \in 1 .. m + k} \subseteq {s[i] : i \in 1 .. m} \cup K
    BY <2>2
  <2>6. {s[i] : i \in 1 .. m} \subseteq {z[i] : i \in 1 .. m + k}
    <3>1. ASSUME NEW i \in 1 .. m PROVE s[i] \in {z[j] : j \in 1 .. m + k}
      <4>1. PICK j \in 1 .. m + k : z[j] = s[i]
        BY <2>3
      <4>2. QED
        BY <4>1
    <3>2. QED
      BY <3>1
  <2>7. K \subseteq {z[i] : i \in 1 .. m + k}
    <3>1. ASSUME NEW x \in K PROVE x \in {z[j] : j \in 1 .. m + k}
      <4>1. PICK j \in 1 .. m + k : z[j] = x
        BY <2>4
      <4>2. QED
        BY <4>1
    <3>2. QED
      BY <3>1
  <2> DEFINE zs == {z[i] : i \in 1 .. m + k}
             ss == {s[i] : i \in 1 .. m}
  <2> HIDE DEF zs, ss
  <2>8. zs = ss \cup K
    BY <2>5, <2>6, <2>7 DEF zs, ss
  <2>9. QED
    BY <2>1, <2>8, Zenon DEF zs, ss
<1>9. QED
  <2>1. Ascending(z)
    BY <1>6, <1>7 DEF Ascending
  <2>2. H!ToSet(z) = H!ToSet(s) \cup K
    BY <1>8
  <2>3. QED
    BY <1>6, <2>1, <2>2 DEF z

\* A request that is answered: the page goes on, or the next one begins.
LEMMA RequestKeeps ==
  ASSUME FetchInv, H!Request
  PROVE  FetchInv'
<1> DEFINE c     == hChain
           r     == Page(hPageNo)
           batch == FirstN(After(c, r.start, hCursor), Limit)
           most  == Limit * MaxRequests
           keep  == Inside(c, r, batch)
           over  == Cardinality(batch) < Limit \/ (\E q \in batch : c[q] > r.end) \/ hRequest + 1 = MaxRequests
           next  == IF batch = {} THEN 0 ELSE Max(batch)
<1>0. Len(H!Pages) \in Nat \ {0}
  BY WantedPages
<1>1. /\ hStatus = "running" /\ hPageNo \in 1 .. Len(H!Pages)
      /\ hCursor # 0 => c[hCursor] >= r.start
      /\ Cardinality(UpTo(c, r.start, hCursor)) = hRequest * Limit
      /\ hRequest \in 0 .. MaxRequests - 1 /\ hCursor \in 0 .. Len(c)
  BY <1>0 DEF FetchInv, H!Request
<1>2. Ordered(c) /\ c \in Chains /\ r.start \in Int /\ r.end \in Int /\ Limit \in Nat \ {0} /\ MaxRequests \in Nat \ {0}
  BY <1>1, FetchAssumption, WantedPages DEF FetchInv, Ordered
<1>3. /\ Len(c) \in Nat /\ DOMAIN c = 1 .. Len(c)
  BY <1>2 DEF Ordered
\* The model's answer, in the terms of the lemmas.
<1>4. H!Answer = batch
  <2>1. {p \in DOMAIN c : IF hCursor = 0 THEN c[p] >= r.start ELSE p > hCursor} = After(c, r.start, hCursor)
    <3>1. ASSUME NEW p \in DOMAIN c
          PROVE  (IF hCursor = 0 THEN c[p] >= r.start ELSE p > hCursor) <=> c[p] >= r.start /\ p > hCursor
      <4>1. CASE hCursor = 0
        BY <1>3, <4>1
      <4>2. CASE hCursor # 0
        <5>1. p > hCursor => c[p] >= r.start
          <6>1. p > hCursor => c[hCursor] <= c[p] /\ c[hCursor] \in Int /\ c[p] \in Int
            <7>1. hCursor \in DOMAIN c /\ hCursor \in Int /\ p \in Int
              BY <1>1, <1>3, <4>2
            <7>2. c \in Seq(Int) /\ \A i, j \in DOMAIN c : i < j => c[i] <= c[j]
              BY <1>2 DEF Ordered
            <7> HIDE DEF c
            <7>3. c[hCursor] \in Int /\ c[p] \in Int
              BY <7>1, <7>2
            <7>4. p > hCursor => c[hCursor] <= c[p]
              BY <7>1, <7>2
            <7>5. QED
              BY <7>3, <7>4
          <6>2. QED
            BY <1>1, <1>2, <4>2, <6>1
        <5>2. QED
          BY <4>2, <5>1
      <4>3. QED
        BY <4>1, <4>2
    <3>2. QED
      BY <3>1 DEF After
  <2>2. H!Answer = FirstN({p \in DOMAIN c : IF hCursor = 0 THEN c[p] >= r.start ELSE p > hCursor}, Limit)
    BY OperatorsOfFetch DEF H!Answer, Page
  <2>3. QED
    BY <2>1, <2>2
<1>5. /\ batch \in SUBSET DOMAIN c /\ \A q \in batch : q > hCursor /\ c[q] >= r.start
      /\ batch # {} => Max(batch) > hCursor /\ Max(batch) \in DOMAIN c /\ c[Max(batch)] >= r.start
  <2>1. batch \subseteq After(c, r.start, hCursor)
    BY FirstNFacts
  <2>2. batch # {} => Max(batch) > hCursor /\ Max(batch) \in DOMAIN c /\ c[Max(batch)] >= r.start
    <3> HIDE DEF batch, r, c
    <3>1. Limit \in Nat /\ batch = FirstN(After(c, r.start, hCursor), Limit)
      BY <1>2 DEF batch
    <3>2. QED
      BY <1>1, <1>2, <3>1, AnswerCountsOn
  <2>3. QED
    BY <2>1, <2>2 DEF After
<1> HIDE DEF batch, r
<1>6. /\ over => Seen(c, r, hCursor) \cup keep = Counted(c, r, most)
      /\ ~ over => /\ batch # {} /\ Cardinality(UpTo(c, r.start, Max(batch))) = (hRequest + 1) * Limit
                   /\ Seen(c, r, hCursor) \cup keep = Seen(c, r, Max(batch))
  <2>1. batch = FirstN(After(c, r.start, hCursor), Limit)
    BY DEF batch
  <2> HIDE DEF c
  <2>2. /\ Ordered(c) /\ r.start \in Int /\ r.end \in Int /\ hCursor \in 0 .. Len(c)
        /\ Limit \in Nat \ {0} /\ MaxRequests \in Nat \ {0} /\ hRequest \in 0 .. MaxRequests - 1
        /\ Cardinality(UpTo(c, r.start, hCursor)) = hRequest * Limit
    BY <1>1, <1>2
  <2>3. IsAnswered(c, r, hCursor, Limit, MaxRequests, hRequest, batch)
    BY <2>1, <2>2 DEF IsAnswered
  <2>4. /\ Cardinality(batch) < Limit \/ (\E q \in batch : c[q] > r.end) \/ hRequest + 1 = MaxRequests =>
             Seen(c, r, hCursor) \cup Inside(c, r, batch) = Counted(c, r, Limit * MaxRequests)
        /\ ~ (Cardinality(batch) < Limit) /\ ~ (\E q \in batch : c[q] > r.end) =>
             /\ batch # {} /\ Cardinality(UpTo(c, r.start, Max(batch))) = (hRequest + 1) * Limit
             /\ Seen(c, r, hCursor) \cup Inside(c, r, batch) = Seen(c, r, Max(batch))
    <3>1. AnswerTells(c, r, hCursor, Limit, MaxRequests, hRequest, batch)
      BY <2>3, AnswerOfAPage, Zenon
    <3>2. QED
      BY <3>1, Zenon DEF AnswerTells
  <2>5. QED
    BY <2>4, Zenon
\* What is fetched lies before what is kept.
<1>7. \A i \in DOMAIN hFetched, q \in keep : hFetched[i] < q
  <2> SUFFICES ASSUME NEW i \in DOMAIN hFetched, NEW q \in keep PROVE hFetched[i] < q
    OBVIOUS
  <2>1. hFetched[i] \in H!ToSet(hFetched) /\ hFetched[i] \in DOMAIN c
    BY DEF FetchInv, H!ToSet
  <2>2. q \in DOMAIN c /\ q > hCursor /\ c[q] >= r.start
    BY <1>5 DEF Inside
  <2>3. CASE hFetched[i] <= hCursor
    BY <1>1, <1>3, <2>1, <2>2, <2>3
  <2>4. CASE hFetched[i] \in Gathered(c, hPageNo - 1)
    <3>1. PICK k \in 1 .. hPageNo - 1 : hFetched[i] \in Counted(c, Page(k), Limit * MaxRequests)
      BY <2>4 DEF Gathered
    <3>2. c[hFetched[i]] <= Page(k).end
      BY <3>1 DEF Counted, Within
    <3>3. Page(k).end < r.start /\ Page(k).end \in Int
      BY <1>1, <3>1, WantedPages DEF r
    <3>4. c[hFetched[i]] < c[q]
      BY <1>2, <2>1, <2>2, <3>2, <3>3 DEF Ordered
    <3>5. QED
      BY <1>2, <1>3, <2>1, <2>2, <3>4 DEF Ordered
  <2>5. QED
    BY <2>1, <2>3, <2>4 DEF FetchInv, Seen
<1>8. H!Kept(batch) = keep
  <2>1. \A q \in keep : q \notin H!ToSet(hFetched)
    <3>1. ASSUME NEW q \in keep, q \in H!ToSet(hFetched) PROVE FALSE
      <4>1. PICK i \in DOMAIN hFetched : hFetched[i] = q
        BY <3>1 DEF H!ToSet
      <4>2. q < q /\ q \in Int
        BY <1>3, <1>5, <1>7, <4>1 DEF Inside
      <4>3. QED
        BY <4>2
    <3>2. QED
      BY <3>1
  <2>2. H!Kept(batch) = {p \in batch : (r.start <= c[p] /\ c[p] <= r.end) /\ p \notin H!ToSet(hFetched)}
    BY DEF H!Kept, H!InRange, Page, r
  <2>3. QED
    BY <1>5, <2>1, <2>2 DEF Within, Inside
<1>9. PICK order \in Listings(keep) : hFetched' = hFetched \o order
  BY <1>4, <1>8, OperatorsOfFetch DEF H!Request
<1>10. /\ hFetched' \in Seq(DOMAIN c) /\ Ascending(hFetched') /\ H!ToSet(hFetched') = H!ToSet(hFetched) \cup keep
  <2>1. keep \in SUBSET (1 .. Len(c)) /\ hFetched \in Seq(1 .. Len(c)) /\ Ascending(hFetched)
    BY <1>3, <1>5 DEF FetchInv, Inside
  <2> HIDE DEF keep, c
  <2>2. /\ hFetched \o order \in Seq(1 .. Len(c)) /\ Ascending(hFetched \o order)
        /\ H!ToSet(hFetched \o order) = H!ToSet(hFetched) \cup keep
    BY <1>3, <1>7, <2>1, Appending
  <2>3. QED
    BY <1>3, <1>9, <2>2
<1>11. /\ hPageNo' = IF over THEN hPageNo + 1 ELSE hPageNo
       /\ hCursor' = IF over THEN 0 ELSE next
       /\ hRequest' = IF over THEN 0 ELSE hRequest + 1
       /\ hStatus' = IF over /\ hPageNo = Len(H!Pages) THEN "done" ELSE "running"
       /\ hAttempt' = 0 /\ hChain' = hChain
  <2>1. H!NextCursor(batch) = next
    BY OperatorsOfFetch DEF H!NextCursor
  <2>2. H!IsDone(batch) <=> Cardinality(batch) < Limit \/ \E q \in batch : c[q] > r.end
    BY OperatorsOfFetch DEF H!IsDone, Page, r
  <2>3. batch = {} => Cardinality(batch) < Limit
    BY <1>2, FS_EmptySet
  <2>4. next = hCursor => batch = {}
    BY <1>1, <1>3, <1>5
  <2>5. (H!IsDone(batch) \/ batch = {} \/ next = hCursor \/ hRequest + 1 = MaxRequests) <=> over
    BY <2>2, <2>3, <2>4
  <2> HIDE DEF over, next
  <2>6. QED
    BY <1>4, <2>1, <2>5 DEF H!Request
<1>12. H!ToSet(hFetched') = Gathered(c, hPageNo - 1) \cup Seen(c, r, hCursor) \cup keep
  BY <1>10 DEF FetchInv, r
<1>13. hPageNo \in Nat \ {0} /\ Len(H!Pages) \in Nat
  BY <1>1, WantedPages
<1>14. hAttempt' \in 0 .. MaxRetries
  BY <1>11, MigrationsAssumption
<1> HIDE DEF keep, next
<1>15. CASE over
  <2>1. /\ hPageNo' = hPageNo + 1 /\ hCursor' = 0 /\ hRequest' = 0 /\ hChain' = c
        /\ hStatus' = IF hPageNo = Len(H!Pages) THEN "done" ELSE "running"
    BY <1>11, <1>15
  <2>2. Gathered(c, hPageNo) = Gathered(c, hPageNo - 1) \cup Counted(c, r, most)
    <3>1. 1 .. hPageNo = (1 .. hPageNo - 1) \cup {hPageNo}
      BY <1>13
    <3>2. QED
      BY <3>1 DEF Gathered, r
  <2>3. hPageNo' - 1 = hPageNo
    BY <1>13, <2>1
  <2>4. \A k : Seen(c, Page(k), 0) = {} /\ UpTo(c, Page(k).start, 0) = {}
    BY <1>3 DEF Within, UpTo, Seen
  <2>5. H!ToSet(hFetched') = Gathered(c, hPageNo)
    BY <1>6, <1>12, <1>15, <2>2
  <2>6. H!ToSet(hFetched') = Gathered(hChain', hPageNo' - 1) \cup Seen(hChain', Page(hPageNo'), hCursor')
    BY <2>1, <2>3, <2>4, <2>5
  <2>7. Cardinality(UpTo(hChain', Page(hPageNo').start, hCursor')) = hRequest' * Limit
    <3>1. UpTo(hChain', Page(hPageNo').start, hCursor') = {}
      BY <2>1, <2>4
    <3>2. Cardinality({}) = 0 /\ 0 * Limit = 0
      BY <1>2, FS_EmptySet
    <3>3. QED
      BY <2>1, <3>1, <3>2
  <2>8. /\ hPageNo' \in 1 .. Len(H!Pages) + 1 /\ hCursor' \in 0 .. Len(hChain') /\ hRequest' \in 0 .. MaxRequests - 1
        /\ hStatus' = "running" => hPageNo' <= Len(H!Pages)
        /\ hStatus' = "done" => hPageNo' = Len(H!Pages) + 1
        /\ hStatus' \in {"running", "done", "failed"}
    BY <1>1, <1>2, <1>3, <1>13, <2>1
  <2>9. QED
    BY <1>2, <1>10, <1>14, <2>1, <2>6, <2>7, <2>8 DEF FetchInv, Page, Gathered
<1>16. CASE ~ over
  <2>1. batch # {} /\ next = Max(batch)
    BY <1>6, <1>16 DEF next
  <2>2. /\ hPageNo' = hPageNo /\ hCursor' = Max(batch) /\ hRequest' = hRequest + 1 /\ hChain' = c
        /\ hStatus' = "running"
    BY <1>11, <1>16, <2>1
  <2>3. H!ToSet(hFetched') = Gathered(hChain', hPageNo' - 1) \cup Seen(hChain', Page(hPageNo'), hCursor')
    BY <1>6, <1>12, <1>16, <2>2 DEF r
  <2>4. Cardinality(UpTo(hChain', Page(hPageNo').start, hCursor')) = hRequest' * Limit
    BY <1>6, <1>16, <2>2 DEF r
  <2>5. hChain'[hCursor'] >= Page(hPageNo').start /\ hCursor' \in 0 .. Len(hChain')
    BY <1>3, <1>5, <2>1, <2>2 DEF r
  <2>6. hRequest' \in 0 .. MaxRequests - 1
    BY <1>1, <1>2, <1>16, <2>2
  <2>7. hPageNo' \in 1 .. Len(H!Pages) + 1 /\ hPageNo' <= Len(H!Pages)
    BY <1>1, <1>13, <2>2
  <2>8. QED
    BY <1>2, <1>10, <1>14, <2>2, <2>3, <2>4, <2>5, <2>6, <2>7 DEF FetchInv, Page, Gathered
<1>17. QED
  BY <1>15, <1>16

\* Every step of the fetch keeps FetchInv.
LEMMA FetchStep ==
  ASSUME FetchInv, [H!Next]_hVars
  PROVE  FetchInv'
<1>1. CASE H!RequestFails
  <2>1. /\ hStatus = "running" /\ UNCHANGED <<hChain, hPageNo, hCursor, hRequest, hFetched>>
        /\ \/ hAttempt < MaxRetries /\ hAttempt' = hAttempt + 1 /\ UNCHANGED hStatus
           \/ hStatus' = "failed" /\ UNCHANGED hAttempt
    BY <1>1 DEF H!RequestFails
  <2>2. hAttempt' \in 0 .. MaxRetries
    BY <2>1, MigrationsAssumption DEF FetchInv
  <2>3. H!ToSet(hFetched') = H!ToSet(hFetched)
    BY <2>1
  <2>4. QED
    BY <2>1, <2>2, <2>3 DEF FetchInv, Ascending, Gathered, Page
<1>2. CASE UNCHANGED hVars
  <2>1. UNCHANGED <<hChain, hStatus, hPageNo, hCursor, hRequest, hAttempt, hFetched>>
    BY <1>2 DEF hVars
  <2>2. H!ToSet(hFetched') = H!ToSet(hFetched)
    BY <2>1
  <2>3. QED
    BY <2>1, <2>2 DEF FetchInv, Ascending, Gathered, Page
<1>3. QED
  BY <1>1, <1>2, RequestKeeps DEF H!Next

\* FetchInv is an invariant.
LEMMA FetchHolds == Spec => []FetchInv
<1>1. Init => FetchInv
  <2> SUFFICES ASSUME Init PROVE FetchInv
    OBVIOUS
  <2>1. /\ hChain \in Chains /\ hStatus = "running" /\ hPageNo = 1 /\ hCursor = 0
        /\ hRequest = 0 /\ hAttempt = 0 /\ hFetched = <<>>
    BY DEF Init, H!Init
  <2>2. /\ Limit \in Nat \ {0} /\ MaxRequests \in Nat \ {0} /\ MaxRetries \in Nat
        /\ hChain \in Seq(Int) /\ Len(hChain) \in Nat /\ DOMAIN hChain = 1 .. Len(hChain)
    BY <2>1, FetchAssumption, MigrationsAssumption
  <2>3. /\ Seen(hChain, Page(hPageNo), hCursor) = {}
        /\ UpTo(hChain, Page(hPageNo).start, hCursor) = {}
    BY <2>1, <2>2 DEF Within, UpTo, Seen
  <2>4. Gathered(hChain, hPageNo - 1) = {}
    BY <2>1 DEF Gathered
  <2>5. H!ToSet(hFetched) = {} /\ hFetched \in Seq(DOMAIN hChain) /\ Ascending(hFetched)
    BY <2>1 DEF H!ToSet, Ascending
  <2>6. Cardinality(UpTo(hChain, Page(hPageNo).start, hCursor)) = hRequest * Limit
    <3>1. Cardinality({}) = 0 /\ 0 * Limit = 0
      BY <2>2, FS_EmptySet
    <3>2. QED
      BY <2>1, <2>3, <3>1
  <2>7. /\ hPageNo \in 1 .. Len(H!Pages) + 1 /\ hPageNo <= Len(H!Pages) /\ hCursor \in 0 .. Len(hChain)
        /\ hRequest \in 0 .. MaxRequests - 1 /\ hAttempt \in 0 .. MaxRetries
    BY <2>1, <2>2, WantedPages
  <2>8. QED
    BY <2>1, <2>3, <2>4, <2>5, <2>6, <2>7 DEF FetchInv
<1>2. FetchInv /\ [Next]_vars => FetchInv'
  BY FetchStep, HSteps
<1>3. QED
  BY <1>1, <1>2, PTL DEF Spec

\* What FetchInv says of the types and of a fetch that is done.
LEMMA FetchSays == ASSUME FetchInv PROVE H!TypeOK /\ H!FetchIsComplete
<1>1. H!ToSet(hFetched) \subseteq DOMAIN hChain
  BY DEF FetchInv, H!ToSet
<1>2. H!TypeOK
  BY <1>1 DEF FetchInv, H!TypeOK
<1>3. ASSUME hStatus = "done" PROVE H!FetchIsComplete
  <2>1. /\ hPageNo = Len(H!Pages) + 1 /\ hCursor = 0 /\ Len(H!Pages) \in Nat \ {0}
        /\ hChain \in Seq(Int)
    BY <1>3, WantedPages, FetchAssumption DEF FetchInv
  <2>2. Seen(hChain, Page(hPageNo), hCursor) = {} /\ hPageNo - 1 = Len(H!Pages)
    BY <2>1 DEF Within, Seen
  <2>3. H!ToSet(hFetched) = Gathered(hChain, Len(H!Pages))
    BY <2>2 DEF FetchInv
  <2>4. \A page : H!Reached(page) = Counted(hChain, page, Limit * MaxRequests)
    BY OperatorsOfFetch DEF H!Reached, H!InPage, H!InRange, Counted, Within, UpTo
  <2>5. DOMAIN H!Pages = 1 .. Len(H!Pages)
    BY WantedPages
  <2>6. UNION {H!Reached(H!Pages[k]) : k \in DOMAIN H!Pages} = Gathered(hChain, Len(H!Pages))
    BY <2>4, <2>5 DEF Gathered, Page
  <2>7. QED
    BY <2>3, <2>6 DEF FetchInv, H!FetchIsComplete, Ascending
<1>4. QED
  BY <1>2, <1>3 DEF H!FetchIsComplete

\* An import that reports success has stored its range, the counts of the imports add up
\* to what is stored, and a fetch that returns has every event of its range in order
\* but for those behind the request limit of a page (processRange, fetchEventRange).
THEOREM ImportsComplete == Spec => []ImportsAreComplete
<1>1. FetchInv => H!FetchIsComplete
  BY FetchSays
<1>2. QED
  BY <1>1, TrackerHolds, FetchHolds, PTL DEF ImportsAreComplete

(***************************************************************************)
(* The types of every service, from the invariants above.                  *)
(***************************************************************************)
\* The invariants of the write queue, the event store, the backfills and the
\* migrations give their types.
LEMMA StoresAreTyped ==
  ASSUME QueueInv, StoreInv, BackfillInv, MigrationInv
  PROVE  Q!TypeOK /\ S!TypeOK /\ B!TypeOK /\ M!TypeOK
<1>1. Q!TypeOK
  <2>1. ASSUME NEW s \in Submitters
        PROVE  /\ s \in Q!Holding <=> qStage[s] \in {"locking", "persisting"}
               /\ s \in Q!Holding => qHand[s] \in DOMAIN KeyOf
               /\ {qTold[s].queued, qTold[s].inserted, qTold[s].duplicates} \subseteq Nat
    <3>1. qHand[s] \in DOMAIN KeyOf \cup {Q!NoEvent} /\ (qHand[s] # Q!NoEvent <=> qStage[s] \in {"locking", "persisting"})
      BY DEF QueueInv, QueueTypes, Q!NoEvent
    <3>2. qTold[s] \in [queued : Nat, inserted : Nat, duplicates : Nat]
      BY DEF QueueInv, QueueTypes
    <3>3. QED
      BY <3>1, <3>2 DEF Q!Holding
  <2>2. QED
    BY <2>1 DEF QueueInv, QueueTypes, Q!TypeOK
<1>2. S!TypeOK
  <2>1. \A i \in DOMAIN sRows : sRows[i].event \in Events
    <3>1. \A i \in DOMAIN sRows : sRows[i] \in StoreRow
      BY DEF StoreInv
    <3>2. QED
      BY <3>1 DEF StoreRow
  <2>2. QED
    BY <2>1 DEF StoreInv, S!TypeOK
<1>3. B!TypeOK
  BY DEF BackfillInv, BackfillTypes, B!TypeOK
<1>4. M!TypeOK
  <2>1. mDb.done \subseteq 1 .. M!MaxVersion
    BY DEF MigrationInv, DbIsAtARelease, AtRelease, Releases, M!MaxVersion
  <2>2. QED
    BY <2>1 DEF MigrationInv, MigrationVarsOK, M!TypeOK
<1>5. QED
  BY <1>1, <1>2, <1>3, <1>4

\* And those of the retry loops, the limiters and the metadata cache.
LEMMA PoliciesAreTyped ==
  ASSUME RetryInv, LimiterInv, MetadataInv
  PROVE  Y!TypeOK /\ W!TypeOK /\ O!TypeOK
<1>1. Y!TypeOK
  BY PoliciesAssumption DEF RetryInv, Y!TypeOK
<1>2. W!TypeOK
  <2>1. ASSUME NEW k \in W!Keys PROVE wBucket[k].count \in 0 .. MaxCalls + 1 /\ wBucket[k].resetAt \in Nat
    <3>1. wBucket[k] \in Buckets
      BY DEF LimiterInv
    <3>2. QED
      BY <3>1 DEF Buckets
  <2>2. QED
    BY <2>1 DEF LimiterInv, W!TypeOK
<1>3. O!TypeOK
  <2>1. oMetadata.expires \in Int
    BY DEF MetadataInv, MetadataEntries, O!NoEntry, O!None
  <2>2. QED
    BY <2>1 DEF MetadataInv, O!TypeOK
<1>4. QED
  BY <1>1, <1>2, <1>3

\* The service a behaviour is about is one of those to check.
LEMMA ModeStays == Spec => [](mode \in Modes)
<1>1. Init => mode \in Modes
  BY DEF Init
<1>2. mode \in Modes /\ [Next]_vars => (mode \in Modes)'
  BY DEF Next, Alone, vars
<1>3. QED
  BY <1>1, <1>2, PTL DEF Spec

\* Every variable of every service stays in its type.
THEOREM ServicesTypesCorrect == Spec => []ServicesTypeOK
<1>1. ASSUME mode \in Modes, T!TypeOK, FetchInv, QueueInv, StoreInv, BackfillInv, MigrationInv,
             ReconciliationInv, MetricsInv, RetryInv, ThrottleInv, MonitorInv, LimiterInv, MetadataInv
      PROVE  ServicesTypeOK
  <2>1. R!TypeOK /\ X!TypeOK /\ P!TypeOK /\ N!TypeOK
    BY <1>1 DEF ReconciliationInv, MetricsInv, ThrottleInv, MonitorInv
  <2>2. QED
    BY <1>1, <2>1, FetchSays, StoresAreTyped, PoliciesAreTyped, Zenon DEF ServicesTypeOK
<1>2. QED
  BY <1>1, ModeStays, TrackerHolds, FetchHolds, QueueHolds, StoreHolds, BackfillHolds, MigrationsHold,
     ReconciliationHolds, MetricsHold, RetryHolds, ThrottleHolds, MonitorHolds, LimiterHolds, MetadataHolds, PTL
=============================================================================
