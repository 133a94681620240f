------------------------------ MODULE Throttle ------------------------------
(***************************************************************************)
(* How long the poller and the services beside it wait between two cycles: *)
(* six policies that slow down when nothing happens and speed up when      *)
(* something does (src/src/indexer/poller.ts, db.ts, indexer_runner.ts,    *)
(* failover-recovery.ts, indexer_metrics_collector.ts and                  *)
(* sqlite_vacuum_cleaner.ts).  Intervals are in an abstract unit.          *)
(***************************************************************************)
EXTENDS Integers

CONSTANTS
  BaseInterval, MinInterval, MaxInterval,   \* the configured intervals
  IdleThreshold                             \* idle cycles before an interval grows

VARIABLES
  policy,     \* which of the six policies this is
  interval,   \* currentIntervalMs
  idle,       \* idleCycles
  quiet       \* history: idle cycles since the last one with events, up to IdleThreshold

throttleVars == <<policy, interval, idle, quiet>>

Policies == {"poller", "db", "indexer_runner", "failover_recovery", "metrics", "vacuum"}

\* The multiplier of every policy is 2.
Doubled(i) == IF 2 * i < MaxInterval THEN 2 * i ELSE MaxInterval

\* Mutant of Halved: no shortest interval.
HalvedBelowMin(i) == i \div 2

Halved(i)  == IF i \div 2 > MinInterval THEN i \div 2 ELSE MinInterval

\* Every policy but the poller's counts idle cycles and doubles at the threshold.
GrowAfter(threshold, cycles, i) == IF cycles >= threshold THEN Doubled(i) ELSE i

\* nextPollIntervalMs: the shortest interval after activity, else twice as long.
NextPollIntervalMs(i, sawActivity) == IF sawActivity THEN MinInterval ELSE Doubled(i)

\* adjustPollerInterval of db.ts.
AdjustDb(i, cycles, sawActivity) ==
  IF sawActivity THEN [interval |-> Halved(i), idle |-> 0]
  ELSE [interval |-> GrowAfter(IdleThreshold, cycles + 1, i), idle |-> cycles + 1]

\* Mutant of AdjustIndexerRunner: activity does not reset the idle cycles.
AdjustIndexerRunnerKeepingIdle(i, cycles, sawActivity) ==
  IF sawActivity THEN [interval |-> Halved(i), idle |-> cycles]
  ELSE [interval |-> GrowAfter(IdleThreshold, cycles + 1, i), idle |-> cycles + 1]

\* adjustIndexerRunnerPollInterval.
AdjustIndexerRunner(i, cycles, sawActivity) ==
  IF sawActivity THEN [interval |-> Halved(i), idle |-> 0]
  ELSE [interval |-> GrowAfter(IdleThreshold, cycles + 1, i), idle |-> cycles + 1]

\* adjustFailoverRecoveryPollInterval.
AdjustFailoverRecovery(i, cycles, sawActivity) ==
  IF sawActivity THEN [interval |-> Halved(i), idle |-> 0]
  ELSE [interval |-> GrowAfter(IdleThreshold, cycles + 1, i), idle |-> cycles + 1]

\* adjustIndexerMetricsPollingInterval.
AdjustMetrics(i, cycles, sawActivity) ==
  IF sawActivity THEN [interval |-> MinInterval, idle |-> 0]
  ELSE [interval |-> GrowAfter(IdleThreshold, cycles + 1, i), idle |-> cycles + 1]

\* adjustVacuumPollingInterval.
AdjustVacuum(i, cycles, sawActivity) ==
  IF sawActivity THEN [interval |-> MinInterval, idle |-> 0]
  ELSE [interval |-> GrowAfter(IdleThreshold, cycles + 1, i), idle |-> cycles + 1]

Adjusted(i, cycles, sawActivity) ==
  CASE policy = "poller"            -> [interval |-> NextPollIntervalMs(i, sawActivity), idle |-> 0]
    [] policy = "db"                -> AdjustDb(i, cycles, sawActivity)
    [] policy = "indexer_runner"    -> AdjustIndexerRunner(i, cycles, sawActivity)
    [] policy = "failover_recovery" -> AdjustFailoverRecovery(i, cycles, sawActivity)
    [] policy = "metrics"           -> AdjustMetrics(i, cycles, sawActivity)
    [] policy = "vacuum"            -> AdjustVacuum(i, cycles, sawActivity)

\* The poller starts from its shortest interval, the others from the base.
StartInterval == IF policy = "poller" THEN MinInterval ELSE BaseInterval

Init ==
  /\ policy \in Policies
  /\ interval = StartInterval /\ idle = 0 /\ quiet = 0

\* One cycle.  The model stops counting idle cycles at the threshold.
Cycle(sawActivity) ==
  LET adjusted == Adjusted(interval, idle, sawActivity) IN
    /\ interval' = adjusted.interval
    /\ idle' = IF adjusted.idle > IdleThreshold THEN IdleThreshold ELSE adjusted.idle
    /\ quiet' = IF sawActivity THEN 0 ELSE IF quiet < IdleThreshold THEN quiet + 1 ELSE quiet
    /\ UNCHANGED policy

\* stopPoller and the reset functions.
Reset == interval' = StartInterval /\ idle' = 0 /\ quiet' = 0 /\ UNCHANGED policy

Next == Reset \/ \E sawActivity \in BOOLEAN : Cycle(sawActivity)

Spec == Init /\ [][Next]_throttleVars

(***************************************************************************)
(* Properties                                                              *)
(***************************************************************************)

\* Type invariant.
TypeOK ==
  /\ policy \in Policies /\ interval \in MinInterval .. MaxInterval
  /\ idle \in 0 .. IdleThreshold /\ quiet \in 0 .. IdleThreshold

\* A service slows down only after as many cycles without events in a row as its
\* policy asks for, however load came and went before.
SlowsDownOnlyWhenQuiet ==
  [][interval' > interval =>
       \/ quiet' >= (IF policy = "poller" THEN 1 ELSE IdleThreshold)
       \/ interval' = StartInterval /\ quiet' = 0]_throttleVars
=============================================================================
