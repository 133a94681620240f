--------------------------- MODULE FailureMonitor ---------------------------
(***************************************************************************)
(* FailureMonitor (src/src/indexer/failure-monitor.ts) and its subclasses: *)
(* consecutive failures, the alert they raise and the stall warning, for   *)
(* one monitor of any kind.  Time is whether the stall window is over.     *)
(***************************************************************************)
EXTENDS Integers

CONSTANT
  Threshold,     \* failureThreshold
  MaxFailures    \* bound on consecutive failures

VARIABLES
  kind,            \* which subclass this is
  failures,        \* consecutiveFailures
  succeeded,       \* lastSuccessfulAt is set
  overdue,         \* the stall window since lastSuccessfulAt is over
  alertActive, stallAlerted,
  alerts           \* history: alerts since the last success or reset

monitorVars == <<kind, failures, succeeded, overdue, alertActive, stallAlerted, alerts>>

Kinds == {"indexer_runner", "ledger_range_tracker", "failover_recovery", "metrics", "vacuum", "schema_manager"}

\* thresholdReachedOrExceeded and trackStallAlerted, as the constructors pass them.
Repeats == kind \in {"metrics", "vacuum"}
Tracks  == kind = "failover_recovery"

Init ==
  /\ kind \in Kinds
  /\ failures = 0 /\ succeeded = FALSE /\ overdue = FALSE
  /\ alertActive = FALSE /\ stallAlerted = FALSE /\ alerts = 0

\* Mutant of Alerts: a monitor that alerts once compares with >=.
AlertsFromThreshold(count) == count >= Threshold

\* FailureMonitor.recordFailure: does the failure that makes the count alert?
Alerts(count) ==
  /\ IF Repeats THEN count >= Threshold ELSE count = Threshold
  /\ ~ alertActive \/ Repeats

\* IndexerRunnerFailureMonitor.recordFailure has its own condition.
RunnerAlerts(count) == count >= Threshold /\ ~ alertActive

RecordFailure ==
  /\ failures < MaxFailures
  /\ failures' = failures + 1
  /\ LET alerting == IF kind = "indexer_runner" THEN RunnerAlerts(failures') ELSE Alerts(failures') IN
       /\ alertActive' = (alertActive \/ alerting)
       /\ alerts' = IF alerting THEN alerts + 1 ELSE alerts
  /\ UNCHANGED <<kind, succeeded, overdue, stallAlerted>>

RecordSuccess ==
  /\ failures' = 0 /\ succeeded' = TRUE /\ overdue' = FALSE
  /\ alertActive' = FALSE /\ alerts' = 0
  /\ stallAlerted' = (stallAlerted /\ ~ Tracks)
  /\ UNCHANGED kind

\* The stall window passes.
TimePasses ==
  /\ succeeded /\ ~ overdue /\ overdue' = TRUE
  /\ UNCHANGED <<kind, failures, succeeded, alertActive, stallAlerted, alerts>>

\* Does checkStall warn?  The runner's and the tracker's own checkStall latch.
Warns ==
  /\ succeeded /\ overdue
  /\ kind \in {"indexer_runner", "ledger_range_tracker", "failover_recovery"} => ~ stallAlerted

CheckStall ==
  /\ Warns
  /\ stallAlerted' = (kind \in {"indexer_runner", "ledger_range_tracker", "failover_recovery"})
  /\ UNCHANGED <<kind, failures, succeeded, overdue, alertActive, alerts>>

Reset ==
  /\ failures' = 0 /\ succeeded' = FALSE /\ overdue' = FALSE
  /\ alertActive' = FALSE /\ stallAlerted' = FALSE /\ alerts' = 0
  /\ UNCHANGED kind

Next == RecordFailure \/ RecordSuccess \/ TimePasses \/ CheckStall \/ Reset

Spec == Init /\ [][Next]_monitorVars

(***************************************************************************)
(* Properties                                                              *)
(***************************************************************************)

\* Type invariant.
TypeOK ==
  /\ kind \in Kinds /\ failures \in 0 .. MaxFailures /\ alerts \in 0 .. MaxFailures
  /\ {succeeded, overdue, alertActive, stallAlerted} \subseteq BOOLEAN

\* An outage is reported: once by a monitor that alerts once, and on every
\* failure from the threshold on by one that repeats; the flag that says so is
\* set exactly while the outage lasts.
OutageIsReported ==
  /\ alertActive <=> failures >= Threshold
  /\ alerts = IF failures < Threshold THEN 0
              ELSE IF Repeats THEN failures - Threshold + 1 ELSE 1
=============================================================================
