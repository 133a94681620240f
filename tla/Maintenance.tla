----------------------------- MODULE Maintenance -----------------------------
(***************************************************************************)
(* Database maintenance: the poller's maintenance cycle                    *)
(* (src/src/indexer/poller.ts) and the vacuum cleaner                      *)
(* (src/src/indexer/sqlite_vacuum_cleaner.ts), whose cleanups queue up     *)
(* behind a promise and prune and vacuum in one synchronous step.          *)
(***************************************************************************)
EXTENDS Integers, Sequences, SequencesExt

CONSTANTS
  Ledgers,      \* the ledgers of the stored events, one event each
  Cleanups,     \* calls of runVacuumCleanupConcurrent
  MaxRetries,   \* VacuumRetryConfig.maxRetries
  MaxFaults     \* bound: prunes, vacuums and checkpoints that throw

VARIABLES
  stored,       \* the ledgers whose event is in the events table
  expired,      \* the ledgers whose event is older than the retention
  queue,        \* the calls behind vacuumLock, in order
  locked,       \* vacuumLockActive
  outcome,      \* cleanup -> "waiting", "queued", "done", "failed"
  scheduled,    \* maintenanceTimeout is set
  waited,       \* history: vacuums the last runVacuumWithRetry tried
  faultsUsed

maintVars == <<stored, expired, queue, locked, outcome, scheduled, waited, faultsUsed>>

Init ==
  /\ stored = Ledgers /\ expired = {}
  /\ queue = <<>> /\ locked = FALSE
  /\ outcome = [c \in Cleanups |-> "waiting"]
  /\ scheduled = FALSE /\ waited = 0 /\ faultsUsed = 0

Fault == faultsUsed < MaxFaults /\ faultsUsed' = faultsUsed + 1

\* created_at falls behind the retention window.
Ages(l) ==
  /\ l \notin expired /\ expired' = expired \cup {l}
  /\ UNCHANGED <<stored, queue, locked, outcome, scheduled, waited, faultsUsed>>

\* pruneOldEvents deletes the rows older than the retention.
PruneOldEvents == stored' = stored \ expired

\* runVacuumCleanupConcurrent takes its place in the chain.
Queue(c) ==
  /\ outcome[c] = "waiting"
  /\ outcome' = [outcome EXCEPT ![c] = "queued"]
  /\ queue' = Append(queue, c) /\ locked' = TRUE
  /\ UNCHANGED <<stored, expired, scheduled, waited, faultsUsed>>

\* Mutant of GiveBack: a cleanup that threw does not release the next one.
GiveBackWhenDone(result) ==
  /\ queue' = IF result = "done" THEN Tail(queue) ELSE queue
  /\ locked' = FALSE

\* The finally clause: the flag goes down, whoever is next in the chain.
GiveBack(result) == queue' = Tail(queue) /\ locked' = FALSE

\* runVacuumCleanup for the first in the chain: a prune that throws deletes
\* nothing, a vacuum that throws leaves the prune.
RunVacuumCleanup ==
  /\ queue # <<>> /\ outcome[Head(queue)] = "queued"
  /\ \/ PruneOldEvents /\ outcome' = [outcome EXCEPT ![Head(queue)] = "done"] /\ UNCHANGED faultsUsed
     \/ Fault /\ UNCHANGED stored /\ outcome' = [outcome EXCEPT ![Head(queue)] = "failed"]
     \/ Fault /\ PruneOldEvents /\ outcome' = [outcome EXCEPT ![Head(queue)] = "failed"]
  /\ GiveBack(outcome'[Head(queue)])
  /\ UNCHANGED <<expired, scheduled, waited>>

\* runVacuumCleanupWithRetry: the prune is not tried again, the vacuum is, as
\* long as its error is one that passes.
RunVacuumCleanupWithRetry ==
  /\ PruneOldEvents
  /\ \E tries \in 1 .. MaxRetries + 1 :
       /\ waited' = tries /\ faultsUsed' = faultsUsed + tries - 1
  /\ faultsUsed' <= MaxFaults
  /\ UNCHANGED <<expired, queue, locked, outcome, scheduled>>

\* pruneEventsInLedgerRange, whatever the age of the rows; an invalid range throws.
PruneEventsInLedgerRange(start, end) ==
  /\ start <= end
  /\ stored' = {l \in stored : ~ (start <= l /\ l <= end)}
  /\ UNCHANGED <<expired, queue, locked, outcome, scheduled, waited, faultsUsed>>

\* runMaintenanceCycle, with or without EVENT_RETENTION_DAYS: it gives way to a
\* locked vacuum, and a failed checkpoint skips the prune.
RunMaintenanceCycle ==
  \/ locked /\ UNCHANGED <<stored, faultsUsed>>
  \/ ~ locked /\ PruneOldEvents /\ UNCHANGED faultsUsed
  \/ ~ locked /\ UNCHANGED <<stored, faultsUsed>>            \* no retention configured
  \/ ~ locked /\ Fault /\ UNCHANGED stored                   \* checkpoint or prune threw

\* startMaintenanceScheduler runs a cycle at once and then plans the next one.
StartMaintenanceScheduler ==
  /\ ~ scheduled /\ RunMaintenanceCycle /\ scheduled' = TRUE
  /\ UNCHANGED <<expired, queue, locked, outcome, waited>>

MaintenanceTimer ==
  /\ scheduled /\ RunMaintenanceCycle
  /\ UNCHANGED <<expired, queue, locked, outcome, scheduled, waited>>

StopMaintenanceScheduler ==
  /\ scheduled /\ scheduled' = FALSE
  /\ UNCHANGED <<stored, expired, queue, locked, outcome, waited, faultsUsed>>

Next ==
  \/ \E l \in Ledgers : Ages(l)
  \/ \E c \in Cleanups : Queue(c)
  \/ RunVacuumCleanup \/ RunVacuumCleanupWithRetry
  \/ \E start, end \in Ledgers : PruneEventsInLedgerRange(start, end)
  \/ StartMaintenanceScheduler \/ MaintenanceTimer \/ StopMaintenanceScheduler

Spec == Init /\ [][Next]_maintVars /\ WF_maintVars(RunVacuumCleanup)

(***************************************************************************)
(* Properties                                                              *)
(***************************************************************************)

\* Type invariant.
TypeOK ==
  /\ stored \subseteq Ledgers /\ expired \subseteq Ledgers
  /\ queue \in Seq(Cleanups) /\ IsInjective(queue)
  /\ locked \in BOOLEAN /\ scheduled \in BOOLEAN
  /\ outcome \in [Cleanups -> {"waiting", "queued", "done", "failed"}]
  /\ waited \in 0 .. MaxRetries + 1 /\ faultsUsed \in 0 .. MaxFaults

\* A cleanup that throws does not keep the ones queued behind it from running.
EveryCleanupRuns == \A c \in Cleanups : outcome[c] = "queued" ~> outcome[c] \in {"done", "failed"}
=============================================================================
