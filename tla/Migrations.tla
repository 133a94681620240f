----------------------------- MODULE Migrations -----------------------------
(***************************************************************************)
(* Migrations (src/src/indexer/db.ts) by processes of one or several       *)
(* releases on one database: every start runs what is missing, in one      *)
(* transaction with a savepoint per migration, and SQLite lets one         *)
(* connection write at a time.  Then the services check the schema.        *)
(***************************************************************************)
EXTENDS Integers, FiniteSets, FiniteSetsExt

CONSTANTS
  Processes,
  Shipped,        \* process -> how many migrations its release has
  Stored,         \* the release whose schema the database starts with
  OldRows,        \* ids of the events stored by then
  MaxRetries,     \* SchemaRetryConfig.maxRetries
  MaxFaults       \* bound: errors that do not pass, and crashes

VARIABLES
  db,             \* the committed database
  commits,        \* transactions committed
  proc,           \* process -> where it is
  copy,           \* process -> its open transaction
  base,           \* process -> the commits its transaction has seen
  writing,        \* process -> its transaction holds the write lock
  attempt,        \* process -> attempts of the migration at hand
  faults

migrationVars == <<db, commits, proc, copy, base, writing, attempt, faults>>

-----------------------------------------------------------------------------
\* The migrations.  A database is the versions it records, the tables and columns
\* it has, its events (id -> event_id) and the participants filled in.
NoId == "null"
Legacy == "legacy"

\* Versions 1 and 2, then those that only create indexes (3 to 8).
BaseTables(v) == IF v = 1 THEN {"events", "indexer_state"} ELSE IF v = 2 THEN {"monitored_contracts"} ELSE {}

\* Versions 10 to 12 and 14 to 19: tables and columns of later features.
FeatureTables(v) ==
  CASE v = 10 -> {"reconciliation_results"}
    [] v = 11 -> {"monitored_contracts.last_ledger_sequence"}
    [] v = 12 -> {"webhook_deliveries"}
    [] v = 14 -> {"job_drafts"}
    [] v = 15 -> {"rpc_node_health"}
    [] v = 16 -> {"events.tx_hash"}
    [] v = 17 -> {"webhook_subscriptions.disabled_at"}
    [] v = 18 -> {"job_participants"}
    [] v = 19 -> {"undecodable_events"}
    [] OTHER  -> {}

\* Version 9 copies the events into a table whose timestamp may be null.
RebuildEvents(rows) == rows

\* Mutant of DedupeById: the rows stored before are not copied.
DedupeByIdOfNewRows(rows) == [id \in {} |-> NoId]

\* Version 13 copies them into one that is unique by event_id, and makes one up.
DedupeById(rows) == [id \in DOMAIN rows |-> Legacy]

Adds(v) == BaseTables(v) \cup FeatureTables(v) \cup (IF v = 13 THEN {"events.event_id"} ELSE {})

Migrate(d, v) ==
  [done    |-> d.done \cup {v},
   tables  |-> d.tables \cup Adds(v),
   events  |-> CASE v = 9 -> RebuildEvents(d.events) [] v = 13 -> DedupeById(d.events) [] OTHER -> d.events,
   parties |-> IF v = 18 THEN DOMAIN d.events ELSE d.parties,
   times   |-> [d.times EXCEPT ![v] = @ + 1]]

MaxVersion == 19

InitialDb ==
  [done    |-> 1 .. Stored,
   tables  |-> UNION {Adds(v) : v \in 1 .. Stored},
   events  |-> [id \in OldRows |-> IF Stored < 13 THEN NoId ELSE "rpc"],
   parties |-> IF Stored < 18 THEN {} ELSE OldRows,
   times   |-> [v \in 1 .. MaxVersion |-> IF v <= Stored THEN 1 ELSE 0]]

Init ==
  /\ db = InitialDb /\ commits = 0
  /\ proc = [p \in Processes |-> "down"]
  /\ copy = [p \in Processes |-> InitialDb] /\ base = [p \in Processes |-> 0]
  /\ writing = [p \in Processes |-> FALSE] /\ attempt = [p \in Processes |-> 0]
  /\ faults = 0

-----------------------------------------------------------------------------
Pending(p) == (1 .. Shipped[p]) \ copy[p].done

\* runMigrations begins its transaction.
Open(p) ==
  /\ proc[p] = "down"
  /\ proc' = [proc EXCEPT ![p] = "migrating"]
  /\ copy' = [copy EXCEPT ![p] = db] /\ base' = [base EXCEPT ![p] = commits]
  /\ UNCHANGED <<db, commits, writing, attempt, faults>>

\* SQLite lets a transaction write when nobody else does and nobody committed
\* since it began to read.
MayWrite(p) ==
  \/ writing[p]
  \/ base[p] = commits /\ \A q \in Processes : ~ writing[q]

\* One migration and its row in schema_migrations, under a savepoint.
ApplyMigration(p) ==
  /\ proc[p] = "migrating" /\ Pending(p) # {} /\ MayWrite(p)
  /\ copy' = [copy EXCEPT ![p] = Migrate(@, Min(Pending(p)))]
  /\ writing' = [writing EXCEPT ![p] = TRUE] /\ attempt' = [attempt EXCEPT ![p] = 0]
  /\ UNCHANGED <<db, commits, proc, base, faults>>

\* "database is locked": withSchemaRetrySync sleeps and tries again.
Busy(p) ==
  /\ proc[p] = "migrating" /\ Pending(p) # {} /\ ~ MayWrite(p)
  /\ attempt[p] < MaxRetries
  /\ attempt' = [attempt EXCEPT ![p] = @ + 1]
  /\ UNCHANGED <<db, commits, proc, copy, base, writing, faults>>

\* Mutant of RollBack: without the transaction around a migration its statements
\* stay when its version was not recorded yet.
RollBackLate(p) ==
  /\ db' = IF writing[p] /\ Pending(p) # {}
           THEN [Migrate(copy[p], Min(Pending(p))) EXCEPT !.done = copy[p].done]
           ELSE db
  /\ writing' = [writing EXCEPT ![p] = FALSE]

\* The transaction of the whole run is rolled back.
RollBack(p) == UNCHANGED db /\ writing' = [writing EXCEPT ![p] = FALSE]

Fail(p) ==
  /\ RollBack(p)
  /\ proc' = [proc EXCEPT ![p] = "down"] /\ attempt' = [attempt EXCEPT ![p] = 0]
  /\ UNCHANGED <<commits, copy, base>>

\* The database stayed locked: the process ends, and is started again.
GiveUp(p) ==
  /\ proc[p] = "migrating" /\ Pending(p) # {} /\ ~ MayWrite(p)
  /\ attempt[p] = MaxRetries
  /\ Fail(p) /\ UNCHANGED faults

\* A migration fails with another error, or the process dies.
Fault(p) ==
  /\ proc[p] # "down" /\ faults < MaxFaults /\ faults' = faults + 1
  /\ Fail(p)

Commit(p) ==
  /\ proc[p] = "migrating" /\ Pending(p) = {}
  /\ IF writing[p] THEN db' = copy[p] /\ commits' = commits + 1 ELSE UNCHANGED <<db, commits>>
  /\ writing' = [writing EXCEPT ![p] = FALSE]
  /\ proc' = [proc EXCEPT ![p] = "migrated"]
  /\ UNCHANGED <<copy, base, attempt, faults>>

-----------------------------------------------------------------------------
\* Versions recorded with a gap, as every check but the vacuum cleaner's sees it.
HasGap(d) == \E v \in d.done : v + 1 \notin d.done /\ \E w \in d.done : w > v

\* verifySchemaIntegrity, which startPoller asserts.
PollerAccepts(d) ==
  /\ {"events", "events.event_id", "indexer_state", "monitored_contracts",
      "monitored_contracts.last_ledger_sequence"} \subseteq d.tables
  /\ ~ HasGap(d)

\* The checks of failover, metrics, ledger range tracker and vacuum cleaner; the
\* first two know every version their release ships.
FailoverAccepts(d, shipped) == "rpc_node_health" \in d.tables /\ 1 .. shipped \subseteq d.done /\ ~ HasGap(d)
MetricsAccepts(d, shipped)  == {"events", "indexer_state"} \subseteq d.tables /\ 1 .. shipped \subseteq d.done
TrackerAccepts(d)           == {"events", "indexer_state"} \subseteq d.tables /\ ~ HasGap(d)
VacuumAccepts(d)            == "events" \in d.tables

\* startPoller: the poller runs, or the process ends.
StartPoller(p) ==
  /\ proc[p] = "migrated"
  /\ proc' = [proc EXCEPT ![p] = IF PollerAccepts(db) THEN "up" ELSE "down"]
  /\ UNCHANGED <<db, commits, copy, base, writing, attempt, faults>>

Next ==
  \E p \in Processes :
    \/ Open(p) \/ ApplyMigration(p) \/ Busy(p) \/ GiveUp(p) \/ Commit(p)
    \/ StartPoller(p) \/ Fault(p)

Spec == Init /\ [][Next]_migrationVars

(***************************************************************************)
(* Properties                                                              *)
(***************************************************************************)

\* Type invariant.
TypeOK ==
  /\ db.done \subseteq 1 .. MaxVersion /\ commits \in Nat
  /\ proc \in [Processes -> {"down", "migrating", "migrated", "up"}]
  /\ \A p \in Processes : base[p] \in Nat /\ writing[p] \in BOOLEAN /\ attempt[p] \in 0 .. MaxRetries
  /\ faults \in 0 .. MaxFaults

\* Whatever processes start together, fail or die between two migrations, the
\* database is at one release: its versions have no gap, each was applied once,
\* its tables are those of its versions, and every event stored before is there.
SchemaMatchesVersions ==
  LET release == Cardinality(db.done) IN
    /\ db.done = 1 .. release
    /\ \A v \in 1 .. MaxVersion : db.times[v] = IF v <= release THEN 1 ELSE 0
    /\ db.tables = UNION {Adds(v) : v \in 1 .. release}
    /\ DOMAIN db.events = OldRows
    /\ release >= 13 => \A id \in OldRows : db.events[id] # NoId
    /\ release >= 18 => db.parties = OldRows

\* A process that runs has the schema its release needs, also while a newer one
\* migrates the database under it, and no service of it would refuse to start.
ProcessesRunOnTheirSchema ==
  \A p \in Processes : proc[p] = "up" =>
    /\ UNION {Adds(v) : v \in 1 .. Shipped[p]} \subseteq db.tables
    /\ Shipped[p] >= 15 => FailoverAccepts(db, Shipped[p])
    /\ PollerAccepts(db) /\ MetricsAccepts(db, Shipped[p]) /\ TrackerAccepts(db) /\ VacuumAccepts(db)
=============================================================================
