------------------------------- MODULE Metrics -------------------------------
(***************************************************************************)
(* The metrics collector (src/src/indexer/indexer_metrics_collector.ts): a *)
(* collection runs its queries one by one in a transaction, while another  *)
(* process on the same database file inserts and prunes events.  A         *)
(* transaction reads the database as it was at its first query.            *)
(***************************************************************************)
EXTENDS Collections

CONSTANTS
  Stock,         \* the events there can be
  TypeOf,        \* event -> its type
  LedgerOf       \* event -> its ledger

VARIABLES
  live,        \* the events in the database file
  snapshot,    \* what the transaction of the collection reads, or NoSnapshot
  range,       \* the ledgers the collection is about: all, or a historical range
  stage,       \* the next query of the collection
  partial,     \* what its queries answered
  last,        \* lastCollectionSnapshot.totalEvents, or -1
  processed    \* the count the throttle was given last

metricsVars == <<live, snapshot, range, stage, partial, last, processed>>

NoSnapshot == {"none"}
Stages == <<"idle", "total", "types", "ledgers", "done">>
Types   == {TypeOf[e] : e \in Stock}
Ledgers == {LedgerOf[e] : e \in Stock}
Nothing == [total |-> 0, byType |-> [t \in Types |-> 0], byLedger |-> [l \in Ledgers |-> 0]]

Init ==
  /\ live = {} /\ snapshot = NoSnapshot /\ range = Ledgers
  /\ stage = "idle" /\ partial = Nothing /\ last = -1 /\ processed = 0

\* Another process commits: it inserts an event or prunes one.
OtherProcess(e) ==
  /\ live' = IF e \in live THEN live \ {e} ELSE live \cup {e}
  /\ UNCHANGED <<snapshot, range, stage, partial, last, processed>>

\* collectIndexerMetrics is about every ledger; validateHistoricalRange refuses
\* a range for collectHistoricalMetrics that is empty.
Begin(ledgers) ==
  /\ stage = "idle" /\ ledgers # {}
  /\ range' = ledgers /\ stage' = "total" /\ partial' = Nothing
  /\ UNCHANGED <<live, snapshot, last, processed>>

\* Mutant of Seen: the queries run outside of a transaction.
SeenLive(snap) == live

\* What a query reads: the first one of a transaction takes the snapshot.
Seen(snap) == IF snap = NoSnapshot THEN live ELSE snap

InRange == {e \in Seen(snapshot) : LedgerOf[e] \in range}

QueryTotal ==
  /\ stage = "total" /\ stage' = "types"
  /\ snapshot' = Seen(snapshot)
  /\ partial' = [partial EXCEPT !.total = Cardinality(InRange)]
  /\ UNCHANGED <<live, range, last, processed>>

QueryTypes ==
  /\ stage = "types" /\ stage' = "ledgers"
  /\ partial' = [partial EXCEPT !.byType = [t \in Types |-> Cardinality({e \in InRange : TypeOf[e] = t})]]
  /\ UNCHANGED <<live, snapshot, range, last, processed>>

\* Only collectHistoricalMetrics counts by ledger; the other collection has its
\* queries for contracts and subscriptions here, which read other tables.
QueryLedgers ==
  /\ stage = "ledgers" /\ stage' = "done"
  /\ partial' = [partial EXCEPT !.byLedger = [l \in Ledgers |-> Cardinality({e \in InRange : LedgerOf[e] = l})]]
  /\ snapshot' = NoSnapshot
  /\ UNCHANGED <<live, range, last, processed>>

\* A query throws: the transaction is rolled back.
QueryFails ==
  /\ stage \in {"total", "types", "ledgers"}
  /\ stage' = "idle" /\ snapshot' = NoSnapshot
  /\ UNCHANGED <<live, range, partial, last, processed>>

\* onIndexerMetricsCollected: a count below the last one is no activity.
OnCollected ==
  /\ stage = "done" /\ stage' = "idle"
  /\ IF range = Ledgers
     THEN /\ processed' = IF last = -1 \/ partial.total > last THEN partial.total - (IF last = -1 THEN 0 ELSE last) ELSE 0
          /\ last' = partial.total
     ELSE UNCHANGED <<processed, last>>
  /\ UNCHANGED <<live, snapshot, range, partial>>

Next ==
  \/ \E e \in Stock : OtherProcess(e)
  \/ \E ledgers \in SUBSET Ledgers : Begin(ledgers)
  \/ QueryTotal \/ QueryTypes \/ QueryLedgers \/ QueryFails \/ OnCollected

Spec == Init /\ [][Next]_metricsVars

(***************************************************************************)
(* Properties                                                              *)
(***************************************************************************)

\* Type invariant.
TypeOK ==
  /\ live \subseteq Stock
  /\ snapshot = NoSnapshot \/ snapshot \subseteq Stock
  /\ range \subseteq Ledgers /\ \E i \in DOMAIN Stages : Stages[i] = stage
  /\ partial.total \in 0 .. Cardinality(Stock)
  /\ last \in -1 .. Cardinality(Stock) /\ processed \in 0 .. Cardinality(Stock)

\* The parts of a collection add up: the total is the sum of the counts by type
\* and of the counts by ledger, whatever other processes write between its queries.
SnapshotAddsUp ==
  stage = "done" =>
    /\ partial.total = Total(partial.byType, Types)
    /\ partial.total = Total(partial.byLedger, Ledgers)
=============================================================================
