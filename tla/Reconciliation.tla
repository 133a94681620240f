--------------------------- MODULE Reconciliation ---------------------------
(***************************************************************************)
(* The reconciliation job (src/src/indexer/reconciliation.ts): for every   *)
(* active contract, what its events say it received minus what they say it *)
(* paid, against its token balance on the chain.  The sums are taken before*)
(* the balance is awaited; meanwhile the chain moves, the poller stores    *)
(* events and the maintenance prunes them.                                 *)
(***************************************************************************)
EXTENDS Collections, SequencesExt

CONSTANTS
  Moves,          \* movements of money on the chain, each emitting an event
  MoveOf,         \* move -> [contract, kind, amount, readable]
  Contracts,      \* the active monitored contracts in the order of their ids
  MaxResults      \* bound: rows of reconciliation_results

VARIABLES
  onChain,     \* the moves that happened
  stored,      \* the moves whose event is in the events table
  pruned,      \* the moves whose event was deleted by age
  job,         \* the contracts the run in progress has still to check, or NoRun
  sums,        \* what reconcileContract summed before it asked for the balance, or NoSums
  results      \* reconciliation_results in the order of its ids

reconVars == <<onChain, stored, pruned, job, sums, results>>

NoRun  == <<"none">>
NoSums == [contract |-> "none"]

Init ==
  /\ onChain = {} /\ stored = {} /\ pruned = {}
  /\ job = NoRun /\ sums = NoSums /\ results = <<>>

-----------------------------------------------------------------------------
Inflow  == {"fund"}

\* Mutant of Outflow: an outflow type is missing from the list.
OutflowWithoutRefunds == {"approve"}

\* OUTFLOW_EVENT_TYPES; the model has one release and one refund of the twelve.
Outflow == {"approve", "splitref"}

MovesOf(c, ms) == {m \in ms : MoveOf[m].contract = c}

\* sumLedgerAmounts over extractAmounts, when every amount can be read.
SumOf(ms, kinds) == Total([m \in Moves |-> MoveOf[m].amount], {m \in ms : MoveOf[m].kind \in kinds})

Unreadable(ms) == {m \in ms : ~ MoveOf[m].readable /\ MoveOf[m].kind \in Inflow \cup Outflow} # {}

\* resolveToken: the latest init or fund event names the token; in the model any does.
HasToken(ms) == \E m \in ms : MoveOf[m].kind \in {"init", "fund"}

\* What the token contract holds for the escrow.
Balance(c) == LET ms == MovesOf(c, onChain)
              IN  SumOf(ms, {"fund"}) - SumOf(ms, {"approve", "splitref"})

-----------------------------------------------------------------------------
\* The timer fires: a run in progress makes it return.
StartRun ==
  /\ job = NoRun /\ job' = Contracts
  /\ UNCHANGED <<onChain, stored, pruned, sums, results>>

Verdict(c, status, expected, balance, rows) ==
  /\ Len(results) < MaxResults
  /\ results' = Append(results, [contract |-> c, status |-> status, expected |-> expected,
                                 balance |-> balance, events |-> rows])
  /\ job' = Tail(job)

\* reconcileContract up to the balance: an amount that cannot be read, or no
\* token, is an error row at once; else the sums wait for the balance.
\* runReconciliation goes through the contracts in order.
SumEvents ==
  /\ job # NoRun /\ job # <<>> /\ sums = NoSums
  /\ LET c  == Head(job)
         ms == MovesOf(c, stored)
     IN  IF Unreadable(ms) \/ ~ HasToken(ms)
         THEN Verdict(c, "error", 0, 0, ms) /\ UNCHANGED sums
         ELSE /\ sums' = [contract |-> c, expected |-> SumOf(ms, Inflow) - SumOf(ms, Outflow), events |-> ms]
              /\ UNCHANGED <<job, results>>
  /\ UNCHANGED <<onChain, stored, pruned>>

\* The balance reader answers or throws.
BalanceAnswers ==
  /\ sums # NoSums
  /\ LET balance == Balance(sums.contract) IN
       Verdict(sums.contract, IF balance = sums.expected THEN "match" ELSE "mismatch",
               sums.expected, balance, sums.events)
  /\ sums' = NoSums
  /\ UNCHANGED <<onChain, stored, pruned>>

BalanceFails ==
  /\ sums # NoSums
  /\ Verdict(sums.contract, "error", sums.expected, 0, sums.events)
  /\ sums' = NoSums
  /\ UNCHANGED <<onChain, stored, pruned>>

EndRun ==
  /\ job = <<>> /\ job' = NoRun
  /\ UNCHANGED <<onChain, stored, pruned, sums, results>>

\* A contract that would be overdrawn does not move money.
Move(m) ==
  /\ m \notin onChain /\ onChain' = onChain \cup {m}
  /\ MoveOf[m].kind = "init" \/ MoveOf[m].kind = "fund" \/ Balance(MoveOf[m].contract) >= MoveOf[m].amount
  /\ UNCHANGED <<stored, pruned, job, sums, results>>

\* The poller stores the event; pruneOldEvents deletes it again.
Index(m) ==
  /\ m \in onChain \ (stored \cup pruned) /\ stored' = stored \cup {m}
  /\ UNCHANGED <<onChain, pruned, job, sums, results>>

Prune(m) ==
  /\ m \in stored /\ stored' = stored \ {m} /\ pruned' = pruned \cup {m}
  /\ UNCHANGED <<onChain, job, sums, results>>

\* getLatestReconciliationResults.
Latest(c) == {i \in DOMAIN results : results[i].contract = c /\ \A k \in DOMAIN results : results[k].contract = c => k <= i}

Next ==
  \/ StartRun \/ SumEvents \/ BalanceAnswers \/ BalanceFails \/ EndRun
  \/ \E m \in Moves : Move(m) \/ Index(m) \/ Prune(m)

Spec == Init /\ [][Next]_reconVars

(***************************************************************************)
(* Properties                                                              *)
(***************************************************************************)

\* Type invariant.
TypeOK ==
  /\ stored \cup pruned \subseteq onChain /\ onChain \subseteq Moves /\ stored \cap pruned = {}
  /\ job = NoRun \/ \E n \in 0 .. Len(Contracts) : job = SubSeq(Contracts, n + 1, Len(Contracts))
  /\ sums = NoSums \/ (job # NoRun /\ job # <<>> /\ sums.contract = Head(job))
  /\ \A i \in DOMAIN results : results[i].status \in {"match", "mismatch", "error"}

\* A mismatch has a cause outside of the arithmetic: money of that contract had
\* moved by the time its balance was read that the summed events do not hold,
\* because the move came after the sums, was not indexed yet, or was pruned.  So a
\* contract whose events are all stored is never reported, whatever its history.
MismatchHasACause ==
  [][Len(results') > Len(results) /\ Last(results').status = "mismatch" =>
       \E m \in MovesOf(Last(results').contract, onChain) \ Last(results').events : MoveOf[m].amount # 0]_reconVars
=============================================================================
