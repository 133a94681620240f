---------------------------- MODULE RangeTracker ----------------------------
(***************************************************************************)
(* The ledger range tracker (src/src/indexer/ledger-range-tracker.ts):     *)
(* processRange of several imports in one process.  An import resolves its *)
(* range, waits until no running import overlaps it, fetches the range     *)
(* page by page with retries, inserts what it fetched and may set the live *)
(* pointer.  The fetches and the wait for other imports are awaits.        *)
(***************************************************************************)
EXTENDS LedgerRanges, Collections

CONSTANTS
  Imports,       \* calls of processRange
  Options,       \* import -> its options (start, end, defaultEnd, advance)
  EnvRange,      \* LEDGER_RANGE_START and LEDGER_RANGE_END
  OnChain,       \* event -> its ledger
  PageSize,      \* LEDGER_RANGE_PAGE_SIZE
  MaxRetries,    \* rpcRetryConfig.maxRetries (5)
  MaxLedger      \* no range reaches beyond it

VARIABLES
  phase,       \* import -> where it is
  range,       \* import -> its range, once resolved
  blockers,    \* import -> the imports whose end it awaits
  active,      \* activeRangeLocks: the imports that hold their range
  page,        \* import -> the page it fetches
  attempt,     \* import -> the attempt of that fetch
  collected,   \* import -> events fetched
  inserted,    \* import -> insertedCount of its persist
  events,      \* the events table
  pointer,     \* indexer_state.last_ledger_sequence
  failures     \* failureMonitor.consecutiveFailures

rangeVars == <<phase, range, blockers, active, page, attempt, collected, inserted, events, pointer, failures>>

Phases == {"idle", "waiting", "fetching", "persisting", "done", "failed", "invalid"}
Ended(i) == phase[i] \in {"done", "failed", "invalid"}

Init ==
  /\ phase = [i \in Imports |-> "idle"] /\ range = [i \in Imports |-> NoRange]
  /\ blockers = [i \in Imports |-> {}] /\ active = {}
  /\ page = [i \in Imports |-> 0] /\ attempt = [i \in Imports |-> 0]
  /\ collected = [i \in Imports |-> {}] /\ inserted = [i \in Imports |-> 0]
  /\ events = {} /\ pointer = 0 /\ failures = 0

-----------------------------------------------------------------------------
\* Mutant of Lock: an import takes its place in the list before it waits.
LockThenWait(i, found) ==
  /\ active' = active \cup {i}
  /\ blockers' = [blockers EXCEPT ![i] = found]

\* withOverlappingRangeLock, inside the range mutex: an import that finds no
\* overlapping one holds its range, another one awaits those it found.
Lock(i, found) ==
  /\ active' = IF found = {} THEN active \cup {i} ELSE active
  /\ blockers' = [blockers EXCEPT ![i] = found]

Overlapping(i, r) == {j \in active \ {i} : RangesOverlap(range[j], r)}

TryLock(i, r) ==
  /\ Lock(i, Overlapping(i, r))
  /\ phase' = [phase EXCEPT ![i] = IF blockers'[i] = {} THEN "fetching" ELSE "waiting"]
  /\ page' = [page EXCEPT ![i] = 1]

\* processRange up to the lock.  An import that asks for no valid range is
\* rejected, and that is no failure to the monitor.
Start(i) ==
  /\ phase[i] = "idle"
  /\ LET r == ResolveRange([start |-> Options[i].start, end |-> Options[i].end,
                            defaultStart |-> DefaultStart(pointer), defaultEnd |-> Options[i].defaultEnd], EnvRange)
     IN  IF r = NoRange
         THEN /\ phase' = [phase EXCEPT ![i] = "invalid"]
              /\ UNCHANGED <<range, blockers, active, page>>
         ELSE /\ range' = [range EXCEPT ![i] = r]
              /\ TryLock(i, r)
  /\ UNCHANGED <<attempt, collected, inserted, events, pointer, failures>>

\* Every import it found has ended: it looks again.
Retry(i) ==
  /\ phase[i] = "waiting"
  /\ \A j \in blockers[i] : Ended(j)
  /\ TryLock(i, range[i])
  /\ UNCHANGED <<range, attempt, collected, inserted, events, pointer, failures>>

Pages(i) == ChunkLedgerRange(range[i], PageSize)

\* fetchEvents answers; what is outside of the page is dropped.
FetchPage(i) ==
  /\ phase[i] = "fetching"
  /\ collected' = [collected EXCEPT ![i] = @ \cup FilterToRange(DOMAIN OnChain, OnChain, Pages(i)[page[i]])]
  /\ page' = [page EXCEPT ![i] = @ + 1]
  /\ attempt' = [attempt EXCEPT ![i] = 0]
  /\ phase' = [phase EXCEPT ![i] = IF page[i] = Len(Pages(i)) THEN "persisting" ELSE "fetching"]
  /\ UNCHANGED <<range, blockers, active, inserted, events, pointer, failures>>

\* The finally clause of the lock and the catch clause of processRange.
Fail(i) ==
  /\ phase' = [phase EXCEPT ![i] = "failed"]
  /\ active' = active \ {i}
  /\ failures' = failures + 1

\* withLedgerRangeRpcRetry: an error that passes is tried again, another one or
\* the last attempt ends the import.
FetchFails(i) ==
  /\ phase[i] = "fetching"
  /\ \/ /\ attempt[i] < MaxRetries
        /\ attempt' = [attempt EXCEPT ![i] = @ + 1]
        /\ UNCHANGED <<phase, active, failures>>
     \/ Fail(i) /\ UNCHANGED attempt
  /\ UNCHANGED <<range, blockers, page, collected, inserted, events, pointer>>

\* persistEventsIdempotent: rows that are stored are duplicates.  The locks per
\* event add nothing while the range is held.
Persist(i) ==
  /\ phase[i] = "persisting"
  /\ events' = events \cup collected[i]
  /\ inserted' = [inserted EXCEPT ![i] = Cardinality(collected[i] \ events)]
  /\ pointer' = IF Options[i].advance THEN range[i].end ELSE pointer
  /\ phase' = [phase EXCEPT ![i] = "done"]
  /\ active' = active \ {i}
  /\ failures' = 0
  /\ UNCHANGED <<range, blockers, page, attempt, collected>>

\* One insert throws: the rows of the other keys are stored all the same.
PersistFails(i) ==
  /\ phase[i] = "persisting"
  /\ \E stored \in SUBSET collected[i] :
       /\ stored # collected[i]
       /\ events' = events \cup stored
       /\ inserted' = [inserted EXCEPT ![i] = Cardinality(stored \ events)]
  /\ Fail(i)
  /\ UNCHANGED <<range, blockers, page, attempt, collected, pointer>>

Step(i) == Start(i) \/ Retry(i) \/ FetchPage(i) \/ FetchFails(i) \/ Persist(i) \/ PersistFails(i)

Next == \E i \in Imports : Step(i)

Spec == Init /\ [][Next]_rangeVars /\ \A i \in Imports : WF_rangeVars(Step(i))

(***************************************************************************)
(* Properties                                                              *)
(***************************************************************************)

\* Type invariant.
TypeOK ==
  /\ phase \in [Imports -> Phases]
  /\ \A i \in Imports : range[i] = NoRange \/ ValidRange(range[i].start, range[i].end)
  /\ blockers \in [Imports -> SUBSET Imports] /\ active \subseteq Imports
  /\ page \in [Imports -> Nat] /\ attempt \in [Imports -> 0 .. MaxRetries]
  /\ \A i \in Imports : collected[i] \subseteq DOMAIN OnChain /\ inserted[i] \in Nat
  /\ events \subseteq DOMAIN OnChain /\ pointer \in Nat /\ failures \in Nat

\* The imports between their lock and their end, with the range they work on.
Working == {i \in Imports : phase[i] \in {"fetching", "persisting"}}
Exclusion == INSTANCE RangeLock WITH
  Clients <- Imports, MaxLedger <- MaxLedger,
  holding <- [i \in Imports |-> IF i \in Working THEN range[i] ELSE NoRange]

\* The tracker implements the range lock: two imports that share a ledger never
\* work at the same time, whatever they await, and each works once.
WorkIsExclusive == Exclusion!Spec

\* An import that reports success has stored every event of its range, page
\* borders included, and however the imports interleave and fail the
\* insertedCounts count every row of the table once.
ImportIsCompleteAndCountedOnce ==
  /\ \A i \in Imports : phase[i] = "done" =>
       {e \in DOMAIN OnChain : range[i].start <= OnChain[e] /\ OnChain[e] <= range[i].end} \subseteq events
  /\ Total(inserted, Imports) = Cardinality(events)

\* Imports that wait for each other never wait for ever: each one ends.
EveryImportEnds == \A i \in Imports : <>Ended(i)
=============================================================================
