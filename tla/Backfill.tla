------------------------------ MODULE Backfill ------------------------------
(***************************************************************************)
(* Historical backfills (src/src/indexer/poller.ts, routes/admin.ts): the  *)
(* range of the environment, fetched at the start of a process unless the  *)
(* database says it was, and the ones an administrator posts, one at a     *)
(* time.  Both run fetchHistoricalEvents while the chain grows; a crash    *)
(* loses everything but the tables.                                        *)
(***************************************************************************)
EXTENDS LedgerRanges, Collections

CONSTANTS
  Posts,           \* requests of the administrator: id -> range
  Configured,      \* LEDGER_RANGE_START and LEDGER_RANGE_END
  OnChain,         \* the events of the active contracts, in order, as ledgers
  Undecodable,     \* those whose decoding throws
  Limit,           \* HISTORICAL_PAGE_SIZE
  MaxSpan,         \* MAX_LEDGERS_PER_IMPORT
  MaxHead,         \* bound: ledgers
  MaxCrashes       \* bound: crashes

VARIABLES
  head,            \* the last ledger of the chain
  rows,            \* the events table, as positions of OnChain
  undecoded,       \* undecodable_events
  recorded,        \* the ranges indexer_state has as historical_backfill
  step,            \* call -> where it is
  cursor,          \* call -> the position its next page starts behind
  starting, job,   \* backfillStarting and backfillJob
  crashes

backfillVars == <<head, rows, undecoded, recorded, step, cursor, starting, job, crashes>>

Boot    == "configured"
Calls   == DOMAIN Posts \cup {Boot}
NoJob   == [id |-> Boot, status |-> "idle"]
Steps   == {"idle", "validating", "begun", "paging", "ended"}

RangeOf(c) == IF c = Boot THEN Configured ELSE Posts[c]

\* doConfiguredHistoricalBackfill up to its first await, at the start of a process.
AtBoot(done) == [c \in Calls |-> IF c = Boot /\ Configured \notin done THEN "begun" ELSE "idle"]

Init ==
  /\ head = 1 /\ rows = {} /\ undecoded = {} /\ recorded = {}
  /\ step = AtBoot({}) /\ cursor = [c \in Calls |-> 0]
  /\ starting = FALSE /\ job = NoJob /\ crashes = 0

CloseLedger ==
  /\ head < MaxHead /\ head' = head + 1
  /\ UNCHANGED <<rows, undecoded, recorded, step, cursor, starting, job, crashes>>

-----------------------------------------------------------------------------
\* validateHistoricalRange.
Valid(r) == ValidRange(r.start, r.end) /\ r.end <= head /\ r.end - r.start + 1 <= MaxSpan

\* POST /backfill up to its await: another one that starts or runs is a 409.
Post(c) ==
  /\ c # Boot /\ step[c] = "idle"
  /\ ~ starting /\ job.status # "running"
  /\ starting' = TRUE
  /\ step' = [step EXCEPT ![c] = "validating"]
  /\ UNCHANGED <<head, rows, undecoded, recorded, cursor, job, crashes>>

\* Mutant of Unguard: only the way to a valid job clears the flag.
UnguardWhenValid(valid) == starting' = (starting /\ ~ valid)

\* The finally clause.
Unguard(valid) == starting' = FALSE

\* getLatestLedger answers: the job is created and its fetch begins, or it is a 400.
Validate(c) ==
  /\ step[c] = "validating"
  /\ step' = [step EXCEPT ![c] = IF Valid(Posts[c]) THEN "begun" ELSE "ended"]
  /\ job' = IF Valid(Posts[c]) THEN [id |-> c, status |-> "running"] ELSE job
  /\ Unguard(Valid(Posts[c]))
  /\ UNCHANGED <<head, rows, undecoded, recorded, cursor, crashes>>

\* getLatestLedger throws: a 503.
ValidationFails(c) ==
  /\ step[c] = "validating"
  /\ step' = [step EXCEPT ![c] = "ended"]
  /\ Unguard(FALSE)
  /\ UNCHANGED <<head, rows, undecoded, recorded, cursor, job, crashes>>

-----------------------------------------------------------------------------
\* The job as the end of its own fetch leaves it.
JobAfter(c, status) == IF job.id = c /\ c # Boot THEN [job EXCEPT !.status = status] ELSE job

\* The fetch throws: the configured one is not recorded and waits for a restart.
FetchFails(c) ==
  /\ step[c] \in {"begun", "paging"}
  /\ step' = [step EXCEPT ![c] = "ended"]
  /\ job' = JobAfter(c, "failed")
  /\ UNCHANGED <<head, rows, undecoded, recorded, cursor, starting, crashes>>

\* fetchHistoricalEvents validates against the head it reads itself.
BeginFetch(c) ==
  /\ step[c] = "begun" /\ Valid(RangeOf(c))
  /\ step' = [step EXCEPT ![c] = "paging"]
  /\ UNCHANGED <<head, rows, undecoded, recorded, cursor, starting, job, crashes>>

\* getEvents: the first page has the range, the next ones only the cursor, so
\* they go on beyond its end.
Answer(c) ==
  FirstN({p \in DOMAIN OnChain :
            /\ OnChain[p] <= head
            /\ IF cursor[c] = 0 THEN InRange(OnChain[p], RangeOf(c)) ELSE p > cursor[c]}, Limit)

\* Mutant of IsLastPage: a page that fills the limit is taken for the last one.
IsLastPageAtLimit(page) == Cardinality(page) <= Limit

\* A page that is not full is the last one.
IsLastPage(page) == Cardinality(page) < Limit

\* One page: what decodes and lies in the range is inserted, through the write
\* queue; the last page ends the fetch.
FetchPage(c) ==
  /\ step[c] = "paging"
  /\ LET page == Answer(c)
         got  == {p \in page : InRange(OnChain[p], RangeOf(c))}
         last == IsLastPage(page)
     IN  /\ rows' = rows \cup (got \ Undecodable)
         /\ undecoded' = undecoded \cup (page \cap Undecodable)
         /\ cursor' = [cursor EXCEPT ![c] = IF page = {} THEN @ ELSE Max(page)]
         /\ step' = [step EXCEPT ![c] = IF last THEN "ended" ELSE "paging"]
         /\ job' = IF last THEN JobAfter(c, "done") ELSE job
         /\ recorded' = IF last /\ c = Boot THEN recorded \cup {Configured} ELSE recorded
  /\ UNCHANGED <<head, starting, crashes>>

\* The process dies and starts again.
Crash ==
  /\ crashes < MaxCrashes /\ crashes' = crashes + 1
  /\ step' = AtBoot(recorded) /\ cursor' = [c \in Calls |-> 0]
  /\ starting' = FALSE /\ job' = NoJob
  /\ UNCHANGED <<head, rows, undecoded, recorded>>

Call(c) ==
  \/ Post(c) \/ Validate(c) \/ ValidationFails(c)
  \/ BeginFetch(c) \/ FetchPage(c) \/ FetchFails(c)

Next == CloseLedger \/ Crash \/ \E c \in Calls : Call(c)

Spec == Init /\ [][Next]_backfillVars

(***************************************************************************)
(* Properties                                                              *)
(***************************************************************************)

\* Type invariant.
TypeOK ==
  /\ head \in 1 .. MaxHead /\ rows \cup undecoded \subseteq DOMAIN OnChain
  /\ recorded \subseteq {Configured}
  /\ step \in [Calls -> Steps] /\ cursor \in [Calls -> 0 .. Len(OnChain)]
  /\ starting \in BOOLEAN /\ job.id \in Calls
  /\ job.status \in {"idle", "running", "done", "failed"}

Within(r) == {p \in DOMAIN OnChain : InRange(OnChain[p], r)}

\* A range that is recorded, or an administrator's job that says it is done, has
\* every event of its range in the database, whatever failed, crashed or ran
\* beside it before: nothing would ever fetch the range again.
DoneBackfillIsComplete ==
  /\ \A r \in recorded : Within(r) \subseteq rows \cup undecoded
  /\ job.status = "done" => Within(Posts[job.id]) \subseteq rows \cup undecoded

Fetching == {c \in DOMAIN Posts : step[c] \in {"begun", "paging"}}

\* The 409 guard is held by exactly the request that validates or fetches: two
\* posts never run at once, and no failure leaves the guard closed for good.
GuardHasItsBackfill ==
  /\ starting <=> \E c \in DOMAIN Posts : step[c] = "validating"
  /\ job.status = "running" <=> job.id \in Fetching
  /\ Cardinality({c \in DOMAIN Posts : step[c] \in {"validating", "begun", "paging"}}) <= 1
=============================================================================
