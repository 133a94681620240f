----------------------------- MODULE EventStore -----------------------------
(***************************************************************************)
(* The events table and what is kept beside it (src/src/indexer/db.ts):    *)
(* who takes part in which job, the cached pages of jobs by wallet, and    *)
(* the sync ranges of imports with deduplication.  Every writer of events  *)
(* is an action; all of them are synchronous, so each is one step.         *)
(***************************************************************************)
EXTENDS Collections, SequencesExt

CONSTANTS
  Events,      \* what writers may offer: [job, type, ledger, id, roles] records
  Batches,     \* sequences of them
  Wallets,
  Imports,     \* what insertEventsWithDedup may be given: [events, start, end] records
  Ranges,      \* the ledger ranges callers name: [start, end] records
  PageSize,    \* the limit of a page of jobs
  MaxLedger, MaxRows

VARIABLES
  rows,          \* the events table in the order of its ids: [event, key] records
  participants,  \* job_participants: <<job, wallet, role>>
  pages,         \* jobsByWalletCache: wallet -> its cached first page, or NoPage
  syncRanges,    \* sync_ranges: [start, end] records
  pointer,       \* last_ledger_sequence
  excused        \* history: wallets whose page became stale in a known way

storeVars == <<rows, participants, pages, syncRanges, pointer, excused>>

NoPage == [total |-> -1]
NoKey  == <<>>       \* a NULL event_id, which no UNIQUE index compares
NoId   == "none"       \* a notification without an id
Roles  == <<"client", "freelancer", "arbiter">>

InitTypes == {"init", "fund"}
ListedTypes == {"init", "initialized", "funded", "dispute_raised", "dispute_resolved",
                "partial_release", "approved", "delivered"}

Init ==
  /\ rows = <<>> /\ participants = {} /\ pages = [w \in Wallets |-> NoPage]
  /\ syncRanges = {} /\ pointer = 0 /\ excused = {}

-----------------------------------------------------------------------------
\* eventInsertLockKey: contract:ledger:type.
Identity(e) == <<e.job, e.ledger, e.type>>

\* eventDedupeId: the id of the notification, or that.
EventDedupeId(e) == IF e.id = NoId THEN Identity(e) ELSE <<e.id>>

Keys(rs) == {rs[i].key : i \in DOMAIN rs} \ {NoKey}

\* INSERT OR IGNORE with the UNIQUE(event_id) of migration 13: which of the new
\* rows, by their positions, are inserted?
Fresh(new) ==
  {i \in DOMAIN new : /\ new[i].key \notin Keys(rows)
                      /\ new[i].key # NoKey => \A j \in 1 .. i - 1 : new[j].key # new[i].key}

\* The insert loop.
InsertOrIgnore(new) ==
  /\ Len(rows) + Cardinality(Fresh(new)) <= MaxRows
  /\ \E order \in Listings(Fresh(new)) : rows' = rows \o [n \in DOMAIN order |-> new[order[n]]]

\* The rows the loops of all writers but one make of their events.
RowsFor(events) == [i \in DOMAIN events |-> [event |-> events[i], key |-> EventDedupeId(events[i])]]

\* The wallets an event names, by role.
Named(e) == {e.roles[r] : r \in DOMAIN e.roles}

\* recordJobParticipants: every event but a "created" one names participants.
ParticipantsOf(e) ==
  IF e.type = "created" THEN {} ELSE {<<e.job, e.roles[r], r>> : r \in DOMAIN e.roles}

\* Mutant of ExtractAddresses: the arbiter is forgotten.
ExtractAddressesButArbiters(events) ==
  UNION {{e.roles[r] : r \in DOMAIN e.roles \ {"arbiter"}} : e \in {f \in ToSet(events) : f.type \in ListedTypes}}

\* extractAddressesFromEvents: who is named by an event of a listed type.
ExtractAddresses(events) == UNION {Named(e) : e \in {f \in ToSet(events) : f.type \in ListedTypes}}

\* The participants after the insert loop: those of a row that was ignored are not
\* recorded again.
ParticipantsWith(events) ==
  participants \cup UNION {ParticipantsOf(events[i]) : i \in Fresh(RowsFor(events))}

-----------------------------------------------------------------------------
JobsOf(w, parts) == {p[1] : p \in {q \in parts : q[2] = w}}

RowsOf(rs, j) == {i \in DOMAIN rs : rs[i].event.job = j}

\* The latest row of a job by ledger, then by id; and the first one.
Later(rs, i, k) == rs[i].event.ledger > rs[k].event.ledger \/ (rs[i].event.ledger = rs[k].event.ledger /\ i > k)
Latest(rs, j) == The({rs[i].event : i \in {l \in RowsOf(rs, j) : \A k \in RowsOf(rs, j) \ {l} : Later(rs, l, k)}})
First(rs, j)  == The({rs[i].event : i \in {l \in RowsOf(rs, j) : \A k \in RowsOf(rs, j) \ {l} : Later(rs, k, l)}})

\* The first role, in the order client, freelancer, arbiter, a wallet has in a job.
RoleIn(j, w, parts) == The({Roles[i] : i \in {l \in 1 .. 3 :
                              /\ <<j, w, Roles[l]>> \in parts
                              /\ \A k \in 1 .. l - 1 : <<j, w, Roles[k]>> \notin parts}})

\* The query of getJobsByWallet, latest jobs first: a job without rows is counted
\* and not listed.  (first: the event milestone_count is taken from.)
Listed(w, rs, parts) == {j \in JobsOf(w, parts) : RowsOf(rs, j) # {}}

Before(j, w, rs, parts) == {k \in Listed(w, rs, parts) : Latest(rs, k).ledger > Latest(rs, j).ledger}

Summary(j, w, rs, parts) ==
  [job |-> j, role |-> RoleIn(j, w, parts), latest |-> Latest(rs, j), first |-> First(rs, j)]

JobsByWallet(w, rs, parts) ==
  [total |-> Cardinality(JobsOf(w, parts)),
   jobs  |-> {Summary(j, w, rs, parts) :
                j \in {k \in Listed(w, rs, parts) : Cardinality(Before(k, w, rs, parts)) < PageSize}}]

\* getJobsByWallet: a cached page is the answer as it is.
GetJobsByWallet(w) ==
  /\ pages[w] = NoPage
  /\ pages' = [pages EXCEPT ![w] = JobsByWallet(w, rows, participants)]
  /\ excused' = excused \ {w}
  /\ UNCHANGED <<rows, participants, syncRanges, pointer>>

\* JOBS_BY_WALLET_CACHE_TTL_S passes for a page.
PageExpires(w) ==
  /\ pages[w] # NoPage
  /\ pages' = [pages EXCEPT ![w] = NoPage] /\ excused' = excused \ {w}
  /\ UNCHANGED <<rows, participants, syncRanges, pointer>>

\* invalidateJobsByWalletCache: no address at all drops every page, but the
\* writers do not call it without one.
Invalidate(addresses) == [w \in Wallets |-> IF w \in addresses THEN NoPage ELSE pages[w]]

\* History: the wallets an event concerns and that its types or its payload do
\* not lead the invalidation to.
Unannounced(events, parts) ==
  UNION {{w \in Wallets : e.job \in JobsOf(w, parts)} \ (IF e.type \in ListedTypes THEN Named(e) ELSE {})
         : e \in ToSet(events)}

StillExcused(more) == {w \in (excused \cup more) : pages'[w] # NoPage}

\* What insertEventBatch and insertHistoricalEventBatch have in common.
WriteBatch(events) ==
  /\ InsertOrIgnore(RowsFor(events))
  /\ participants' = ParticipantsWith(events)
  /\ pages' = Invalidate(ExtractAddresses(events))
  /\ excused' = StillExcused(Unannounced(events, participants'))
  /\ UNCHANGED syncRanges

\* insertEventBatch: the pointer is set to whatever it is given.
InsertEventBatch(events, newLedger) == WriteBatch(events) /\ pointer' = newLedger

\* insertHistoricalEventBatch: a range that is none, or an event outside of it,
\* throws before anything is written; the pointer only ever goes up.
InsertHistoricalEventBatch(events, start, end, advanceLivePointer) ==
  /\ 1 <= start /\ start <= end
  /\ \A e \in ToSet(events) : start <= e.ledger /\ e.ledger <= end
  /\ WriteBatch(events)
  /\ pointer' = IF advanceLivePointer /\ end > pointer THEN end ELSE pointer

\* insertEvent drops no page.
InsertEvent(e) ==
  /\ InsertOrIgnore(RowsFor(<<e>>))
  /\ participants' = ParticipantsWith(<<e>>)
  /\ pages' = pages
  /\ excused' = StillExcused({w \in Wallets : e.job \in JobsOf(w, participants')})
  /\ UNCHANGED <<syncRanges, pointer>>

\* insertEventsWithDedup: the rows have no event id, nothing is recorded of the
\* participants, and the range is written in the same transaction.
InsertEventsWithDedup(import) ==
  /\ InsertOrIgnore([i \in DOMAIN import.events |-> [event |-> import.events[i], key |-> NoKey]])
  /\ syncRanges' = syncRanges \cup {[start |-> import.start, end |-> import.end]}
  /\ pages' = pages
  /\ excused' = StillExcused({w \in Wallets : \E e \in ToSet(import.events) : e.job \in JobsOf(w, participants)})
  /\ UNCHANGED <<participants, pointer>>

\* deleteEventsInRange: the sync ranges inside the range go with the events.
DeleteEventsInRange(start, end) ==
  LET kept == {i \in DOMAIN rows : rows[i].event.ledger < start \/ rows[i].event.ledger > end} IN
    /\ \E order \in Listings(kept) : rows' = [n \in DOMAIN order |-> rows[order[n]]]
    /\ syncRanges' = {s \in syncRanges : ~ (s.start >= start /\ s.end <= end)}
    /\ pages' = pages
    /\ excused' = StillExcused(Wallets)
    /\ UNCHANGED <<participants, pointer>>

\* isDuplicateEvent, isLedgerSynced, countEventsInRange and getHistoricalEventCounts.
IsDuplicateEvent(e) == \E i \in DOMAIN rows : Identity(rows[i].event) = Identity(e)
IsLedgerSynced(l) == \E s \in syncRanges : s.start <= l /\ l <= s.end
CountEventsInRange(start, end) == Cardinality({i \in DOMAIN rows : rows[i].event.ledger \in start .. end})

Next ==
  \/ \E w \in Wallets : GetJobsByWallet(w) \/ PageExpires(w)
  \/ \E batch \in Batches, newLedger \in 1 .. MaxLedger : InsertEventBatch(batch, newLedger)
  \/ \E batch \in Batches, r \in Ranges, advance \in BOOLEAN :
       InsertHistoricalEventBatch(batch, r.start, r.end, advance)
  \/ \E e \in Events : InsertEvent(e)
  \/ \E import \in Imports : InsertEventsWithDedup(import)
  \/ \E r \in Ranges : DeleteEventsInRange(r.start, r.end)

Spec == Init /\ [][Next]_storeVars

(***************************************************************************)
(* Properties                                                              *)
(***************************************************************************)

\* Type invariant.
TypeOK ==
  /\ Len(rows) <= MaxRows /\ pointer \in 0 .. MaxLedger /\ excused \subseteq Wallets
  /\ \A i \in DOMAIN rows : rows[i].event \in Events
  /\ \A s \in syncRanges : s.start <= s.end

\* A cached page of jobs is what the tables say, unless one of the gaps of the
\* invalidation opened since it was cached: an event of a type that is not
\* listed, a payload that does not name the wallet, or a writer that drops no page.
PageIsCurrent ==
  \A w \in Wallets \ excused : pages[w] # NoPage => pages[w] = JobsByWallet(w, rows, participants)

\* The comment of insertEventsWithDedup: it uses INSERT OR IGNORE against the
\* UNIQUE(contract_id, ledger_sequence, event_type) constraint.  Then no row it
\* wrote repeats the contract, ledger and type of another row.
ReimportAddsNothing ==
  \A i, k \in DOMAIN rows :
    rows[k].key = NoKey /\ i < k => Identity(rows[i].event) # Identity(rows[k].event)
=============================================================================
