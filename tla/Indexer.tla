------------------------------ MODULE Indexer ------------------------------
(***************************************************************************)
(* The live poller of the escrow indexer (src/src/indexer/poller.ts) over  *)
(* the SQLite state it keeps (src/src/indexer/db.ts): one poll cycle reads *)
(* the chain head, groups the active contracts by their ledger pointer,    *)
(* follows the RPC cursor page by page for each group, and commits every   *)
(* page together with the global pointer before it moves the pointers of   *)
(* the group.  A `created` event of the factory registers a child contract *)
(* and fetches the child's first page inside the same cycle.  A cycle that *)
(* ends well queues the webhook range it covered.                          *)
(*                                                                         *)
(* One action is one synchronous stretch of the code between two awaits or *)
(* between two committed SQLite transactions, the places where another     *)
(* actor runs or a crash can fall.  The chain and the RPC node are the     *)
(* environment: an event is known by its position in the chain.            *)
(***************************************************************************)
EXTENDS Collections

CONSTANTS
  Factory,       \* FACTORY_CONTRACT_ID, registered by the first poll
  Children,      \* escrow contracts the factory can create
  Adopted,       \* contracts deployed without the factory
  Legacy,        \* those of Adopted named by CONTRACT_ID (at most one)
  PageLimit,     \* events per getEvents page, 100 in the code
  MaxPages,      \* POLLER_MAX_PAGES_PER_POLL, 20 by default
  Managed,       \* contracts the administrator registers and deregisters
  AdminStarts,   \* startLedger values of POST /contracts, 0 when left out
  Faults,        \* what can go wrong: "rpc", "db", "crash"
  MaxLedger,     \* bound: ledgers the chain closes
  LedgerLimit,   \* bound: events in one ledger
  MaxOldest,     \* bound: how far the RPC retention window moves
  MaxQueue       \* bound: webhook ranges waiting at once

Contracts == {Factory} \cup Children \cup Adopted
NoContract == "none"

ASSUME ContractsAssumption ==
  /\ Factory \notin Children \cup Adopted
  /\ Children \cap Adopted = {}
  /\ IsFiniteSet(Children \cup Adopted)
  /\ NoContract \notin Contracts
  /\ Legacy \subseteq Adopted
  /\ Cardinality(Legacy) <= 1
  /\ Managed \subseteq Contracts

ASSUME BoundsAssumption ==
  /\ PageLimit \in Nat \ {0}
  /\ MaxPages \in Nat \ {0}
  /\ AdminStarts \subseteq Nat
  /\ Faults \subseteq {"rpc", "db", "crash"}
  /\ MaxLedger \in Nat
  /\ LedgerLimit \in Nat
  /\ MaxOldest \in Nat
  /\ MaxQueue \in Nat

VARIABLES
  chain,         \* the events of the closed ledgers, in order
  head,          \* the last closed ledger
  oldest,        \* the oldest ledger the RPC node still serves
  stored,        \* table events: the positions of the stored rows
  globalLedger,  \* indexer_state.last_ledger_sequence
  rowId,         \* monitored_contracts.id, 0 when there is no row
  active,        \* monitored_contracts.active
  last,          \* monitored_contracts.last_ledger_sequence
  startAt,       \* monitored_contracts.start_ledger
  gap,           \* indexer_state.skipped_ledger_range
  pc,            \* where the poll cycle is suspended
  cycle,         \* locals of pollEvents: currentLedger, groups, minStartLedger
  group,         \* locals of the page loop of one group
  page,          \* locals of one page
  queue,         \* webhookDeliveryTail: ranges waiting for delivery
  offered,       \* events a delivery run has read from the database
  since,         \* history: head when the contract was first registered
  due,           \* history: rows stored by a cycle whose range should cover them
  excused        \* history: up to where a pointer ran ahead of its rows for a known reason

chainVars == <<chain, head, oldest>>
dbVars    == <<stored, globalLedger, rowId, active, last, startAt, gap>>
pollVars  == <<pc, cycle, group, page>>
vars      == <<chain, head, oldest, stored, globalLedger, rowId, active, last, startAt,
               gap, pc, cycle, group, page, queue, offered, since, due, excused>>

histVars  == <<since, due, excused>>

NoRange    == <<0, 0>>
NoCycle    == [current |-> 0, todo |-> {}, from |-> 0]
NoGroup    == [members |-> {}, start |-> 0, cursor |-> 0, pages |-> 0, clamped |-> FALSE]
NoPage     == [events |-> {}, latest |-> 0, kids |-> {}, batch |-> {}, left |-> {}]

Events == DOMAIN chain

(***************************************************************************)
(* The chain and the RPC node                                              *)
(***************************************************************************)

\* The payloads a ledger can hold: the factory announces a child, every other
\* contract emits events the poller treats alike.
Payloads == [contract : {Factory}, child : Children]
              \cup [contract : Contracts \ {Factory}, child : {NoContract}]

\* A child is announced once, and emits nothing in a ledger before that.
LegalLedger(s) ==
  LET all == [i \in DOMAIN chain |-> chain[i].child] \o [i \in DOMAIN s |-> s[i].child]
      announced == {all[i] : i \in DOMAIN all}
  IN /\ \A i, j \in DOMAIN all : all[i] \in Children /\ all[i] = all[j] => i = j
     /\ \A i \in DOMAIN s : s[i].contract \in Children => s[i].contract \in announced

\* What getEvents finds: from a start ledger, or behind a cursor.
Matching(members, start, cursor) ==
  {i \in Events : /\ chain[i].contract \in members
                  /\ IF cursor = 0 THEN chain[i].ledger >= start ELSE i > cursor}

\* The node refuses a start ledger or a cursor it no longer retains.
Retained(start, cursor) ==
  IF cursor = 0 THEN start >= oldest ELSE chain[cursor].ledger >= oldest

LastLedgerOf(S) == Max({chain[i].ledger : i \in S})

(***************************************************************************)
(* The database                                                            *)
(***************************************************************************)

Registered(c) == rowId[c] # 0

Active == {c \in Contracts : active[c]}

\* History: of some contracts, what their pointers pass is excused up to a ledger.
Excuse(cs, upto) ==
  excused' = [c \in Contracts |-> IF c \in cs THEN Max({excused[c], upto[c]}) ELSE excused[c]]

\* Contracts that are polled from the global pointer, having none of their own.
Pointerless == {c \in Contracts : Registered(c) /\ last[c] = 0 /\ startAt[c] = 0}

\* AUTOINCREMENT; rows are never deleted.
NextRowId == 1 + Cardinality({c \in Contracts : Registered(c)})

\* ORDER BY id: the contract of a set that was registered first.
FirstRow(S) == CHOOSE c \in S : \A d \in S : rowId[c] <= rowId[d]

\* Mutant of Pointer: a start ledger that was left out is used all the same.
PointerBeforeStart(c) == IF last[c] > 0 THEN last[c] ELSE startAt[c] - 1

\* The pointer a contract is polled from: its own, else the one before its
\* start ledger, else the global one.
Pointer(c) == IF last[c] > 0 THEN last[c]
              ELSE IF startAt[c] > 0 THEN startAt[c] - 1
              ELSE globalLedger

\* INSERT ... ON CONFLICT DO UPDATE SET active = 1: the start ledger is kept
\* when there is a row already.
RegisterContract(c, start, sinceLedger) ==
  /\ active' = [active EXCEPT ![c] = TRUE]
  /\ IF Registered(c)
     THEN UNCHANGED <<rowId, startAt, since>>
     ELSE /\ rowId'   = [rowId EXCEPT ![c] = NextRowId]
          /\ startAt' = [startAt EXCEPT ![c] = start]
          /\ since'   = [since EXCEPT ![c] = sinceLedger]

(***************************************************************************)
(* Initial state: a migrated database, a chain with no ledger yet          *)
(***************************************************************************)

Init ==
  /\ chain = <<>> /\ head = 0 /\ oldest = 1
  /\ stored = {} /\ globalLedger = 0
  /\ rowId   = [c \in Contracts |-> 0]
  /\ active  = [c \in Contracts |-> FALSE]
  /\ last    = [c \in Contracts |-> 0]
  /\ startAt = [c \in Contracts |-> 0]
  /\ gap = NoRange
  /\ pc = "idle" /\ cycle = NoCycle /\ group = NoGroup /\ page = NoPage
  /\ queue = <<>> /\ offered = {} /\ due = {}
  /\ since = [c \in Contracts |-> 0] /\ excused = [c \in Contracts |-> 0]

(***************************************************************************)
(* Environment                                                             *)
(***************************************************************************)

CloseLedger ==
  /\ head < MaxLedger
  /\ \E n \in 0 .. LedgerLimit : \E s \in [1 .. n -> Payloads] :
       /\ LegalLedger(s)
       /\ chain' = chain \o [i \in 1 .. n |-> [ledger   |-> head + 1,
                                               contract |-> s[i].contract,
                                               child    |-> s[i].child]]
  /\ head' = head + 1
  /\ UNCHANGED <<oldest, dbVars, pollVars, queue, offered, histVars>>

\* The retention window moves on.
ExpireLedger ==
  /\ oldest < MaxOldest /\ oldest < head
  /\ oldest' = oldest + 1
  /\ UNCHANGED <<chain, head, dbVars, pollVars, queue, offered, histVars>>

(***************************************************************************)
(* Administration: POST and DELETE /api/admin/contracts                    *)
(***************************************************************************)

AdminRegister(c, start) ==
  /\ ~ active[c]
  /\ RegisterContract(c, start, IF start > 0 THEN start - 1 ELSE head)
  /\ UNCHANGED <<chainVars, stored, globalLedger, last, gap, pollVars, queue, offered, due,
                 excused>>

DeregisterContract(c) ==
  /\ active[c]
  /\ active' = [active EXCEPT ![c] = FALSE]
  /\ UNCHANGED <<chainVars, stored, globalLedger, rowId, last, startAt, gap, pollVars,
                 queue, offered, histVars>>

(***************************************************************************)
(* One poll cycle                                                          *)
(***************************************************************************)

\* Mutant of Activated: CONTRACT_ID is activated like the factory.
ActivatedAlways(unseen) == {Factory} \cup Legacy

\* What ensureMonitoredContracts leaves active: the factory always, CONTRACT_ID
\* only when it has no row yet.
Activated(unseen) == {Factory} \cup unseen

\* pollEvents up to its first await: the configured contracts are registered,
\* the factory before the legacy contract.  A deregistered factory is activated
\* again, a deregistered legacy contract is not.
PollEvents ==
  LET unseen == {c \in {Factory} \cup Legacy : ~ Registered(c)} IN
  /\ pc = "idle"
  /\ active' = [c \in Contracts |-> c \in Activated(unseen) \/ active[c]]
  /\ rowId'  = [c \in Contracts |-> IF c \notin unseen THEN rowId[c]
                                    ELSE IF c = Factory \/ Factory \notin unseen THEN NextRowId
                                    ELSE NextRowId + 1]
  /\ since'  = [c \in Contracts |-> IF c \in unseen THEN head ELSE since[c]]
  /\ pc' = "head"
  /\ UNCHANGED <<chainVars, stored, globalLedger, last, startAt, gap, cycle, group,
                 page, queue, offered, due, excused>>

\* getLatestLedger answers; the groups are read after that await.  A group the
\* head has not passed is not polled.
GroupByPointer ==
  LET groups == {[pointer |-> Pointer(c), members |-> {d \in Active : Pointer(d) = Pointer(c)}]
                   : c \in Active}
  IN /\ pc = "head"
     /\ cycle' = [NoCycle EXCEPT !.current = head,
                                 !.todo = {g \in groups : g.pointer < head}]
     /\ pc' = "groups"
     /\ UNCHANGED <<chainVars, dbVars, group, page, queue, offered, histVars>>

\* Mutant of MinStart: the range starts at the group polled first.
FirstStart(from, start) == IF from = 0 THEN start ELSE from

\* minStartLedger: the lowest start of the groups polled so far.
MinStart(from, start) == IF from = 0 THEN start ELSE Min({from, start})

\* Groups are polled in the order of their first member.
BeginGroup(g) ==
  /\ pc = "groups" /\ g \in cycle.todo
  /\ FirstRow(UNION {h.members : h \in cycle.todo}) \in g.members
  /\ cycle' = [cycle EXCEPT !.todo = @ \ {g},
                            !.from = MinStart(@, g.pointer + 1)]
  /\ group' = [NoGroup EXCEPT !.members = g.members, !.start = g.pointer + 1]
  /\ pc' = "fetch"
  /\ UNCHANGED <<chainVars, dbVars, page, queue, offered, histVars>>

\* The request fell behind the retention window: the gap overwrites the one
\* recorded before, and the request is repeated once from the oldest ledger.
ClampToRetention ==
  /\ pc = "fetch" /\ group.cursor = 0 /\ ~ group.clamped
  /\ ~ Retained(group.start, 0)
  /\ gap' = <<group.start, oldest - 1>>
  /\ group' = [group EXCEPT !.start = oldest, !.clamped = TRUE]
  /\ LET passed == Matching(group.members, group.start, 0) \ Matching(group.members, oldest, 0)
     IN Excuse(Children \cap {chain[k].child : k \in passed}, last)
  /\ UNCHANGED <<chainVars, stored, globalLedger, rowId, active, last, startAt, pc, cycle,
                 page, queue, offered, since, due>>

FetchPage ==
  LET found == FirstN(Matching(group.members, group.start, group.cursor), PageLimit)
      kids  == {i \in found : chain[i].child # NoContract}
  IN /\ pc = "fetch" /\ Retained(group.start, group.cursor)
     /\ page' = [events |-> found, latest |-> head, kids |-> kids, batch |-> found,
                 left |-> {}]
     /\ pc' = "page"
     /\ UNCHANGED <<chainVars, dbVars, cycle, group, queue, offered, histVars>>

\* The page loop handles the `created` events in page order: register, then
\* await the child's first page.
RegisterChild ==
  LET k == Min(page.kids) IN
  /\ pc = "page" /\ page.kids # {}
  /\ RegisterContract(chain[k].child, chain[k].ledger, chain[k].ledger - 1)
  /\ pc' = "child"
  /\ UNCHANGED <<chainVars, stored, globalLedger, last, gap, cycle, group, page,
                 queue, offered, due, excused>>

\* The child's pointer is written here, the child's rows only with the batch.
FetchChildPage ==
  LET k     == Min(page.kids)
      found == FirstN(Matching({chain[k].child}, chain[k].ledger, 0), PageLimit)
  IN /\ pc = "child" /\ Retained(chain[k].ledger, 0)
     /\ page' = [page EXCEPT !.kids = @ \ {k}, !.batch = @ \cup found]
     /\ last' = [last EXCEPT ![chain[k].child] =
                   IF Cardinality(found) < PageLimit THEN cycle.current
                   ELSE LastLedgerOf(found)]
     /\ pc' = "page"
     /\ UNCHANGED <<chainVars, stored, globalLedger, rowId, active, startAt, gap, cycle, group,
                    queue, offered, histVars>>

\* A failed child fetch is only logged.
SkipChildPage ==
  LET k == Min(page.kids) IN
  /\ pc = "child" /\ ("rpc" \in Faults \/ ~ Retained(chain[k].ledger, 0))
  /\ page' = [page EXCEPT !.kids = @ \ {k}]
  /\ pc' = "page"
  /\ Excuse({chain[k].child}, last)
  /\ UNCHANGED <<chainVars, dbVars, cycle, group, queue, offered, since, due>>

IsLastPage == Cardinality(page.events) < PageLimit

\* Mutant of NewLedger: a full page moves the pointer to the head as well.
HeadAlways == page.latest

\* Mutant of NewLedger: a page without events leaves the pointer alone.
LastRowAlways == IF page.events = {} THEN globalLedger ELSE LastLedgerOf(page.events)

NewLedger == IF IsLastPage THEN page.latest ELSE LastLedgerOf(page.events)

\* Mutant of Rows: the rows of the children's first pages are left out.
OwnRows == page.events

\* The rows of one commit: those of the page and of the children found on it.
Rows == page.batch

\* insertEventBatch: the rows and the global pointer in one transaction.
InsertEventBatch ==
  /\ pc = "page" /\ page.kids = {}
  /\ stored' = stored \cup Rows
  /\ globalLedger' = NewLedger
  /\ due' = due \cup {i \in Rows : chain[i].ledger <= cycle.current}
  /\ Excuse(Pointerless \ group.members, [c \in Contracts |-> NewLedger])
  /\ page' = [page EXCEPT !.left = group.members]
  /\ pc' = "advance"
  /\ UNCHANGED <<chainVars, rowId, active, last, startAt, gap, cycle, group, queue, offered, since>>

\* updateContractPointer for one contract of the group; behind the last one
\* the loop goes on to the next page, or to the next group.
UpdateContractPointer(c) ==
  LET more == page.left # {c} IN
  /\ pc = "advance" /\ c = FirstRow(page.left)
  /\ last' = [last EXCEPT ![c] = NewLedger]
  /\ IF more
     THEN /\ page' = [page EXCEPT !.left = @ \ {c}]
          /\ UNCHANGED <<pc, group>>
     ELSE /\ page' = NoPage
          /\ IF IsLastPage \/ group.pages + 1 = MaxPages
             THEN pc' = "groups" /\ group' = NoGroup
             ELSE /\ pc' = "fetch"
                  /\ group' = [group EXCEPT !.cursor = Max(page.events), !.pages = @ + 1]
  /\ UNCHANGED <<chainVars, stored, globalLedger, rowId, active, startAt, gap, cycle, queue,
                 offered, histVars>>

EndCycle(ranges) ==
  /\ queue' = ranges
  /\ pc' = "idle" /\ cycle' = NoCycle /\ group' = NoGroup /\ page' = NoPage

\* Success: the covered range is queued for webhooks when a group was polled.
FinishPoll ==
  /\ pc = "groups" /\ cycle.todo = {}
  /\ Len(queue) < MaxQueue
  /\ EndCycle(IF cycle.from = 0 THEN queue ELSE Append(queue, <<cycle.from, cycle.current>>))
  /\ UNCHANGED <<chainVars, dbVars, offered, histVars>>

\* An exception ends the cycle in its catch clause: nothing is queued.
FailPoll ==
  /\ \/ pc \in {"head", "fetch"} /\ "rpc" \in Faults
     \/ pc \in {"page", "advance"} /\ "db" \in Faults
     \/ /\ pc = "fetch" /\ ~ Retained(group.start, group.cursor)
        /\ group.cursor # 0 \/ group.clamped
  /\ EndCycle(queue)
  /\ UNCHANGED <<chainVars, dbVars, offered, histVars>>

\* The process dies and starts again: only the database survives.
Crash ==
  /\ "crash" \in Faults
  /\ pc # "idle" \/ queue # <<>>
  /\ EndCycle(<<>>)
  /\ UNCHANGED <<chainVars, dbVars, offered, histVars>>

(***************************************************************************)
(* Webhooks: one run reads the rows of its range when its turn comes.  The *)
(* delivery itself is module WebhookDelivery.                              *)
(***************************************************************************)

DeliverRange ==
  /\ queue # <<>>
  /\ offered' = offered \cup {i \in stored : chain[i].ledger \in Head(queue)[1] .. Head(queue)[2]}
  /\ queue' = Tail(queue)
  /\ UNCHANGED <<chainVars, dbVars, pollVars, histVars>>

Poll ==
  \/ PollEvents
  \/ GroupByPointer
  \/ \E g \in cycle.todo : BeginGroup(g)
  \/ ClampToRetention
  \/ FetchPage
  \/ RegisterChild
  \/ FetchChildPage
  \/ SkipChildPage
  \/ InsertEventBatch
  \/ \E c \in page.left : UpdateContractPointer(c)
  \/ FinishPoll

Next ==
  \/ CloseLedger
  \/ ExpireLedger
  \/ \E c \in Managed, start \in AdminStarts : AdminRegister(c, start)
  \/ \E c \in Managed : DeregisterContract(c)
  \/ Poll
  \/ FailPoll
  \/ Crash
  \/ DeliverRange

Spec == Init /\ [][Next]_vars

\* The poll loop re-arms itself after every cycle, and the delivery chain runs
\* whatever is queued.
FairSpec == Spec /\ WF_vars(Poll \/ FailPoll) /\ WF_vars(DeliverRange)

(***************************************************************************)
(* Properties                                                              *)
(***************************************************************************)

EventRecord == [ledger : Nat, contract : Contracts, child : Children \cup {NoContract}]

CycleRecord == [current : Nat, from : Nat,
                todo : SUBSET [pointer : Nat, members : SUBSET Contracts]]

GroupRecord == [members : SUBSET Contracts, start : Nat, cursor : Nat, pages : Nat,
                clamped : BOOLEAN]

PageRecord == [events : SUBSET Events, latest : Nat, kids : SUBSET Events,
               batch : SUBSET Events, left : SUBSET Contracts]

\* Type invariant.
TypeOK ==
  /\ chain \in Seq(EventRecord) /\ head \in Nat /\ oldest \in Nat
  /\ stored \subseteq Events /\ globalLedger \in Nat
  /\ rowId \in [Contracts -> Nat] /\ active \in [Contracts -> BOOLEAN]
  /\ last \in [Contracts -> Nat] /\ startAt \in [Contracts -> Nat]
  /\ gap \in Nat \X Nat
  /\ pc \in {"idle", "head", "groups", "fetch", "page", "child", "advance"}
  /\ cycle \in CycleRecord /\ group \in GroupRecord /\ page \in PageRecord
  /\ queue \in Seq(Nat \X Nat) /\ offered \subseteq Events
  /\ since \in [Contracts -> Nat] /\ due \subseteq Events /\ excused \in [Contracts -> Nat]

\* An event the indexer owes: emitted after its contract was registered.
Owed(i) == Registered(chain[i].contract) /\ chain[i].ledger > since[chain[i].contract]

\* The pointer has passed an owed event that is neither stored nor about to be.
Passed(i) == /\ Owed(i)
             /\ chain[i].ledger <= Pointer(chain[i].contract)
             /\ i \notin stored \cup page.batch

\* Enough rows for a page lie before the event, the last of them in its ledger.
TailOf(i, rows) ==
  LET before == {j \in rows : j < i} IN
  /\ Cardinality(before) >= PageLimit
  /\ \E j \in before : chain[j].ledger = chain[i].ledger

\* The tail of a ledger whose first events filled a page.
SplitTail(i) == TailOf(i, stored \cup page.batch)

\* The `created` event of the contract is ahead of the factory's pointer, so
\* the next cycle reads it again and fetches the child's first page again.
WillRefetch(c) == \E k \in Events : chain[k].child = c /\ chain[k].ledger > Pointer(Factory)

\* The `created` event of the contract is itself lost: a split has cut it off, or
\* the factory, without a pointer of its own, was overtaken by the global one.
AnnouncementLost(c) ==
  \E k \in Events : /\ chain[k].child = c
                    /\ SplitTail(k) \/ chain[k].ledger <= excused[Factory]

\* A pointer passes an owed event the node still serves only for a reason that is
\* known, whatever RPC calls and commits fail, wherever the process dies and
\* however the retention window moves.  Either a full page has split the ledger;
\* or a child's pointer is ahead of its rows (updateContractPointer before
\* enqueueEventInsert) and the next reading of its `created` event repairs it,
\* unless that event is itself lost or (`excused`) behind the retention window, or
\* its fetch fails; or (`excused`) a contract without a pointer of its own was
\* overtaken by the global pointer (getActiveContractsWithPointers).  Nothing else
\* is lost by the page loop, the clamp, and the order of commit and pointers.
LossHasACause ==
  \A i \in Events :
    LET c == chain[i].contract IN
    Passed(i) /\ chain[i].ledger >= oldest /\ chain[i].ledger > excused[c] =>
      SplitTail(i) \/ WillRefetch(c) \/ AnnouncementLost(c)

\* The webhook range of the cycle, or a queued one, covers the event, or a
\* delivery run has read it.
WebhookPlanned(i) ==
  \/ i \in offered
  \/ \E n \in DOMAIN queue : chain[i].ledger \in queue[n][1] .. queue[n][2]
  \/ pc # "idle" /\ cycle.from # 0 /\ chain[i].ledger \in cycle.from .. cycle.current

\* A row stored by a cycle, up to the head that cycle saw, is inside the range
\* [minStartLedger, currentLedger] the cycle queues, whichever group or child
\* fetch it came from; only a failed cycle or a crash gives the webhook up.
WebhookLossOnlyByFailure ==
  [][\A i \in due' : \/ WebhookPlanned(i)'
                     \/ i \in due /\ ~ WebhookPlanned(i)
                     \/ FailPoll
                     \/ Crash]_vars

\* A deregistered CONTRACT_ID or adopted contract is activated again by nobody
\* but the administrator: no step of the poller does it.
AdoptedStaysDeregistered ==
  [][\A c \in Adopted : Registered(c) /\ active'[c] /\ ~ active[c] => UNCHANGED pollVars]_vars

\* Once the chain is quiet every contract that stays active is indexed up to its
\* head, however small a page and the page budget of a cycle are.
CatchesUp ==
  \A c \in Contracts : (active[c] /\ head = MaxLedger) ~> (~ active[c] \/ Pointer(c) >= head)

\* However RPC calls and commits failed, the retention window moved and crashes
\* cut cycles short before: once cycles end well again, no contract stays behind
\* (the catch clause of pollEvents, and what a restart finds in the database).
RecoversFromFaults == <>[][~ (FailPoll \/ Crash)]_vars => CatchesUp

(***************************************************************************)
(* What the comments and the README say and the code does not do           *)
(***************************************************************************)

\* Between cycles the pointer rests at a ledger that is fully stored, also after
\* a failure on a later page (the page loop's comment).
PointerAtFullyStoredLedger == pc = "idle" => \A i \in Events : ~ Passed(i)

\* A child whose first fetch failed will catch up in a next cycle (the warning
\* the page loop logs): its pointer has passed no row that is not stored, unless
\* its `created` event will be read again.
SkippedChildCatchesUp ==
  \A i \in Events : Passed(i) => SplitTail(i) \/ WillRefetch(chain[i].contract)

\* Every row the live poller stored is delivered at least once: it has been read
\* by a delivery run, waits in a range, or can still be covered by a later one.
EveryRowIsOffered ==
  \A i \in stored : \/ WebhookPlanned(i)
                   \/ pc # "idle"
                   \/ \E c \in Active : Pointer(c) < chain[i].ledger
=============================================================================
