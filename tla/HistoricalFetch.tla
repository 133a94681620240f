--------------------------- MODULE HistoricalFetch --------------------------
(***************************************************************************)
(* RpcPollerClient (src/src/indexer/rpc-poller-client.ts): a historical    *)
(* range is fetched page by page, every page by following the cursor, and  *)
(* each request is retried.  The server answers events in ledger order, at *)
(* most Limit of them, from a ledger or after a cursor.                    *)
(***************************************************************************)
EXTENDS LedgerRanges, Collections, SequencesExt

CONSTANTS
  Chains,       \* what the server may have: its events in order, as ledgers
  Wanted,       \* the range asked for
  PageSize,     \* ledgers of a page
  Limit,        \* events of an answer
  MaxRequests,  \* MAX_RPC_REQUESTS_PER_PAGE
  MaxRetries

VARIABLES
  chain,        \* the events of the server, as ledgers
  status,       \* of the call: running, done or failed
  pageNo,       \* the page it fetches
  cursor,       \* the position the next request continues after, or 0
  request,      \* requests of this page
  attempt,      \* attempts of this request
  fetched       \* the events collected, as positions of chain

fetchVars == <<chain, status, pageNo, cursor, request, attempt, fetched>>

Pages == ChunkLedgerRange(Wanted, PageSize)

Init ==
  /\ chain \in Chains
  /\ status = "running" /\ pageNo = 1 /\ cursor = 0
  /\ request = 0 /\ attempt = 0 /\ fetched = <<>>

-----------------------------------------------------------------------------
\* What getEvents answers: the first Limit events from startLedger, or behind
\* the cursor.
Answer ==
  FirstN({p \in DOMAIN chain : IF cursor = 0 THEN chain[p] >= Pages[pageNo].start ELSE p > cursor}, Limit)

\* Mutant of IsDone: an answer that is as long as the limit is the last one too.
IsDoneAtLimit(batch) ==
  \/ Cardinality(batch) <= Limit
  \/ \E p \in batch : chain[p] > Pages[pageNo].end

\* A page is over with an answer that is not full or goes beyond its end.
IsDone(batch) ==
  \/ Cardinality(batch) < Limit
  \/ \E p \in batch : chain[p] > Pages[pageNo].end

\* The events of an answer that are kept: those of the page not seen before.
Kept(batch) == {p \in batch : InRange(chain[p], Pages[pageNo]) /\ p \notin ToSet(fetched)}

\* readNextCursor.
NextCursor(batch) == IF batch = {} THEN 0 ELSE Max(batch)

\* One request of the loop of fetchEventRange is answered.
Request ==
  /\ status = "running"
  /\ LET batch == Answer
         next  == NextCursor(batch)
         over  == IsDone(batch) \/ batch = {} \/ next = cursor \/ request + 1 = MaxRequests
     IN  /\ \E order \in Listings(Kept(batch)) : fetched' = fetched \o order
         /\ attempt' = 0
         /\ pageNo'  = IF over THEN pageNo + 1 ELSE pageNo
         /\ cursor'  = IF over THEN 0 ELSE next
         /\ request' = IF over THEN 0 ELSE request + 1
         /\ status'  = IF over /\ pageNo = Len(Pages) THEN "done" ELSE "running"
  /\ UNCHANGED chain

\* What isRetryableError looks at: a lost connection, the HTTP status (0: none), a
\* JSON-RPC "invalid params", and whether the message speaks of a condition that
\* passes.
Errors == [connectionLost : BOOLEAN, status : {0, 400, 429, 503}, invalidParams : BOOLEAN, passing : BOOLEAN]

IsRetryableError(err) ==
  \/ err.connectionLost
  \/ err.status \in {429, 500, 502, 503, 504}
  \/ err.status \notin 400 .. 499 /\ ~ err.invalidParams /\ err.passing

\* withRetry: the request fails and is made again while the error is one that
\* passes and attempts are left.
RequestFails ==
  /\ status = "running"
  /\ \E err \in Errors :
       IF IsRetryableError(err) /\ attempt < MaxRetries
       THEN attempt' = attempt + 1 /\ UNCHANGED status
       ELSE status' = "failed" /\ UNCHANGED attempt
  /\ UNCHANGED <<chain, pageNo, cursor, request, fetched>>

Next == Request \/ RequestFails

Spec == Init /\ [][Next]_fetchVars

(***************************************************************************)
(* Properties                                                              *)
(***************************************************************************)

\* Type invariant.
TypeOK ==
  /\ chain \in Chains /\ status \in {"running", "done", "failed"}
  /\ pageNo \in 1 .. Len(Pages) + 1 /\ cursor \in 0 .. Len(chain)
  /\ request \in 0 .. MaxRequests - 1 /\ attempt \in 0 .. MaxRetries
  /\ ToSet(fetched) \subseteq DOMAIN chain

InPage(page) == {p \in DOMAIN chain : InRange(chain[p], page)}

\* The events that MaxRequests answers from the start of a page reach.
Reached(page) ==
  {p \in InPage(page) : Cardinality({q \in DOMAIN chain : chain[q] >= page.start /\ q <= p}) <= Limit * MaxRequests}

\* However page borders, full answers, ledgers split over answers and retries
\* fall, a fetch that returns has every event of its range, each once and in
\* order; only what lies behind the request limit of its page is missing.
FetchIsComplete ==
  status = "done" =>
    /\ ToSet(fetched) = UNION {Reached(Pages[k]) : k \in DOMAIN Pages}
    /\ \A a, b \in DOMAIN fetched : a < b => fetched[a] < fetched[b]
=============================================================================
