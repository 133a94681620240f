-------------------------- MODULE WebhookDelivery --------------------------
(***************************************************************************)
(* Webhook delivery (src/src/indexer/webhook-delivery.ts) behind the queue *)
(* of ranges (poller.ts) and over the subscription table (db.ts).  A run   *)
(* takes the next range, first sweeps the outbox for failed deliveries     *)
(* whose backoff is over, then loads the enabled subscriptions once and    *)
(* POSTs every row of its range to each of them, with MaxTries tries in    *)
(* line.  Outcomes go to the outbox, table webhook_deliveries, and to the  *)
(* failure counter of the subscription.                                    *)
(*                                                                         *)
(* A POST is an await: subscriptions, rows and the queue change behind the *)
(* back of a run that is suspended.  The event of ledger n is n; a         *)
(* delivery is a pair <<subscription id, event>>.                          *)
(***************************************************************************)
EXTENDS Integers, Sequences, FiniteSets, FiniteSetsExt

CONSTANTS
  Urls,          \* webhook URLs that can subscribe to the contract
  Outcomes,      \* outcomes of a POST: "ok", "lost" (received, no 2xx seen), "failed"
  MaxTries,      \* MAX_RETRIES, 3 in the code
  MaxAttempts,   \* WEBHOOK_MAX_DELIVERY_ATTEMPTS, 25 by default
  DisableAfter,  \* WEBHOOK_DISABLE_AFTER, 50 by default
  SweepLimit,    \* LIMIT of the sweep, 100 in the code
  PageSize,      \* WEBHOOK_DELIVERY_PAGE_SIZE, 500 ledgers by default
  Retention,     \* BOOLEAN: EVENT_RETENTION_DAYS is set, old rows are pruned
  MaxLedger,     \* bound: ledgers with an event
  MaxSpan,       \* bound: ledgers with a new event in one range
  MaxOverlap,    \* bound: how far a range reaches back over delivered ledgers
  MaxCrashes,    \* bound: restarts of the process
  MaxSubs,       \* bound: subscription ids handed out
  MaxQueue       \* bound: ranges waiting at once

ASSUME ParametersAssumption ==
  /\ Outcomes \subseteq {"ok", "lost", "failed"}
  /\ MaxTries \in Nat \ {0} /\ MaxAttempts \in Nat \ {0} /\ DisableAfter \in Nat \ {0}
  /\ SweepLimit \in Nat \ {0} /\ PageSize \in Nat \ {0}
  /\ Retention \in BOOLEAN

ASSUME BoundsAssumption ==
  /\ MaxLedger \in Nat /\ MaxSpan \in Nat /\ MaxOverlap \in Nat
  /\ MaxCrashes \in Nat /\ MaxSubs \in Nat /\ MaxQueue \in Nat

VARIABLES
  stored,    \* rows 1 .. stored have been inserted
  pruned,    \* rows 1 .. pruned are deleted again
  aged,      \* rows 1 .. aged are older than WEBHOOK_RETRY_MAX_AGE_DAYS
  subs,      \* table webhook_subscriptions: id -> row
  nextId,    \* its AUTOINCREMENT counter
  outbox,    \* table webhook_deliveries: delivery -> row
  queue,     \* webhookDeliveryTail: the ranges waiting
  pc,        \* where the run is suspended
  sweep,     \* rows the sweep selected and has not handled
  pending,   \* deliveries of the current page still to make
  ahead,     \* locals of deliverWebhooks: the subscriptions loaded, the next page
  post,      \* the POST under way
  posts,     \* history: POSTs made for a delivery since it was last taken up
  received,  \* history: deliveries that reached the subscriber
  crashes    \* history: restarts so far

rowVars  == <<stored, pruned, aged>>
runVars  == <<pc, sweep, pending, ahead, post>>
vars     == <<stored, pruned, aged, subs, nextId, outbox, queue, pc, sweep, pending, ahead,
              post, posts, received, crashes>>
histVars == <<posts, received, crashes>>

Ids == 1 .. MaxSubs
Ledgers == 1 .. MaxLedger
NoPost == [of |-> <<0, 0>>, attempt |-> 0, ok |-> FALSE]
NoPages == [ids |-> {}, from |-> 0]
NoEvents == <<1, 0>>   \* the range of ledgers without events of the contract

Rows == (pruned + 1) .. stored

\* A row is inserted, or replaces the one of its key.
Upsert(table, key, row) ==
  [k \in DOMAIN table \cup {key} |-> IF k = key THEN row ELSE table[k]]

Failed(p) == p \in DOMAIN outbox /\ outbox[p].status = "failed"

Enabled == {i \in DOMAIN subs : ~ subs[i].disabled}

Before(p, q) == p[2] < q[2] \/ (p[2] = q[2] /\ p[1] < q[1])

\* ORDER BY ledger_sequence, id; the subscriptions of an event by id.
NextDelivery == CHOOSE p \in pending : \A q \in pending \ {p} : Before(p, q)

Init ==
  /\ stored = 0 /\ pruned = 0 /\ aged = 0
  /\ subs = <<>> /\ nextId = 1 /\ outbox = <<>>
  /\ queue = <<>>
  /\ pc = "idle" /\ sweep = {} /\ pending = {} /\ ahead = NoPages /\ post = NoPost
  /\ posts = <<>> /\ received = {} /\ crashes = 0

(***************************************************************************)
(* Environment: the poller, the administrator, time                        *)
(***************************************************************************)

\* Mutant of Enqueued: a new range overtakes the ranges that wait.
EnqueuedFirst(range) == <<range>> \o queue

Enqueued(range) == Append(queue, range)

\* A cycle stored the rows up to ledger `to` and queues its range, which reaches
\* back to the start of the group that lagged most.
EnqueueWebhookDelivery ==
  /\ Len(queue) < MaxQueue
  /\ \/ /\ queue' = Enqueued(NoEvents)
        /\ UNCHANGED stored
     \/ \E to \in (stored + 1) .. Min({MaxLedger, stored + MaxSpan}),
           back \in 0 .. Min({MaxOverlap, stored}) :
          /\ stored' = to
          /\ queue' = Enqueued(<<stored + 1 - back, to>>)
  /\ UNCHANGED <<pruned, aged, subs, nextId, outbox, runVars, histVars>>

PruneOldest ==
  /\ Retention /\ pruned < stored
  /\ pruned' = pruned + 1
  /\ UNCHANGED <<stored, aged, subs, nextId, outbox, queue, runVars, histVars>>

GrowOld ==
  /\ aged < stored
  /\ aged' = aged + 1
  /\ UNCHANGED <<stored, pruned, subs, nextId, outbox, queue, runVars, histVars>>

\* next_attempt_at of a failed delivery is reached.
BackoffOver(p) ==
  /\ Failed(p) /\ ~ outbox[p].due
  /\ outbox' = [outbox EXCEPT ![p].due = TRUE]
  /\ UNCHANGED <<rowVars, subs, nextId, queue, runVars, histVars>>

\* INSERT OR IGNORE, then the reset of the failure history. `since` and `clean`
\* are history: the rows stored by then, and whether it was never disabled.
AddSubscription(url) ==
  LET own == {i \in DOMAIN subs : subs[i].url = url} IN
  /\ IF own # {}
     THEN /\ subs' = [i \in DOMAIN subs |->
                        IF i \in own THEN [subs[i] EXCEPT !.failures = 0, !.disabled = FALSE]
                                     ELSE subs[i]]
          /\ UNCHANGED nextId
     ELSE /\ nextId <= MaxSubs
          /\ subs' = Upsert(subs, nextId, [url |-> url, failures |-> 0, disabled |-> FALSE,
                                           since |-> stored, clean |-> TRUE])
          /\ nextId' = nextId + 1
  /\ UNCHANGED <<rowVars, outbox, queue, runVars, histVars>>

RemoveSubscription(i) ==
  /\ i \in DOMAIN subs
  /\ subs' = [j \in DOMAIN subs \ {i} |-> subs[j]]
  /\ UNCHANGED <<rowVars, nextId, outbox, queue, runVars, histVars>>

(***************************************************************************)
(* The outbox and the failure counter                                      *)
(***************************************************************************)

\* The upsert of recordDeliveryOutcome; a failed row waits for its backoff.
RecordDeliveryOutcome(p, ok, attempts) ==
  outbox' = Upsert(outbox, p, [status |-> IF ok THEN "delivered" ELSE "failed",
                               attempts |-> attempts, due |-> FALSE])

\* Mutant of FailuresAfter: a success takes one failure back.
FailuresDecremented(i, ok) == IF ok THEN subs[i].failures - 1 ELSE subs[i].failures + 1

FailuresAfter(i, ok) == IF ok THEN 0 ELSE subs[i].failures + 1

\* A success resets the counter but leaves disabled_at alone.
RecordSubscriptionOutcome(i, ok) ==
  LET failures == FailuresAfter(i, ok)
      disabled == subs[i].disabled \/ (~ ok /\ failures >= DisableAfter)
  IN IF i \in DOMAIN subs
     THEN subs' = [subs EXCEPT ![i].failures = failures,
                               ![i].disabled = disabled,
                               ![i].clean = @ /\ ~ disabled]
     ELSE UNCHANGED subs

\* deliverToUrl: the outcome the run will see when the await is over.
Post(p, attempt) ==
  \E outcome \in Outcomes :
    /\ post' = [of |-> p, attempt |-> attempt, ok |-> outcome = "ok"]
    /\ received' = IF outcome = "failed" THEN received ELSE received \cup {p}

(***************************************************************************)
(* One run of deliverWebhooks                                              *)
(***************************************************************************)

\* The run starts: the sweep selects at most SweepLimit due rows, in no order.
\* The range stays at the head of the queue until the run is over.
BeginRun ==
  LET due == {p \in DOMAIN outbox : Failed(p) /\ outbox[p].due} IN
  /\ pc = "idle" /\ queue # <<>>
  /\ \E chosen \in kSubset(Min({SweepLimit, Cardinality(due)}), due) :
       sweep' = {<<p, outbox[p].attempts>> : p \in chosen}
  /\ pc' = "sweep"
  /\ UNCHANGED <<rowVars, subs, nextId, outbox, queue, pending, ahead, post, histVars>>

Gone(p) == p[1] \notin DOMAIN subs \/ p[2] \notin Rows

GivenUp(r) == r[2] >= MaxAttempts \/ r[1][2] <= aged

\* Mutant of SweepDead: the row is passed over and keeps its status.
SweepSkip(r) ==
  /\ pc = "sweep" /\ r \in sweep
  /\ Gone(r[1]) \/ GivenUp(r)
  /\ sweep' = sweep \ {r}
  /\ UNCHANGED <<rowVars, subs, nextId, outbox, queue, pc, pending, ahead, post, histVars>>

\* The event or the subscription is gone, or the delivery is given up.
SweepDead(r) ==
  /\ pc = "sweep" /\ r \in sweep
  /\ Gone(r[1]) \/ GivenUp(r)
  /\ outbox' = [outbox EXCEPT ![r[1]].status = "dead"]
  /\ sweep' = sweep \ {r}
  /\ UNCHANGED <<rowVars, subs, nextId, queue, pc, pending, ahead, post, histVars>>

\* One more POST, whether or not the subscription is disabled by now.
SweepPost(r) ==
  /\ pc = "sweep" /\ r \in sweep
  /\ ~ Gone(r[1]) /\ ~ GivenUp(r)
  /\ Post(r[1], r[2] + 1)
  /\ posts' = [posts EXCEPT ![r[1]] = @ + 1]
  /\ sweep' = sweep \ {r}
  /\ pc' = "swept"
  /\ UNCHANGED <<rowVars, subs, nextId, outbox, queue, pending, ahead, crashes>>

\* Mutant of SweepAttempts: the retry is recorded with the attempts before it.
SweepAttemptsBefore == post.attempt - 1

SweepAttempts == post.attempt

\* The outcome of a retry is recorded in the outbox alone.
SweepOutcome ==
  /\ pc = "swept"
  /\ RecordDeliveryOutcome(post.of, post.ok, SweepAttempts)
  /\ post' = NoPost /\ pc' = "sweep"
  /\ UNCHANGED <<rowVars, subs, nextId, queue, sweep, pending, ahead, histVars>>

\* Mutant of PageRows: a page ends one ledger early.
PageRowsShort(first, last) == first .. Min({first + PageSize - 2, last})

PageRows(first, last) == first .. Min({first + PageSize - 1, last})

PageStarts(first, last) == {first + k * PageSize : k \in 0 .. last - first} \cap (0 .. last)

\* The run reads on, from page to page of its range, to the next page with rows,
\* or it is over and leaves the queue.
ReadOn(ids, from) ==
  LET first == Head(queue)[1]
      last  == Head(queue)[2]
      pages == {n \in PageStarts(first, last) : /\ from <= n /\ ids # {}
                                               /\ Rows \cap PageRows(n, last) # {}}
      next  == Min(pages)
  IN IF pages = {}
     THEN /\ pending' = {} /\ ahead' = NoPages
          /\ pc' = "idle" /\ queue' = Tail(queue)
     ELSE /\ pending' = ids \X (Rows \cap PageRows(next, last))
          /\ ahead' = [ids |-> ids, from |-> next + PageSize]
          /\ pc' = "deliver" /\ UNCHANGED queue

\* After the sweep the enabled subscriptions are loaded, once for the run.
LoadSubscriptions ==
  /\ pc = "sweep" /\ sweep = {}
  /\ ReadOn(Enabled, Head(queue)[1])
  /\ UNCHANGED <<rowVars, subs, nextId, outbox, sweep, post, histVars>>

\* One try of the next delivery, whatever has become of the subscription.
DeliverToUrl ==
  /\ pc = "deliver"
  /\ Post(NextDelivery, post.attempt + 1)
  /\ posts' = Upsert(posts, NextDelivery, post.attempt + 1)
  /\ pc' = "delivered"
  /\ UNCHANGED <<rowVars, subs, nextId, outbox, queue, sweep, pending, ahead, crashes>>

RetryInline ==
  /\ pc = "delivered" /\ ~ post.ok /\ post.attempt < MaxTries
  /\ pc' = "deliver"
  /\ UNCHANGED <<rowVars, subs, nextId, outbox, queue, sweep, pending, ahead, post, histVars>>

\* Mutant of Settled: the last try counts as delivered.
SettledOk == post.ok \/ post.attempt = MaxTries

Settled == post.ok

RecordResult ==
  /\ pc = "delivered" /\ (post.ok \/ post.attempt = MaxTries)
  /\ RecordDeliveryOutcome(post.of, Settled, post.attempt)
  /\ RecordSubscriptionOutcome(post.of[1], Settled)
  /\ post' = NoPost
  /\ IF pending = {post.of}
     THEN ReadOn(ahead.ids, ahead.from)
     ELSE pending' = pending \ {post.of} /\ pc' = "deliver" /\ UNCHANGED <<ahead, queue>>
  /\ UNCHANGED <<rowVars, nextId, sweep, histVars>>

\* The process restarts: the database survives, the queue and the run do not.
\* A POST that a crash left unrecorded is not counted.
Crash ==
  /\ crashes < MaxCrashes /\ queue # <<>>
  /\ crashes' = crashes + 1
  /\ queue' = <<>> /\ pc' = "idle" /\ sweep' = {} /\ pending' = {}
  /\ ahead' = NoPages /\ post' = NoPost
  /\ posts' = [p \in DOMAIN outbox |-> outbox[p].attempts]
  /\ subs' = [i \in DOMAIN subs |-> [subs[i] EXCEPT !.clean = FALSE]]
  /\ UNCHANGED <<rowVars, nextId, outbox, received>>

Run ==
  \/ BeginRun
  \/ \E r \in sweep : SweepDead(r) \/ SweepPost(r)
  \/ SweepOutcome
  \/ LoadSubscriptions
  \/ DeliverToUrl
  \/ RetryInline
  \/ RecordResult

Next ==
  \/ EnqueueWebhookDelivery
  \/ PruneOldest
  \/ GrowOld
  \/ \E p \in Ids \X Ledgers : BackoffOver(p)
  \/ \E url \in Urls : AddSubscription(url)
  \/ \E i \in Ids : RemoveSubscription(i)
  \/ Run
  \/ Crash

Spec == Init /\ [][Next]_vars

\* A run goes on as long as it can (every POST has a deadline), the poller keeps
\* covering ledgers, and a backoff ends.
FairSpec ==
  /\ Spec
  /\ WF_vars(Run)
  /\ WF_vars(EnqueueWebhookDelivery)
  /\ WF_vars(\E p \in Ids \X Ledgers : BackoffOver(p))

(***************************************************************************)
(* Properties                                                              *)
(***************************************************************************)

Deliveries == Ids \X Ledgers

\* Type invariant.
TypeOK ==
  /\ stored \in 0 .. MaxLedger /\ pruned \in 0 .. stored /\ aged \in 0 .. stored
  /\ nextId \in 1 .. MaxSubs + 1 /\ DOMAIN subs \subseteq 1 .. nextId - 1
  /\ \A i \in DOMAIN subs :
       subs[i] \in [url : Urls, failures : Nat, disabled : BOOLEAN,
                   since : Nat, clean : BOOLEAN]
  /\ DOMAIN outbox \subseteq Deliveries
  /\ \A p \in DOMAIN outbox :
       outbox[p] \in [status : {"failed", "delivered", "dead"}, attempts : Nat, due : BOOLEAN]
  /\ queue \in Seq(Nat \X Nat)
  /\ pc \in {"idle", "sweep", "swept", "deliver", "delivered"}
  /\ sweep \subseteq Deliveries \X Nat /\ pending \subseteq Deliveries
  /\ ahead \in [ids : SUBSET Ids, from : Nat]
  /\ post \in [of : {NoPost.of} \cup Deliveries, attempt : Nat, ok : BOOLEAN]
  /\ DOMAIN posts \subseteq Deliveries /\ \A p \in DOMAIN posts : posts[p] \in Nat
  /\ received \subseteq Deliveries /\ crashes \in Nat

\* When the queue has run dry every row stored after a subscription was made has
\* a verdict in the outbox for it, whatever awaits the run and the subscriber
\* met, as long as the subscription was never disabled and nothing crashed.
EveryRowHasVerdict ==
  queue = <<>> =>
    \A i \in DOMAIN subs, e \in Rows :
      subs[i].clean /\ subs[i].since < e => <<i, e>> \in DOMAIN outbox

\* A delivery is recorded as delivered only when the subscriber received it.
DeliveredWasReceived ==
  \A p \in DOMAIN outbox : outbox[p].status = "delivered" => p \in received

\* The recorded attempts are the POSTs made since the delivery was last taken up
\* by a range, and neither the inline tries nor the sweeps exceed their limits.
AttemptsCountPosts ==
  \A p \in DOMAIN outbox :
    p # post.of =>
      outbox[p].attempts = posts[p] /\ posts[p] <= Max({MaxTries, MaxAttempts})

\* What the outbox says of a delivery is what was posted: received where it says
\* delivered, and as many attempts as POSTs, over inline tries, sweeps and crashes
\* (recordDeliveryOutcome).
VerdictsMatchPosts == DeliveredWasReceived /\ AttemptsCountPosts

\* Events stored after a subscription was made reach it for the first time in
\* ledger order, over all the ranges of the queue. An older one that a range
\* reaches back to may come after them.
FirstPostsInOrder ==
  [][\A p \in DOMAIN posts' \ DOMAIN posts :
       p[1] \in DOMAIN subs /\ subs[p[1]].clean /\ subs[p[1]].since < p[2] =>
         \A q \in DOMAIN posts : q[1] = p[1] => q[2] < p[2]]_vars

\* A failed delivery does not stay failed: a later sweep delivers it, or it ends
\* dead for its attempts, its age, or because event or subscription are gone.
FailedIsSettled ==
  \A p \in Deliveries : Failed(p) ~> ~ Failed(p)

(***************************************************************************)
(* What the documentation says and the code does not do                    *)
(***************************************************************************)

\* Every event from an earlier range, its retries included, is sent before any
\* event of a later range: once a later event was sent, an earlier one is not.
\* The run gives every range one ledger and no overlap, so that a later event is
\* an event of a later range.
RetriesBeforeLaterRanges ==
  [][post'.of # NoPost.of /\ post' # post =>
       \A q \in DOMAIN posts : q[1] = post'.of[1] => q[2] <= post'.of[2]]_vars
=============================================================================
