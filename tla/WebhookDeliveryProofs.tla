------------------------ MODULE WebhookDeliveryProofs ------------------------
(***************************************************************************)
(* Proofs about WebhookDelivery, for any URLs, limits, outcomes and        *)
(* bounds: its type invariant, that the outbox tells the truth about what  *)
(* was posted, that every row gets its verdict, and that first posts are   *)
(* in order.                                                               *)
(*                                                                         *)
(* Between a POST and the recording of its result the outbox is behind the *)
(* posts by one delivery, and the sweep works on a copy of rows that other *)
(* actors may change.  PostInv and SweepInv say how far each is behind.    *)
(***************************************************************************)
EXTENDS WebhookDelivery, CollectionFacts

USE ParametersAssumption, BoundsAssumption
    DEF Deliveries, Ids, Ledgers, Rows, NoPost, NoPages, NoEvents, rowVars, runVars, histVars, Upsert

\* The rows of the two tables.
OutboxRow == [status : {"failed", "delivered", "dead"}, attempts : Nat, due : BOOLEAN]
SubRow == [url : Urls, failures : Nat, disabled : BOOLEAN, since : Nat, clean : BOOLEAN]

\* No outbox row counts more tries than one of the two limits allows.
WithinLimits(n) == n <= MaxTries \/ n <= MaxAttempts

\* Where the run is tells what its locals hold, and a run has its range in the queue.
RunInv ==
  /\ pc # "idle" => queue # <<>>
  /\ pc \notin {"sweep", "swept"} => sweep = {}
  /\ pc \in {"deliver", "delivered"} => pending # {}
  /\ pc \in {"idle", "sweep"} => post = NoPost

\* A POST whose result is not recorded is counted in posts and nowhere else; the
\* inline tries go to one delivery until it is settled.
PostInv ==
  /\ post.ok => post.of \in received
  /\ post # NoPost => post.of \in DOMAIN posts /\ posts[post.of] = post.attempt
  /\ pc \in {"swept", "delivered"} => post # NoPost
  /\ pc \in {"deliver", "delivered"} /\ post # NoPost => post.of = NextDelivery
  /\ pc = "deliver" => post.attempt < MaxTries
  /\ WithinLimits(post.attempt)

\* The rows the sweep still has in hand are those of the outbox, and the one it
\* has posted is not among them.
SweepInv ==
  /\ \A r \in sweep : r[1] \in DOMAIN outbox /\ r[2] = outbox[r[1]].attempts
  /\ pc = "swept" => \A r \in sweep : r[1] # post.of

\* The outbox agrees with the posts but for the delivery that is under way.
OutboxInv ==
  /\ DOMAIN outbox \subseteq DOMAIN posts
  /\ \A p \in DOMAIN outbox : WithinLimits(outbox[p].attempts)
  /\ \A p \in DOMAIN outbox : p # post.of => outbox[p].attempts = posts[p]
  /\ DeliveredWasReceived

WInv == TypeOK /\ RunInv /\ PostInv /\ SweepInv /\ OutboxInv

(***************************************************************************)
(* Lemmas                                                                  *)
(***************************************************************************)

\* The next delivery is one of those to make, and comes before all others.
LEMMA NextIsLeast ==
  ASSUME pending \subseteq Deliveries, pending # {}
  PROVE  NextDelivery \in pending /\ \A q \in pending \ {NextDelivery} : Before(NextDelivery, q)
<1> DEFINE E == {p[2] : p \in pending}
<1>1. E \in SUBSET Nat /\ E # {}
  OBVIOUS
<1>2. PICK e \in E : \A x \in E : e <= x
  BY <1>1, MinProperty, Zenon
<1> DEFINE I == {p[1] : p \in {q \in pending : q[2] = e}}
<1>3. I \in SUBSET Nat /\ I # {}
  OBVIOUS
<1>4. PICK i \in I : \A x \in I : i <= x
  BY <1>3, MinProperty, Zenon
<1>5. PICK p \in pending : p[2] = e /\ p[1] = i
  BY <1>4
<1>6. \A q \in pending \ {p} : Before(p, q)
  <2> SUFFICES ASSUME NEW q \in pending, q # p PROVE Before(p, q)
    OBVIOUS
  <2>1. e <= q[2]
    BY <1>2
  <2>2. q[2] = e => i <= q[1]
    BY <1>4
  <2>3. q[2] = e => q[1] # i
    BY <1>5
  <2>4. q[1] \in Nat /\ q[2] \in Nat /\ p[1] \in Nat /\ p[2] \in Nat
    OBVIOUS
  <2>5. QED
    BY <1>5, <2>1, <2>2, <2>3, <2>4 DEF Before
<1>7. QED
  BY <1>6 DEF NextDelivery

\* In particular it is pending.
LEMMA NextIsPending ==
  ASSUME pending \subseteq Deliveries, pending # {}
  PROVE  NextDelivery \in pending
  BY NextIsLeast

\* The minimum of two numbers is one of them.
LEMMA MinOfTwo ==
  ASSUME NEW a \in Nat, NEW b \in Nat
  PROVE  Min({a, b}) \in Nat /\ Min({a, b}) <= a /\ Min({a, b}) <= b
<1>1. {a, b} \in SUBSET Nat /\ {a, b} # {}
  OBVIOUS
<1>2. Min({a, b}) \in {a, b} /\ \A x \in {a, b} : Min({a, b}) <= x
  BY <1>1, MinProperty, Zenon
<1>3. QED
  BY <1>2

\* Reading on leaves the run over or with deliveries of subscriptions it has loaded.
LEMMA ReadOnTypes ==
  ASSUME queue \in Seq(Nat \X Nat), queue # <<>>, stored \in 0 .. MaxLedger, pruned \in 0 .. stored,
         NEW ids \in SUBSET Ids, NEW from \in Nat, ReadOn(ids, from)
  PROVE  /\ queue' \in Seq(Nat \X Nat)
         /\ pending' \subseteq Deliveries
         /\ ahead' \in [ids : SUBSET Ids, from : Nat]
         /\ pc' \in {"idle", "deliver"}
         /\ pc' = "deliver" => queue' # <<>> /\ pending' # {}
<1> DEFINE first == Head(queue)[1]
           last  == Head(queue)[2]
           pages == {n \in PageStarts(first, last) : /\ from <= n /\ ids # {}
                                                    /\ Rows \cap PageRows(n, last) # {}}
           next  == Min(pages)
<1>1. first \in Nat /\ last \in Nat /\ Tail(queue) \in Seq(Nat \X Nat)
  <2>1. Head(queue) \in Nat \X Nat /\ Tail(queue) \in Seq(Nat \X Nat)
    OBVIOUS
  <2>2. QED
    BY <2>1
<1>2. CASE pages = {}
  <2>1. pending' = {} /\ ahead' = NoPages /\ pc' = "idle" /\ queue' = Tail(queue)
    BY <1>2 DEF ReadOn
  <2>2. QED
    BY <1>1, <2>1
<1>3. CASE pages # {}
  <2>1. /\ pending' = ids \X (Rows \cap PageRows(next, last))
        /\ ahead' = [ids |-> ids, from |-> next + PageSize]
        /\ pc' = "deliver" /\ queue' = queue
    BY <1>3 DEF ReadOn
  <2>2. pages \in SUBSET Nat
    BY <1>1 DEF PageStarts
  <2>3. next \in pages
    <3> HIDE DEF pages
    <3> QED BY <1>3, <2>2, MinProperty, Zenon
  <2>4. next \in Nat /\ ids # {} /\ Rows \cap PageRows(next, last) # {}
    BY <2>2, <2>3
  <2>5. Rows \subseteq Ledgers
    OBVIOUS
  <2> HIDE DEF pages, next, last
  <2>6. pending' \subseteq Deliveries /\ pending' # {}
    <3> DEFINE read == Rows \cap PageRows(next, last)
    <3>1. read \subseteq Ledgers /\ read # {} /\ ids \subseteq Ids /\ ids # {}
      BY <2>4, <2>5
    <3>2. pending' = ids \X read
      BY <2>1
    <3> HIDE DEF read
    <3>3. PICK i \in ids, n \in read : TRUE
      BY <3>1
    <3>4. <<i, n>> \in pending'
      BY <3>2
    <3>5. QED
      BY <3>1, <3>2, <3>4
  <2>7. ahead' \in [ids : SUBSET Ids, from : Nat]
    BY <2>1, <2>4
  <2>8. QED
    BY <2>1, <2>6, <2>7
<1>4. QED
  BY <1>2, <1>3

\* The invariant holds at the start.
LEMMA WInitInv == Init => WInv
  BY DEF Init, WInv, TypeOK, RunInv, PostInv, SweepInv, OutboxInv, DeliveredWasReceived, WithinLimits

\* The next delivery depends on what is pending alone.
LEMMA NextUnchanged == pending' = pending => NextDelivery' = NextDelivery
  BY DEF NextDelivery, Before

\* The poller, the administrator and time leave the run and the posts alone.
LEMMA OthersKeepInv ==
  ASSUME WInv, TypeOK', queue = <<>> \/ queue' # <<>>,
         UNCHANGED <<pc, sweep, pending, post, posts, received>>,
         DOMAIN outbox' = DOMAIN outbox,
         \A p \in DOMAIN outbox : /\ outbox'[p].attempts = outbox[p].attempts
                                  /\ outbox'[p].status = outbox[p].status
  PROVE  WInv'
<1> USE NextUnchanged DEF WInv
<1>1. RunInv'
  BY DEF RunInv
<1>2. PostInv'
  BY DEF PostInv
<1>3. SweepInv'
  BY DEF SweepInv, TypeOK
<1>4. OutboxInv'
  BY DEF OutboxInv, DeliveredWasReceived
<1>5. QED
  BY <1>1, <1>2, <1>3, <1>4

(***************************************************************************)
(* The actions of the others                                               *)
(***************************************************************************)

\* A range that is queued, and the rows stored with it.
LEMMA EnqueueKeepsInv == WInv /\ EnqueueWebhookDelivery => WInv'
<1> SUFFICES ASSUME WInv, EnqueueWebhookDelivery PROVE WInv'
  OBVIOUS
<1> USE DEF WInv
<1>1. queue \in Seq(Nat \X Nat) /\ stored \in 0 .. MaxLedger
  BY DEF TypeOK
<1>2. PICK range \in Nat \X Nat : queue' = Append(queue, range) /\ stored' \in stored .. MaxLedger
  <2>1. CASE queue' = Enqueued(NoEvents) /\ UNCHANGED stored
    <3>1. NoEvents \in Nat \X Nat /\ queue' = Append(queue, NoEvents)
      BY <2>1 DEF Enqueued
    <3>2. stored' \in stored .. MaxLedger
      BY <1>1, <2>1
    <3>3. QED
      BY <3>1, <3>2
  <2>2. CASE \E to \in (stored + 1) .. Min({MaxLedger, stored + MaxSpan}),
                back \in 0 .. Min({MaxOverlap, stored}) :
               stored' = to /\ queue' = Enqueued(<<stored + 1 - back, to>>)
    <3>1. PICK to \in (stored + 1) .. Min({MaxLedger, stored + MaxSpan}),
               back \in 0 .. Min({MaxOverlap, stored}) :
                 stored' = to /\ queue' = Enqueued(<<stored + 1 - back, to>>)
      BY <2>2
    <3>2. /\ Min({MaxLedger, stored + MaxSpan}) \in Nat /\ Min({MaxLedger, stored + MaxSpan}) <= MaxLedger
          /\ Min({MaxOverlap, stored}) \in Nat /\ Min({MaxOverlap, stored}) <= stored
      <4>1. MaxLedger \in Nat /\ stored + MaxSpan \in Nat /\ MaxOverlap \in Nat /\ stored \in Nat
        BY <1>1
      <4>2. QED
        BY <4>1, MinOfTwo, Zenon
    <3>3. to \in Nat /\ stored < to /\ to <= MaxLedger /\ stored + 1 - back \in Nat
      BY <1>1, <3>2
    <3>4. <<stored + 1 - back, to>> \in Nat \X Nat /\ stored' \in stored .. MaxLedger
      BY <1>1, <3>1, <3>3
    <3>5. QED
      BY <3>1, <3>4 DEF Enqueued
  <2>3. QED
    BY <2>1, <2>2 DEF EnqueueWebhookDelivery
<1>3. queue' \in Seq(Nat \X Nat) /\ queue' # <<>>
  BY <1>1, <1>2
<1>4. TypeOK'
  <2>1. UNCHANGED <<pruned, aged, subs, nextId, outbox, pc, sweep, pending, ahead, post, posts, received, crashes>>
    BY DEF EnqueueWebhookDelivery
  <2>2. stored' \in 0 .. MaxLedger /\ stored <= stored'
    BY <1>1, <1>2
  <2>3. pruned' \in 0 .. stored' /\ aged' \in 0 .. stored'
    <3>1. pruned \in 0 .. stored /\ aged \in 0 .. stored /\ pruned' = pruned /\ aged' = aged
      BY <2>1 DEF TypeOK
    <3>2. QED
      BY <1>1, <2>2, <3>1
  <2>4. QED
    BY <1>3, <2>1, <2>2, <2>3 DEF TypeOK
<1>5. QED
  BY <1>3, <1>4, OthersKeepInv DEF EnqueueWebhookDelivery

\* Rows that are pruned.
LEMMA PruneKeepsInv == WInv /\ PruneOldest => WInv'
<1> SUFFICES ASSUME WInv, PruneOldest PROVE WInv'
  OBVIOUS
<1>1. TypeOK'
  BY DEF WInv, TypeOK, PruneOldest
<1>2. QED
  BY <1>1, OthersKeepInv DEF PruneOldest

\* Rows that grow too old to be retried.
LEMMA GrowOldKeepsInv == WInv /\ GrowOld => WInv'
<1> SUFFICES ASSUME WInv, GrowOld PROVE WInv'
  OBVIOUS
<1>1. TypeOK'
  BY DEF WInv, TypeOK, GrowOld
<1>2. QED
  BY <1>1, OthersKeepInv DEF GrowOld

\* A backoff that ends.
LEMMA BackoffKeepsInv == ASSUME WInv, NEW p, BackoffOver(p) PROVE WInv'
<1>1. p \in DOMAIN outbox /\ outbox' = [outbox EXCEPT ![p].due = TRUE]
  BY DEF BackoffOver, Failed
<1>2. DOMAIN outbox' = DOMAIN outbox
  BY <1>1
<1>3. \A q \in DOMAIN outbox : outbox[q] \in OutboxRow
  BY DEF WInv, TypeOK, OutboxRow
<1>4. \A q \in DOMAIN outbox : /\ outbox'[q].attempts = outbox[q].attempts
                               /\ outbox'[q].status = outbox[q].status
                               /\ outbox'[q] \in OutboxRow
  BY <1>1, <1>3 DEF OutboxRow
<1>5. TypeOK'
  BY <1>2, <1>4 DEF WInv, TypeOK, BackoffOver, OutboxRow
<1>6. QED
  BY <1>2, <1>4, <1>5, OthersKeepInv DEF BackoffOver

\* A subscription that is made, or made again.
LEMMA AddKeepsInv == ASSUME WInv, NEW url \in Urls, AddSubscription(url) PROVE WInv'
<1> DEFINE Row == [url : Urls, failures : Nat, disabled : BOOLEAN, since : Nat, clean : BOOLEAN]
<1>1. nextId \in 1 .. MaxSubs + 1 /\ DOMAIN subs \subseteq 1 .. nextId - 1
      /\ \A i \in DOMAIN subs : subs[i] \in Row
  BY DEF WInv, TypeOK
<1>2. stored \in Nat
  BY DEF WInv, TypeOK
<1>3. /\ nextId' \in 1 .. MaxSubs + 1 /\ DOMAIN subs' \subseteq 1 .. nextId' - 1
      /\ \A i \in DOMAIN subs' : subs'[i] \in Row
  <2> DEFINE own == {i \in DOMAIN subs : subs[i].url = url}
  <2>1. CASE own # {}
    <3>1. nextId' = nextId
      BY <2>1 DEF AddSubscription
    <3>2. subs' = [i \in DOMAIN subs |->
                     IF i \in own THEN [subs[i] EXCEPT !.failures = 0, !.disabled = FALSE] ELSE subs[i]]
      BY <2>1 DEF AddSubscription
    <3>3. DOMAIN subs' = DOMAIN subs
      BY <3>2
    <3> HIDE DEF own
    <3>4. \A i \in DOMAIN subs : subs'[i] \in Row
      BY <1>1, <3>2
    <3>5. QED
      BY <1>1, <3>1, <3>3, <3>4
  <2>2. CASE own = {}
    <3> DEFINE new == [url |-> url, failures |-> 0, disabled |-> FALSE, since |-> stored, clean |-> TRUE]
    <3>1. nextId <= MaxSubs /\ nextId' = nextId + 1 /\ subs' = Upsert(subs, nextId, new)
      BY <2>2 DEF AddSubscription
    <3>2. new \in Row
      BY <1>2
    <3> HIDE DEF own, new, Row
    <3>3. DOMAIN subs' = DOMAIN subs \cup {nextId} /\ \A i \in DOMAIN subs' : subs'[i] \in Row
      BY <1>1, <3>1, <3>2
    <3>4. nextId' \in 1 .. MaxSubs + 1
      BY <1>1, <3>1
    <3>5. DOMAIN subs' \subseteq 1 .. nextId' - 1
      BY <1>1, <3>1, <3>3
    <3>6. QED
      BY <3>3, <3>4, <3>5
  <2>3. QED
    BY <2>1, <2>2
<1>4. TypeOK'
  BY <1>3 DEF WInv, TypeOK, AddSubscription
<1>5. QED
  BY <1>4, OthersKeepInv DEF AddSubscription

\* A subscription that is removed.
LEMMA RemoveKeepsInv == ASSUME WInv, NEW i, RemoveSubscription(i) PROVE WInv'
<1>1. TypeOK'
  BY DEF WInv, TypeOK, RemoveSubscription
<1>2. QED
  BY <1>1, OthersKeepInv DEF RemoveSubscription

(***************************************************************************)
(* The actions of a run                                                    *)
(***************************************************************************)

\* The sweep takes a copy of rows of the outbox.
LEMMA BeginKeepsInv == WInv /\ BeginRun => WInv'
<1> SUFFICES ASSUME WInv, BeginRun PROVE WInv'
  OBVIOUS
<1> USE NextUnchanged DEF WInv
<1>1. PICK chosen \in SUBSET DOMAIN outbox : sweep' = {<<p, outbox[p].attempts>> : p \in chosen}
  BY DEF BeginRun, kSubset
<1>2. /\ pc = "idle" /\ pc' = "sweep" /\ queue # <<>> /\ post = NoPost
      /\ UNCHANGED <<stored, pruned, aged, subs, nextId, outbox, queue, pending, ahead, post, posts,
                     received, crashes>>
  BY DEF BeginRun, RunInv
<1>3. DOMAIN outbox \subseteq Deliveries /\ \A p \in DOMAIN outbox : outbox[p].attempts \in Nat
  BY DEF TypeOK
<1>4. sweep' \subseteq Deliveries \X Nat
  BY <1>1, <1>3
<1>5. TypeOK'
  BY <1>2, <1>4 DEF TypeOK
<1>6. RunInv' /\ PostInv' /\ OutboxInv'
  BY <1>2 DEF RunInv, PostInv, OutboxInv, DeliveredWasReceived
<1>7. SweepInv'
  BY <1>1, <1>2 DEF SweepInv
<1>8. QED
  BY <1>5, <1>6, <1>7

\* A delivery that is given up keeps its attempts.
LEMMA SweepDeadKeepsInv == ASSUME WInv, NEW r \in sweep, SweepDead(r) PROVE WInv'
<1> USE NextUnchanged DEF WInv
<1>1. /\ outbox' = [outbox EXCEPT ![r[1]].status = "dead"] /\ sweep' = sweep \ {r}
      /\ pc = "sweep"
      /\ UNCHANGED <<stored, pruned, aged, subs, nextId, queue, pc, pending, ahead, post, posts,
                     received, crashes>>
  BY DEF SweepDead
<1>2. DOMAIN outbox' = DOMAIN outbox
  BY <1>1
<1>3. \A p \in DOMAIN outbox : outbox[p] \in OutboxRow
  BY DEF TypeOK, OutboxRow
<1>4. \A p \in DOMAIN outbox : /\ outbox'[p] \in OutboxRow
                               /\ outbox'[p].attempts = outbox[p].attempts
                               /\ outbox'[p].status \in {outbox[p].status, "dead"}
  BY <1>1, <1>3 DEF OutboxRow
<1>5. TypeOK'
  BY <1>1, <1>2, <1>4 DEF TypeOK, OutboxRow
<1>6. RunInv' /\ PostInv'
  BY <1>1 DEF RunInv, PostInv
<1>7. SweepInv'
  BY <1>1, <1>2, <1>4 DEF SweepInv
<1>8. OutboxInv'
  BY <1>1, <1>2, <1>4 DEF OutboxInv, DeliveredWasReceived
<1>9. QED
  BY <1>5, <1>6, <1>7, <1>8

\* What a POST leaves behind, whatever its outcome.
LEMMA PostFacts ==
  ASSUME NEW p, NEW n, received \subseteq Deliveries, p \in Deliveries, Post(p, n)
  PROVE  /\ post'.of = p /\ post'.attempt = n /\ post'.ok \in BOOLEAN
         /\ post' = [of |-> p, attempt |-> n, ok |-> post'.ok]
         /\ post'.ok => p \in received'
         /\ received \subseteq received' /\ received' \subseteq Deliveries
         /\ post' # NoPost
<1>1. PICK outcome \in Outcomes :
        /\ post' = [of |-> p, attempt |-> n, ok |-> outcome = "ok"]
        /\ received' = IF outcome = "failed" THEN received ELSE received \cup {p}
  BY DEF Post
<1>2. p # <<0, 0>>
  OBVIOUS
<1>3. post'.of = p /\ post'.attempt = n /\ post'.ok = (outcome = "ok")
  BY <1>1
<1>4. post' # NoPost
  BY <1>2, <1>3
<1>5. received \subseteq received' /\ received' \subseteq Deliveries /\ (outcome = "ok" => p \in received')
  BY <1>1
<1>6. QED
  BY <1>1, <1>3, <1>4, <1>5

\* A retry of the sweep is one attempt more than the outbox has.
LEMMA SweepPostKeepsInv == ASSUME WInv, NEW r \in sweep, SweepPost(r) PROVE WInv'
<1> USE DEF WInv
<1>1. /\ ~ GivenUp(r) /\ Post(r[1], r[2] + 1) /\ posts' = [posts EXCEPT ![r[1]] = @ + 1]
      /\ sweep' = sweep \ {r} /\ pc = "sweep" /\ pc' = "swept"
      /\ UNCHANGED <<stored, pruned, aged, subs, nextId, outbox, queue, pending, ahead, crashes>>
  BY DEF SweepPost
<1> DEFINE p == r[1]
<1>2. r \in Deliveries \X Nat /\ p \in DOMAIN outbox /\ r[2] = outbox[p].attempts /\ received \subseteq Deliveries
  BY DEF TypeOK, SweepInv
<1>3. p \in Deliveries /\ r[2] \in Nat /\ r = <<p, outbox[p].attempts>>
  BY <1>2
<1>4. /\ post'.of = p /\ post'.attempt = r[2] + 1 /\ post'.ok \in BOOLEAN
      /\ post' = [of |-> p, attempt |-> r[2] + 1, ok |-> post'.ok]
      /\ post'.ok => p \in received'
      /\ received \subseteq received' /\ received' \subseteq Deliveries
      /\ post' # NoPost
  BY <1>1, <1>2, <1>3, PostFacts
<1>5. post = NoPost /\ p # NoPost.of
  BY <1>1, <1>3 DEF RunInv
<1>6. p \in DOMAIN posts /\ posts[p] = r[2] /\ posts[p] \in Nat
  BY <1>2, <1>5 DEF OutboxInv, TypeOK
<1>7. DOMAIN posts' = DOMAIN posts /\ posts'[p] = r[2] + 1 /\ \A q \in DOMAIN posts \ {p} : posts'[q] = posts[q]
  BY <1>1, <1>6
<1>8. TypeOK'
  <2>1. sweep' \subseteq Deliveries \X Nat
    BY <1>1 DEF TypeOK
  <2>2. post' \in [of : {NoPost.of} \cup Deliveries, attempt : Nat, ok : BOOLEAN]
    BY <1>3, <1>4
  <2>3. DOMAIN posts' \subseteq Deliveries /\ \A q \in DOMAIN posts' : posts'[q] \in Nat
    <3>1. DOMAIN posts \subseteq Deliveries /\ \A q \in DOMAIN posts : posts[q] \in Nat
      BY DEF TypeOK
    <3> HIDE DEF p
    <3>2. QED
      BY <1>3, <1>7, <3>1
  <2>4. QED
    BY <1>1, <1>4, <2>1, <2>2, <2>3 DEF TypeOK
<1>9. RunInv'
  BY <1>1 DEF RunInv
<1>10. PostInv'
  <2>1. WithinLimits(r[2] + 1)
    BY <1>1, <1>3 DEF GivenUp, WithinLimits
  <2>2. QED
    BY <1>1, <1>4, <1>6, <1>7, <2>1 DEF PostInv
<1>11. SweepInv'
  <2>1. \A s \in sweep : s \in Deliveries \X Nat /\ s[2] = outbox[s[1]].attempts
    BY DEF SweepInv, TypeOK
  <2>2. \A s \in sweep : s[1] = p => s = r
    BY <1>3, <2>1
  <2>3. QED
    BY <1>1, <1>4, <2>2 DEF SweepInv
<1>12. OutboxInv'
  <2>1. \A q \in DOMAIN outbox : q # <<0, 0>> /\ outbox[q].attempts = posts[q]
    BY <1>5 DEF OutboxInv, TypeOK
  <2> HIDE DEF p
  <2>2. \A q \in DOMAIN outbox : q # post'.of => outbox[q].attempts = posts'[q]
    BY <1>4, <1>7, <2>1 DEF OutboxInv
  <2>3. QED
    BY <1>1, <1>4, <1>7, <2>2 DEF OutboxInv, DeliveredWasReceived
<1>13. QED
  BY <1>8, <1>9, <1>10, <1>11, <1>12

\* The outbox after an outcome was recorded.
LEMMA RecordFacts ==
  ASSUME NEW p, NEW ok \in BOOLEAN, NEW n \in Nat, RecordDeliveryOutcome(p, ok, n),
         \A q \in DOMAIN outbox : outbox[q] \in OutboxRow
  PROVE  /\ DOMAIN outbox' = DOMAIN outbox \cup {p}
         /\ \A q \in DOMAIN outbox' : outbox'[q] \in OutboxRow
         /\ outbox'[p].attempts = n
         /\ outbox'[p].status = "delivered" => ok
         /\ \A q \in DOMAIN outbox \ {p} : outbox'[q] = outbox[q]
  BY DEF RecordDeliveryOutcome, OutboxRow

\* The outcome of a retry brings the outbox up to its posts.
LEMMA SweepOutcomeKeepsInv == WInv /\ SweepOutcome => WInv'
<1> SUFFICES ASSUME WInv, SweepOutcome PROVE WInv'
  OBVIOUS
<1> USE NextUnchanged DEF WInv
<1> DEFINE p == post.of
<1>1. /\ pc = "swept" /\ pc' = "sweep" /\ post' = NoPost /\ RecordDeliveryOutcome(p, post.ok, post.attempt)
      /\ UNCHANGED <<stored, pruned, aged, subs, nextId, queue, sweep, pending, ahead, posts, received, crashes>>
  BY DEF SweepOutcome, SweepAttempts
<1>2. /\ post # NoPost /\ p \in DOMAIN posts /\ posts[p] = post.attempt /\ WithinLimits(post.attempt)
      /\ post.ok => p \in received
  BY <1>1 DEF PostInv
<1>3. /\ p \in Deliveries /\ p # NoPost.of /\ post.ok \in BOOLEAN /\ post.attempt \in Nat
      /\ \A q \in DOMAIN outbox : outbox[q] \in OutboxRow
  BY <1>2 DEF TypeOK, OutboxRow
<1>4. /\ DOMAIN outbox' = DOMAIN outbox \cup {p}
      /\ \A q \in DOMAIN outbox' : outbox'[q] \in OutboxRow
      /\ outbox'[p].attempts = post.attempt
      /\ outbox'[p].status = "delivered" => post.ok
      /\ \A q \in DOMAIN outbox \ {p} : outbox'[q] = outbox[q]
  <2>1. /\ RecordDeliveryOutcome(p, post.ok, post.attempt) /\ post.ok \in BOOLEAN /\ post.attempt \in Nat
        /\ \A q \in DOMAIN outbox : outbox[q] \in OutboxRow
    BY <1>1, <1>3
  <2> HIDE DEF p
  <2>2. QED
    BY <2>1, RecordFacts, Zenon
<1>5. TypeOK'
  BY <1>1, <1>3, <1>4 DEF TypeOK, OutboxRow
<1>6. RunInv'
  BY <1>1 DEF RunInv
<1>7. PostInv'
  BY <1>1 DEF PostInv, WithinLimits
<1>8. SweepInv'
  BY <1>1, <1>4 DEF SweepInv
<1>9. OutboxInv'
  BY <1>1, <1>2, <1>4 DEF OutboxInv, DeliveredWasReceived
<1>10. QED
  BY <1>5, <1>6, <1>7, <1>8, <1>9

\* The subscriptions are loaded, and the run turns to its range.
LEMMA LoadKeepsInv == WInv /\ LoadSubscriptions => WInv'
<1> SUFFICES ASSUME WInv, LoadSubscriptions PROVE WInv'
  OBVIOUS
<1> USE DEF WInv
<1>1. /\ pc = "sweep" /\ sweep = {} /\ ReadOn(Enabled, Head(queue)[1])
      /\ UNCHANGED <<stored, pruned, aged, subs, nextId, outbox, sweep, post, posts, received, crashes>>
  BY DEF LoadSubscriptions
<1>2. queue \in Seq(Nat \X Nat) /\ queue # <<>> /\ post = NoPost
  BY <1>1 DEF TypeOK, RunInv
<1>3. Head(queue)[1] \in Nat
  <2>1. Head(queue) \in Nat \X Nat
    BY <1>2
  <2>2. QED
    BY <2>1
<1>4. Enabled \in SUBSET Ids /\ stored \in 0 .. MaxLedger /\ pruned \in 0 .. stored
  BY DEF TypeOK, Enabled
<1>5. /\ queue' \in Seq(Nat \X Nat) /\ pending' \subseteq Deliveries
      /\ ahead' \in [ids : SUBSET Ids, from : Nat] /\ pc' \in {"idle", "deliver"}
      /\ pc' = "deliver" => queue' # <<>> /\ pending' # {}
  BY <1>1, <1>2, <1>3, <1>4, ReadOnTypes
<1>6. TypeOK'
  BY <1>1, <1>5 DEF TypeOK
<1>7. RunInv'
  BY <1>1, <1>2, <1>5 DEF RunInv
<1>8. PostInv'
  BY <1>1, <1>2, <1>5 DEF PostInv
<1>9. SweepInv' /\ OutboxInv'
  BY <1>1, <1>5 DEF SweepInv, OutboxInv, DeliveredWasReceived
<1>10. QED
  BY <1>6, <1>7, <1>8, <1>9

\* An inline try is one attempt more, of the same delivery or of a new one.
LEMMA DeliverKeepsInv == WInv /\ DeliverToUrl => WInv'
<1> SUFFICES ASSUME WInv, DeliverToUrl PROVE WInv'
  OBVIOUS
<1> USE DEF WInv
<1> DEFINE d == NextDelivery
           n == post.attempt + 1
<1>1. /\ pc = "deliver" /\ pc' = "delivered" /\ Post(d, n) /\ posts' = Upsert(posts, d, n)
      /\ UNCHANGED <<stored, pruned, aged, subs, nextId, outbox, queue, sweep, pending, ahead, crashes>>
  BY DEF DeliverToUrl
<1>2. d \in Deliveries /\ received \subseteq Deliveries /\ post.attempt \in Nat
  BY <1>1, NextIsPending DEF RunInv, TypeOK
<1>3. d = NextDelivery'
  BY <1>1, NextUnchanged
<1> HIDE DEF d
<1>4. /\ post'.of = d /\ post'.attempt = n /\ post'.ok \in BOOLEAN
      /\ post' = [of |-> d, attempt |-> n, ok |-> post'.ok]
      /\ post'.ok => d \in received'
      /\ received \subseteq received' /\ received' \subseteq Deliveries
      /\ post' # NoPost
  BY <1>1, <1>2, PostFacts
<1>5. DOMAIN posts' = DOMAIN posts \cup {d} /\ posts'[d] = n /\ \A q \in DOMAIN posts \ {d} : posts'[q] = posts[q]
  BY <1>1
<1>6. TypeOK'
  <2>1. post' \in [of : {NoPost.of} \cup Deliveries, attempt : Nat, ok : BOOLEAN]
    BY <1>2, <1>4
  <2>2. DOMAIN posts \subseteq Deliveries /\ \A q \in DOMAIN posts : posts[q] \in Nat
    BY DEF TypeOK
  <2>3. DOMAIN posts' \subseteq Deliveries /\ \A q \in DOMAIN posts' : posts'[q] \in Nat
    BY <1>2, <1>5, <2>2
  <2>4. QED
    BY <1>1, <1>4, <2>1, <2>3 DEF TypeOK
<1>7. RunInv'
  BY <1>1 DEF RunInv
<1>8. PostInv'
  <2>1. n <= MaxTries
    BY <1>1, <1>2 DEF PostInv
  <2>2. QED
    BY <1>1, <1>3, <1>4, <1>5, <2>1 DEF PostInv, WithinLimits
<1>9. SweepInv'
  BY <1>1 DEF SweepInv, RunInv
<1>10. OutboxInv'
  <2>1. \A q \in DOMAIN outbox : q # d => outbox[q].attempts = posts[q]
    <3>1. \A q \in DOMAIN outbox : q # <<0, 0>>
      BY DEF TypeOK
    <3>2. post # NoPost => post.of = d
      BY <1>1 DEF PostInv, d
    <3>3. QED
      BY <3>1, <3>2 DEF OutboxInv
  <2>2. QED
    BY <1>1, <1>4, <1>5, <2>1 DEF OutboxInv, DeliveredWasReceived
<1>11. QED
  BY <1>6, <1>7, <1>8, <1>9, <1>10

\* A try that failed is made again.
LEMMA RetryKeepsInv == WInv /\ RetryInline => WInv'
<1> SUFFICES ASSUME WInv, RetryInline PROVE WInv'
  OBVIOUS
<1> USE NextUnchanged DEF WInv, RetryInline
<1>1. TypeOK'
  BY DEF TypeOK
<1>2. RunInv' /\ SweepInv'
  BY DEF RunInv, SweepInv
<1>3. PostInv'
  BY DEF PostInv
<1>4. OutboxInv'
  BY DEF OutboxInv, DeliveredWasReceived
<1>5. QED
  BY <1>1, <1>2, <1>3, <1>4

\* The failure counter and the flag keep their types.
LEMMA SubscriptionFacts ==
  ASSUME NEW i, NEW ok \in BOOLEAN, RecordSubscriptionOutcome(i, ok),
         \A j \in DOMAIN subs : subs[j] \in SubRow
  PROVE  DOMAIN subs' = DOMAIN subs /\ \A j \in DOMAIN subs : subs'[j] \in SubRow
<1>1. CASE i \in DOMAIN subs
  <2> DEFINE failures == FailuresAfter(i, ok)
             disabled == subs[i].disabled \/ (~ ok /\ failures >= DisableAfter)
  <2>1. failures \in Nat /\ disabled \in BOOLEAN
    BY <1>1 DEF FailuresAfter, SubRow
  <2>2. subs' = [subs EXCEPT ![i].failures = failures, ![i].disabled = disabled, ![i].clean = @ /\ ~ disabled]
    BY <1>1 DEF RecordSubscriptionOutcome
  <2> HIDE DEF failures, disabled
  <2>3. subs[i] \in SubRow /\ DOMAIN subs' = DOMAIN subs
    BY <1>1, <2>2
  <2>4. subs'[i] = [subs[i] EXCEPT !.failures = failures, !.disabled = disabled, !.clean = @ /\ ~ disabled]
    BY <1>1, <2>2
  <2>5. subs'[i] \in SubRow
    BY <2>1, <2>3, <2>4 DEF SubRow
  <2>6. \A j \in DOMAIN subs \ {i} : subs'[j] = subs[j]
    BY <2>2
  <2>7. QED
    BY <2>3, <2>5, <2>6
<1>2. CASE i \notin DOMAIN subs
  BY <1>2 DEF RecordSubscriptionOutcome
<1>3. QED
  BY <1>1, <1>2

\* The outcome of the inline tries brings the outbox up to its posts.
LEMMA RecordKeepsInv == WInv /\ RecordResult => WInv'
<1> SUFFICES ASSUME WInv, RecordResult PROVE WInv'
  OBVIOUS
<1> USE DEF WInv
<1> DEFINE p == post.of
<1>1. /\ pc = "delivered" /\ post' = NoPost
      /\ RecordDeliveryOutcome(p, post.ok, post.attempt)
      /\ RecordSubscriptionOutcome(p[1], post.ok)
      /\ UNCHANGED <<stored, pruned, aged, nextId, sweep, posts, received, crashes>>
  BY DEF RecordResult, Settled
<1>2. /\ post # NoPost /\ p \in DOMAIN posts /\ posts[p] = post.attempt /\ WithinLimits(post.attempt)
      /\ post.ok => p \in received
  BY <1>1 DEF PostInv
<1>3. /\ p \in Deliveries /\ p # NoPost.of /\ post.ok \in BOOLEAN /\ post.attempt \in Nat
      /\ \A q \in DOMAIN outbox : outbox[q] \in OutboxRow
      /\ \A j \in DOMAIN subs : subs[j] \in SubRow
  BY <1>2 DEF TypeOK, OutboxRow, SubRow
<1>4. /\ DOMAIN outbox' = DOMAIN outbox \cup {p}
      /\ \A q \in DOMAIN outbox' : outbox'[q] \in OutboxRow
      /\ outbox'[p].attempts = post.attempt
      /\ outbox'[p].status = "delivered" => post.ok
      /\ \A q \in DOMAIN outbox \ {p} : outbox'[q] = outbox[q]
  <2>1. /\ RecordDeliveryOutcome(p, post.ok, post.attempt) /\ post.ok \in BOOLEAN /\ post.attempt \in Nat
        /\ \A q \in DOMAIN outbox : outbox[q] \in OutboxRow
    BY <1>1, <1>3
  <2> HIDE DEF p
  <2>2. QED
    BY <2>1, RecordFacts, Zenon
<1>5. DOMAIN subs' = DOMAIN subs /\ \A j \in DOMAIN subs : subs'[j] \in SubRow
  BY <1>1, <1>3, SubscriptionFacts
<1>6. /\ queue' \in Seq(Nat \X Nat) /\ pending' \subseteq Deliveries
      /\ ahead' \in [ids : SUBSET Ids, from : Nat] /\ pc' \in {"idle", "deliver"}
      /\ pc' = "deliver" => queue' # <<>> /\ pending' # {}
  <2>1. /\ queue \in Seq(Nat \X Nat) /\ queue # <<>> /\ pending \subseteq Deliveries /\ pending # {}
        /\ ahead \in [ids : SUBSET Ids, from : Nat]
        /\ stored \in 0 .. MaxLedger /\ pruned \in 0 .. stored
    BY <1>1 DEF TypeOK, RunInv
  <2>2. CASE pending = {p}
    <3>1. ReadOn(ahead.ids, ahead.from)
      BY <2>2 DEF RecordResult
    <3>2. ahead.ids \in SUBSET Ids /\ ahead.from \in Nat
      BY <2>1
    <3>3. QED
      BY <2>1, <3>1, <3>2, ReadOnTypes
  <2>3. CASE pending # {p}
    <3>1. pending' = pending \ {p} /\ pc' = "deliver" /\ UNCHANGED <<ahead, queue>>
      BY <2>3 DEF RecordResult
    <3>2. QED
      BY <2>1, <2>3, <3>1
  <2>4. QED
    BY <2>2, <2>3
<1>7. TypeOK'
  BY <1>1, <1>3, <1>4, <1>5, <1>6 DEF TypeOK, OutboxRow, SubRow
<1>8. RunInv'
  BY <1>1, <1>6 DEF RunInv
<1>9. PostInv'
  BY <1>1, <1>6 DEF PostInv, WithinLimits
<1>10. SweepInv'
  BY <1>1, <1>6 DEF SweepInv, RunInv
<1>11. OutboxInv'
  BY <1>1, <1>2, <1>4 DEF OutboxInv, DeliveredWasReceived
<1>12. QED
  BY <1>7, <1>8, <1>9, <1>10, <1>11

\* After a crash the posts count from what the outbox has.
LEMMA CrashKeepsInv == WInv /\ Crash => WInv'
<1> SUFFICES ASSUME WInv, Crash PROVE WInv'
  OBVIOUS
<1> USE DEF WInv
<1>1. /\ queue' = <<>> /\ pc' = "idle" /\ sweep' = {} /\ pending' = {} /\ ahead' = NoPages /\ post' = NoPost
      /\ crashes' = crashes + 1
      /\ posts' = [p \in DOMAIN outbox |-> outbox[p].attempts]
      /\ subs' = [i \in DOMAIN subs |-> [subs[i] EXCEPT !.clean = FALSE]]
      /\ UNCHANGED <<stored, pruned, aged, nextId, outbox, received>>
  BY DEF Crash
<1>2. \A i \in DOMAIN subs : subs[i] \in SubRow
  BY DEF TypeOK, SubRow
<1>3. DOMAIN subs' = DOMAIN subs /\ \A i \in DOMAIN subs' : subs'[i] \in SubRow
  BY <1>1, <1>2 DEF SubRow
<1>4. DOMAIN posts' = DOMAIN outbox /\ \A p \in DOMAIN outbox : posts'[p] = outbox[p].attempts /\ posts'[p] \in Nat
  BY <1>1 DEF TypeOK
<1>5. TypeOK'
  <2>1. queue' \in Seq(Nat \X Nat) /\ pending' \subseteq Deliveries /\ sweep' \subseteq Deliveries \X Nat
    BY <1>1
  <2>2. ahead' \in [ids : SUBSET Ids, from : Nat]
        /\ post' \in [of : {NoPost.of} \cup Deliveries, attempt : Nat, ok : BOOLEAN]
    BY <1>1
  <2>3. DOMAIN posts' \subseteq Deliveries /\ \A p \in DOMAIN posts' : posts'[p] \in Nat
    BY <1>4 DEF TypeOK
  <2>4. /\ stored' \in 0 .. MaxLedger /\ pruned' \in 0 .. stored' /\ aged' \in 0 .. stored'
        /\ nextId' \in 1 .. MaxSubs + 1 /\ received' \subseteq Deliveries /\ crashes' \in Nat
    <3>1. UNCHANGED <<stored, pruned, aged, nextId, received>> /\ crashes' = crashes + 1
      BY <1>1
    <3>2. QED
      BY <3>1 DEF TypeOK
  <2>5. /\ DOMAIN outbox' \subseteq Deliveries
        /\ \A p \in DOMAIN outbox' :
             outbox'[p] \in [status : {"failed", "delivered", "dead"}, attempts : Nat, due : BOOLEAN]
    BY <1>1 DEF TypeOK
  <2>6. DOMAIN subs' \subseteq 1 .. nextId' - 1
    BY <1>1, <1>3 DEF TypeOK
  <2>7. QED
    BY <1>1, <1>3, <2>1, <2>2, <2>3, <2>4, <2>5, <2>6 DEF TypeOK, SubRow
<1>6. RunInv' /\ SweepInv'
  BY <1>1 DEF RunInv, SweepInv
<1>7. PostInv'
  BY <1>1 DEF PostInv, WithinLimits
<1>8. OutboxInv'
  BY <1>1, <1>4 DEF OutboxInv, DeliveredWasReceived
<1>9. QED
  BY <1>5, <1>6, <1>7, <1>8

\* Every step keeps the invariant.
LEMMA WNextInv == WInv /\ [Next]_vars => WInv'
<1>1. WInv /\ UNCHANGED vars => WInv'
  BY OthersKeepInv DEF vars, WInv, TypeOK
<1>2. WInv /\ Run => WInv'
  BY BeginKeepsInv, SweepDeadKeepsInv, SweepPostKeepsInv, SweepOutcomeKeepsInv, LoadKeepsInv,
     DeliverKeepsInv, RetryKeepsInv, RecordKeepsInv DEF Run
<1>3. QED
  BY <1>1, <1>2, EnqueueKeepsInv, PruneKeepsInv, GrowOldKeepsInv, BackoffKeepsInv, AddKeepsInv,
     RemoveKeepsInv, CrashKeepsInv DEF Next

\* The invariant holds in every state.
LEMMA WInvariance == Spec => []WInv
  BY WInitInv, WNextInv, PTL DEF Spec

(***************************************************************************)
(* Every row gets its verdict.  A row that a subscription is owed and that *)
(* has none is on its way: in a range that waits, or in the range of the   *)
(* run, which has not come to it.                                          *)
(***************************************************************************)

Running == pc \in {"deliver", "delivered"}

In(e, range) == range[1] <= e /\ e <= range[2]

Owed(i, e) == subs[i].clean /\ subs[i].since < e

\* The run has not made the delivery.
Ahead(i, e) ==
  \/ ~ Running
  \/ <<i, e>> \in pending
  \/ i \in ahead.ids /\ ahead.from <= e

\* A range that waits reaches the row, and no range before it comes as far.
Later(e, ranges) ==
  \E k \in 2 .. Len(ranges) : In(e, ranges[k]) /\ \A m \in 1 .. k - 1 : ranges[m][2] < e

Covered(i, e) ==
  \/ <<i, e>> \in DOMAIN outbox
  \/ Later(e, queue)
  \/ queue # <<>> /\ In(e, queue[1]) /\ Ahead(i, e)

\* Ranges end at rows that were stored, the run has loaded whoever is owed a row
\* of its range, and it goes on at the start of a page.
CoverInv ==
  /\ \A i \in DOMAIN subs, e \in Rows : Owed(i, e) => Covered(i, e)
  /\ \A i \in DOMAIN subs : subs[i].clean => ~ subs[i].disabled
  /\ \A k \in 1 .. Len(queue) : queue[k][2] <= stored
  /\ Running => \A i \in DOMAIN subs : Owed(i, queue[1][2]) => i \in ahead.ids
  /\ Running => \E k \in Nat : ahead.from = queue[1][1] + k * PageSize

\* A ledger behind a page start is on a page.
LEMMA PageOf ==
  ASSUME NEW first \in Nat, NEW m \in Nat, NEW e \in Nat, first + m * PageSize <= e
  PROVE  \E k \in Nat : /\ first + m * PageSize <= first + k * PageSize
                        /\ first + k * PageSize <= e /\ e <= first + k * PageSize + PageSize - 1
<1> DEFINE Past == {n \in Nat : e < first + n * PageSize}
<1>1. PageSize \in Nat /\ PageSize >= 1
  OBVIOUS
<1>2. e + 1 <= (e + 1) * PageSize
  BY <1>1
<1>3. e + 1 \in Past /\ Past \in SUBSET Nat
  BY <1>1, <1>2
<1>4. PICK n \in Past : \A x \in Past : n <= x
  BY <1>3, MinProperty, Zenon
<1>5. n # 0 /\ n \in Nat /\ e < first + n * PageSize
  BY <1>4
<1>6. n - 1 \in Nat /\ n - 1 \notin Past
  BY <1>4, <1>5
<1>7. n * PageSize = (n - 1) * PageSize + PageSize
  BY <1>1, <1>5
<1>8. first + (n - 1) * PageSize <= e
  BY <1>1, <1>6
<1>9. m < n
  <2>1. m * PageSize < n * PageSize
    BY <1>1, <1>5
  <2>2. n <= m => n * PageSize <= m * PageSize
    BY <1>1, <1>5
  <2>3. QED
    BY <1>1, <1>5, <2>1, <2>2
<1>10. m * PageSize <= (n - 1) * PageSize
  BY <1>1, <1>6, <1>9
<1>11. e <= first + (n - 1) * PageSize + PageSize - 1
  <2>1. (n - 1) * PageSize \in Nat /\ n * PageSize \in Nat
    BY <1>1, <1>5, <1>6
  <2>2. QED
    BY <1>1, <1>5, <1>7, <2>1
<1>12. first + m * PageSize <= first + (n - 1) * PageSize
  <2>1. m * PageSize \in Nat /\ (n - 1) * PageSize \in Nat
    BY <1>1, <1>6
  <2>2. QED
    BY <1>10, <2>1
<1>13. QED
  BY <1>6, <1>8, <1>11, <1>12

\* Reading on stays on the starts of pages, or the run leaves the queue.
LEMMA ReadOnStays ==
  ASSUME queue \in Seq(Nat \X Nat), queue # <<>>, NEW ids \in SUBSET Ids, NEW from \in Nat, ReadOn(ids, from)
  PROVE  \/ pc' = "idle" /\ queue' = Tail(queue)
         \/ /\ pc' = "deliver" /\ queue' = queue /\ ahead'.ids = ids
            /\ \E k \in Nat : ahead'.from = queue[1][1] + k * PageSize
<1> DEFINE first == Head(queue)[1]
           last  == Head(queue)[2]
           pages == {n \in PageStarts(first, last) : /\ from <= n /\ ids # {}
                                                    /\ Rows \cap PageRows(n, last) # {}}
           next  == Min(pages)
<1>1. first \in Nat /\ last \in Nat /\ first = queue[1][1]
  <2>1. Head(queue) \in Nat \X Nat /\ Head(queue) = queue[1]
    OBVIOUS
  <2>2. QED
    BY <2>1
<1>2. CASE pages = {}
  BY <1>2 DEF ReadOn
<1>3. CASE pages # {}
  <2>1. /\ ahead' = [ids |-> ids, from |-> next + PageSize]
        /\ pc' = "deliver" /\ queue' = queue
    BY <1>3 DEF ReadOn
  <2>2. pages \in SUBSET Nat
    BY <1>1 DEF PageStarts
  <2>3. next \in pages
    <3> HIDE DEF pages
    <3> QED BY <1>3, <2>2, MinProperty, Zenon
  <2>4. PICK k \in 0 .. last - first : next = first + k * PageSize
    BY <2>3 DEF PageStarts
  <2> HIDE DEF next, pages
  <2>5. k + 1 \in Nat /\ ahead'.from = first + (k + 1) * PageSize
    <3>1. k \in Nat /\ k * PageSize \in Nat /\ (k + 1) * PageSize = k * PageSize + PageSize
      BY <1>1
    <3>2. QED
      BY <1>1, <2>1, <2>4, <3>1
  <2> HIDE DEF first
  <2>6. QED
    BY <1>1, <2>1, <2>5
<1>4. QED
  BY <1>2, <1>3

\* Reading on does not pass a row that is left of the range.
LEMMA ReadOnCovers ==
  ASSUME queue \in Seq(Nat \X Nat), queue # <<>>, stored \in 0 .. MaxLedger, pruned \in 0 .. stored,
         NEW ids \in SUBSET Ids, NEW m \in Nat, ReadOn(ids, queue[1][1] + m * PageSize),
         NEW i \in ids, NEW e \in Rows, In(e, queue[1]), queue[1][1] + m * PageSize <= e
  PROVE  pc' = "deliver" /\ queue' = queue /\ ahead'.ids = ids /\ (<<i, e>> \in pending' \/ ahead'.from <= e)
<1> DEFINE first == Head(queue)[1]
           last  == Head(queue)[2]
           from  == first + m * PageSize
           pages == {n \in PageStarts(first, last) : /\ from <= n /\ ids # {}
                                                    /\ Rows \cap PageRows(n, last) # {}}
           next  == Min(pages)
<1>1. first \in Nat /\ last \in Nat /\ Head(queue) = queue[1]
  <2>1. Head(queue) \in Nat \X Nat /\ Head(queue) = queue[1]
    OBVIOUS
  <2>2. QED
    BY <2>1
<1>2. e \in Nat /\ e <= last /\ from <= e /\ ReadOn(ids, from)
  BY <1>1 DEF In
<1>3. PICK k \in Nat : /\ from <= first + k * PageSize
                       /\ first + k * PageSize <= e /\ e <= first + k * PageSize + PageSize - 1
  BY <1>1, <1>2, PageOf
<1> DEFINE n == first + k * PageSize
<1>4. n \in Nat /\ n <= last /\ k <= last - first /\ k * PageSize \in Nat
  <2> DEFINE q == k * PageSize
  <2>1. q \in Nat /\ k <= q
    OBVIOUS
  <2>2. n = first + q /\ first + q <= e
    BY <1>3
  <2> HIDE DEF q, first, last, n
  <2>3. n \in Nat /\ n <= last /\ k <= last - first /\ q \in Nat
    BY <1>1, <1>2, <2>1, <2>2
  <2>4. QED
    BY <2>3 DEF q
<1>5. n \in PageStarts(first, last)
  BY <1>1, <1>4 DEF PageStarts
<1>6. e \in PageRows(n, last)
  <2>1. n + PageSize - 1 \in Nat
    <3>1. n \in Nat /\ PageSize \in Nat \ {0}
      BY <1>4, ParametersAssumption
    <3> HIDE DEF n
    <3>2. QED
      BY <3>1
  <2>2. Min({n + PageSize - 1, last}) \in {n + PageSize - 1, last}
    <3>1. {n + PageSize - 1, last} \in SUBSET Nat /\ {n + PageSize - 1, last} # {}
      BY <1>1, <2>1
    <3>2. QED
      BY <3>1, MinProperty, Zenon
  <2>3. QED
    BY <1>2, <1>3, <1>4, <2>2 DEF PageRows
<1>7. n \in pages
  BY <1>3, <1>5, <1>6
<1>8. /\ pending' = ids \X (Rows \cap PageRows(next, last))
      /\ ahead' = [ids |-> ids, from |-> next + PageSize]
      /\ pc' = "deliver" /\ queue' = queue
  BY <1>2, <1>7 DEF ReadOn
<1>9. pages \in SUBSET Nat
  BY DEF PageStarts
<1>10. next \in Nat /\ next <= n /\ next \in pages
  <2> HIDE DEF pages, n
  <2> QED BY <1>7, <1>9, MinProperty
<1>11. CASE e < next + PageSize
  <2>1. next + PageSize - 1 \in Nat
    BY <1>10
  <2>2. Min({next + PageSize - 1, last}) \in {next + PageSize - 1, last}
    <3>1. {next + PageSize - 1, last} \in SUBSET Nat /\ {next + PageSize - 1, last} # {}
      BY <1>1, <2>1
    <3>2. QED
      BY <3>1, MinProperty, Zenon
  <2> HIDE DEF next
  <2>3. next <= e
    BY <1>2, <1>3, <1>4, <1>10
  <2>4. e \in PageRows(next, last)
    BY <1>2, <1>10, <1>11, <2>2, <2>3 DEF PageRows
  <2>5. QED
    BY <1>8, <2>4
<1>12. CASE next + PageSize <= e
  BY <1>8, <1>12
<1>13. QED
  BY <1>2, <1>10, <1>11, <1>12

\* What most steps do to a subscription: it stays, or it is new and owed nothing yet.
SubsKept ==
  \A i \in DOMAIN subs' :
    /\ subs'[i].clean => ~ subs'[i].disabled
    /\ \/ /\ i \in DOMAIN subs /\ subs'[i].since = subs[i].since
          /\ subs'[i].clean => subs[i].clean
       \/ subs'[i].since = stored'

\* A step that does not move the run on in its range covers what was covered.
LEMMA CoverKept ==
  ASSUME WInv, WInv', CoverInv, SubsKept, UNCHANGED <<queue, pending, ahead, stored>>, Running' = Running,
         DOMAIN outbox \subseteq DOMAIN outbox', Rows' \subseteq Rows
  PROVE  CoverInv'
<1>1. \A i \in DOMAIN subs', e \in Rows' : Owed(i, e)' => Covered(i, e)'
  <2> SUFFICES ASSUME NEW i \in DOMAIN subs', NEW e \in Rows', Owed(i, e)' PROVE Covered(i, e)'
    OBVIOUS
  <2>1. e \in Nat /\ e <= stored' /\ stored' \in Nat
    <3>1. stored' \in Nat /\ pruned' \in Nat
      BY DEF WInv, TypeOK
    <3>2. QED
      BY <3>1
  <2>2. i \in DOMAIN subs /\ Owed(i, e)
    BY <2>1 DEF SubsKept, Owed
  <2>3. Covered(i, e)
    BY <2>2 DEF CoverInv
  <2>4. QED
    BY <2>3 DEF Covered, Ahead, In
<1>2. Running' => \A i \in DOMAIN subs' : Owed(i, queue[1][2])' => i \in ahead.ids
  <2> SUFFICES ASSUME Running, NEW i \in DOMAIN subs', Owed(i, queue[1][2])' PROVE i \in ahead.ids
    OBVIOUS
  <2>1. queue # <<>> /\ queue \in Seq(Nat \X Nat) /\ stored \in Nat
    BY DEF WInv, RunInv, TypeOK, Running
  <2>2. queue[1] \in Nat \X Nat /\ queue[1][2] <= stored
    BY <2>1 DEF CoverInv
  <2>3. i \in DOMAIN subs /\ Owed(i, queue[1][2])
    BY <2>1, <2>2 DEF SubsKept, Owed
  <2>4. QED
    BY <2>3 DEF CoverInv
<1>3. QED
  BY <1>1, <1>2 DEF CoverInv, SubsKept

\* A run that reads on covers what is left of its range, and passes on the rest.
LEMMA CoverReadOn ==
  ASSUME WInv, WInv', CoverInv, SubsKept, DOMAIN subs' \subseteq DOMAIN subs, UNCHANGED <<stored, pruned>>,
         \A i \in DOMAIN subs' : subs'[i].since = subs[i].since /\ (subs'[i].clean => subs[i].clean),
         DOMAIN outbox \subseteq DOMAIN outbox', queue # <<>>,
         NEW ids \in SUBSET Ids, NEW m \in Nat, ReadOn(ids, queue[1][1] + m * PageSize),
         \A i \in DOMAIN subs, e \in Rows :
           Owed(i, e) /\ In(e, queue[1]) /\ Ahead(i, e) =>
             <<i, e>> \in DOMAIN outbox' \/ (i \in ids /\ queue[1][1] + m * PageSize <= e),
         \A i \in DOMAIN subs : Owed(i, queue[1][2]) => i \in ids
  PROVE  CoverInv'
<1> DEFINE from == queue[1][1] + m * PageSize
<1>1. queue \in Seq(Nat \X Nat) /\ stored \in 0 .. MaxLedger /\ pruned \in 0 .. stored
  BY DEF WInv, TypeOK
<1>2. from \in Nat
  <2>1. queue[1] \in Nat \X Nat /\ m * PageSize \in Nat
    BY <1>1
  <2>2. QED
    BY <2>1
<1> HIDE DEF from
<1>3. ReadOn(ids, from)
  BY DEF from
<1>4. \/ pc' = "idle" /\ queue' = Tail(queue)
      \/ /\ pc' = "deliver" /\ queue' = queue /\ ahead'.ids = ids
         /\ \E k \in Nat : ahead'.from = queue[1][1] + k * PageSize
  BY <1>1, <1>2, <1>3, ReadOnStays
<1>5. ASSUME NEW i \in DOMAIN subs', NEW e \in Rows, Owed(i, e)' PROVE Covered(i, e)'
  <2>1. i \in DOMAIN subs /\ Owed(i, e)
    BY <1>5 DEF Owed
  <2>2. CASE <<i, e>> \in DOMAIN outbox'
    BY <2>2 DEF Covered
  <2>3. CASE Later(e, queue)
    <3>1. PICK k \in 2 .. Len(queue) : In(e, queue[k]) /\ \A n \in 1 .. k - 1 : queue[n][2] < e
      BY <2>3 DEF Later
    <3>2. CASE pc' = "deliver" /\ queue' = queue
      BY <2>3, <3>2 DEF Covered
    <3>3. CASE pc' = "idle" /\ queue' = Tail(queue)
      <4>1. /\ Len(queue') = Len(queue) - 1 /\ k - 1 \in 1 .. Len(queue')
            /\ queue'[k - 1] = queue[k] /\ queue' # <<>>
        <5>1. Len(queue) \in Nat /\ k \in Nat /\ 2 <= k /\ k <= Len(queue)
          <6>1. Len(queue) \in Nat
            BY <1>1
          <6>2. QED
            BY <6>1
        <5>2. Len(queue') = Len(queue) - 1 /\ \A n \in 1 .. Len(queue) - 1 : queue'[n] = queue[n + 1]
          BY <1>1, <3>3, <5>1
        <5>3. queue'[k - 1] = queue[(k - 1) + 1]
          BY <5>1, <5>2
        <5>4. queue' # <<>>
          BY <5>1, <5>2
        <5>5. QED
          BY <5>1, <5>2, <5>3, <5>4
      <4>2. In(e, queue'[k - 1]) /\ \A n \in 1 .. k - 2 : queue'[n][2] < e
        <5>1. In(e, queue'[k - 1])
          BY <3>1, <4>1
        <5>2. ASSUME NEW n \in 1 .. k - 2 PROVE queue'[n][2] < e
          <6>1. n \in Nat /\ k \in Nat /\ Len(queue) \in Nat /\ 1 <= n /\ n <= k - 2 /\ k <= Len(queue)
            BY <1>1, <3>1
          <6>2. n + 1 \in 1 .. k - 1 /\ n \in 1 .. Len(queue) - 1
            BY <6>1
          <6>3. queue'[n] = queue[n + 1]
            BY <1>1, <3>3, <6>1, <6>2
          <6>4. QED
            BY <3>1, <6>2, <6>3
        <5>3. QED
          BY <5>1, <5>2
      <4>3. Ahead(i, e)'
        BY <3>3 DEF Ahead, Running
      <4>4. CASE k - 1 = 1
        BY <4>1, <4>2, <4>3, <4>4 DEF Covered, In
      <4>5. CASE k - 1 # 1
        <5>1. k - 1 \in 2 .. Len(queue') /\ (k - 1) - 1 = k - 2
          BY <4>1, <4>5
        <5>2. Later(e, queue')
          BY <4>2, <5>1 DEF Later
        <5>3. QED
          BY <5>2 DEF Covered
      <4>6. QED
        BY <4>4, <4>5
    <3>4. QED
      BY <1>4, <3>2, <3>3
  <2>4. CASE In(e, queue[1]) /\ Ahead(i, e) /\ <<i, e>> \notin DOMAIN outbox'
    <3>1. i \in ids /\ from <= e
      BY <2>1, <2>4 DEF from
    <3>2. pc' = "deliver" /\ queue' = queue /\ ahead'.ids = ids /\ (<<i, e>> \in pending' \/ ahead'.from <= e)
      BY <1>1, <2>4, <3>1, ReadOnCovers DEF from
    <3>3. Ahead(i, e)'
      BY <3>1, <3>2 DEF Ahead
    <3>4. QED
      BY <2>4, <3>2, <3>3 DEF Covered, In
  <2>5. Covered(i, e)
    BY <2>1 DEF CoverInv
  <2>6. QED
    BY <2>2, <2>3, <2>4, <2>5 DEF Covered
<1>6. \A k \in 1 .. Len(queue') : queue'[k][2] <= stored'
  <2>1. CASE queue' = queue
    BY <2>1 DEF CoverInv
  <2>2. CASE queue' = Tail(queue)
    <3> SUFFICES ASSUME NEW k \in 1 .. Len(queue') PROVE queue'[k][2] <= stored
      OBVIOUS
    <3>1. k + 1 \in 1 .. Len(queue) /\ queue'[k] = queue[k + 1]
      BY <1>1, <2>2
    <3>2. QED
      BY <3>1 DEF CoverInv
  <2>3. QED
    BY <1>4, <2>1, <2>2
<1>7. Running' => /\ \A i \in DOMAIN subs' : Owed(i, queue[1][2])' => i \in ahead'.ids
                  /\ \E k \in Nat : ahead'.from = queue'[1][1] + k * PageSize
  <2> SUFFICES ASSUME Running'
               PROVE /\ \A i \in DOMAIN subs' : Owed(i, queue[1][2])' => i \in ahead'.ids
                     /\ \E k \in Nat : ahead'.from = queue'[1][1] + k * PageSize
    OBVIOUS
  <2>1. queue' = queue /\ ahead'.ids = ids /\ \E k \in Nat : ahead'.from = queue[1][1] + k * PageSize
    BY <1>4 DEF Running
  <2>2. \A i \in DOMAIN subs' : Owed(i, queue[1][2])' => Owed(i, queue[1][2])
    BY <2>1 DEF Owed
  <2>3. QED
    BY <2>1, <2>2
<1>8. Rows' = Rows
  OBVIOUS
<1>9. QED
  BY <1>5, <1>6, <1>7, <1>8 DEF CoverInv, SubsKept

\* Nothing is owed before the first row.
LEMMA InitCovers == Init => CoverInv
  BY DEF Init, CoverInv, Running

\* A new range reaches the rows that were stored with it.
LEMMA EnqueueCovers == WInv /\ WInv' /\ CoverInv /\ EnqueueWebhookDelivery => CoverInv'
<1> SUFFICES ASSUME WInv, WInv', CoverInv, EnqueueWebhookDelivery PROVE CoverInv'
  OBVIOUS
<1>1. /\ queue \in Seq(Nat \X Nat) /\ stored \in 0 .. MaxLedger /\ pruned \in 0 .. stored
      /\ queue = <<>> => ~ Running
  BY DEF WInv, TypeOK, RunInv, Running
<1>2. UNCHANGED <<pruned, subs, outbox, pc, pending, ahead>>
  BY DEF EnqueueWebhookDelivery
<1>3. PICK range \in Nat \X Nat :
        /\ queue' = Append(queue, range) /\ stored <= stored' /\ range[2] <= stored'
        /\ \A e \in (stored + 1) .. stored' : In(e, range)
  <2>1. CASE queue' = Enqueued(NoEvents) /\ UNCHANGED stored
    <3>1. NoEvents \in Nat \X Nat /\ NoEvents[2] <= stored /\ queue' = Append(queue, NoEvents)
      BY <1>1, <2>1 DEF Enqueued
    <3>2. stored <= stored' /\ NoEvents[2] <= stored'
      BY <1>1, <2>1, <3>1
    <3>3. \A e \in (stored + 1) .. stored' : In(e, NoEvents)
      BY <1>1, <2>1
    <3>4. QED
      BY <3>1, <3>2, <3>3
  <2>2. CASE \E to \in (stored + 1) .. Min({MaxLedger, stored + MaxSpan}),
                back \in 0 .. Min({MaxOverlap, stored}) :
               stored' = to /\ queue' = Enqueued(<<stored + 1 - back, to>>)
    <3>1. PICK to \in (stored + 1) .. Min({MaxLedger, stored + MaxSpan}),
               back \in 0 .. Min({MaxOverlap, stored}) :
                 stored' = to /\ queue' = Enqueued(<<stored + 1 - back, to>>)
      BY <2>2
    <3>2. /\ Min({MaxLedger, stored + MaxSpan}) \in Nat
          /\ Min({MaxOverlap, stored}) \in Nat /\ Min({MaxOverlap, stored}) <= stored
      <4>1. MaxLedger \in Nat /\ stored + MaxSpan \in Nat /\ MaxOverlap \in Nat /\ stored \in Nat
        BY <1>1
      <4>2. QED
        BY <4>1, MinOfTwo, Zenon
    <3> DEFINE range == <<stored + 1 - back, to>>
    <3>3. to \in Nat /\ stored < to /\ stored + 1 - back \in Nat /\ stored + 1 - back <= stored + 1
      BY <1>1, <3>2
    <3>4. range \in Nat \X Nat /\ \A e \in (stored + 1) .. stored' : In(e, range)
      BY <1>1, <3>1, <3>3 DEF In
    <3>5. stored <= stored' /\ range[2] <= stored'
      BY <1>1, <3>1, <3>3
    <3>6. QED
      BY <3>1, <3>4, <3>5 DEF Enqueued
  <2>3. QED
    BY <2>1, <2>2 DEF EnqueueWebhookDelivery
<1>4. /\ Len(queue') = Len(queue) + 1 /\ queue'[Len(queue) + 1] = range /\ queue' # <<>>
      /\ \A k \in 1 .. Len(queue) : queue'[k] = queue[k]
      /\ stored' \in Nat
  <2>1. stored' \in Nat
    BY DEF WInv, TypeOK
  <2>2. QED
    BY <1>1, <1>3, <2>1
<1>5. ASSUME NEW i \in DOMAIN subs, NEW e \in Rows', Owed(i, e) PROVE Covered(i, e)'
  <2>1. CASE e <= stored
    <3>1. Covered(i, e)
      BY <1>1, <1>2, <1>4, <1>5, <2>1 DEF CoverInv
    <3>2. CASE <<i, e>> \in DOMAIN outbox
      BY <1>2, <3>2 DEF Covered
    <3>3. CASE Later(e, queue)
      <4>1. PICK k \in 2 .. Len(queue) : In(e, queue[k]) /\ \A n \in 1 .. k - 1 : queue[n][2] < e
        BY <3>3 DEF Later
      <4>2. k \in Nat /\ 2 <= k /\ k <= Len(queue) /\ Len(queue) \in Nat
        BY <1>1, <4>1
      <4>3. k \in 2 .. Len(queue') /\ \A n \in 1 .. k : queue'[n] = queue[n]
        BY <1>4, <4>2
      <4>4. In(e, queue'[k]) /\ \A n \in 1 .. k - 1 : queue'[n][2] < e
        BY <4>1, <4>2, <4>3 DEF In
      <4>5. QED
        BY <4>3, <4>4 DEF Covered, Later
    <3>4. CASE queue # <<>> /\ In(e, queue[1]) /\ Ahead(i, e)
      <4>1. queue'[1] = queue[1]
        BY <1>1, <1>4, <3>4
      <4>2. QED
        BY <1>2, <1>4, <3>4, <4>1 DEF Covered, In, Ahead, Running
    <3>5. QED
      BY <3>1, <3>2, <3>3, <3>4 DEF Covered
  <2>2. CASE e > stored
    <3>1. In(e, range)
      BY <1>1, <1>2, <1>3, <1>4, <2>2
    <3>2. CASE queue = <<>>
      <4>1. queue'[1] = range /\ ~ Running'
        BY <1>1, <1>2, <1>4, <3>2 DEF Running
      <4>2. QED
        BY <1>4, <3>1, <4>1 DEF Covered, In, Ahead
    <3>3. CASE queue # <<>>
      <4>1. Len(queue) + 1 \in 2 .. Len(queue') /\ (Len(queue) + 1) - 1 = Len(queue)
        BY <1>1, <1>4, <3>3
      <4>2. \A m \in 1 .. Len(queue) : queue'[m][2] < e
        <5> SUFFICES ASSUME NEW m \in 1 .. Len(queue) PROVE queue'[m][2] < e
          OBVIOUS
        <5>1. queue[m] \in Nat \X Nat /\ queue'[m] = queue[m] /\ queue[m][2] <= stored
          <6>1. queue[m] \in Nat \X Nat /\ queue'[m] = queue[m]
            BY <1>1, <1>4
          <6>2. queue[m][2] <= stored
            BY DEF CoverInv
          <6>3. QED
            BY <6>1, <6>2
        <5>2. e \in Nat
          BY <1>1, <1>2, <1>4
        <5>3. QED
          BY <1>1, <2>2, <5>1, <5>2
      <4>3. QED
        BY <1>4, <3>1, <4>1, <4>2 DEF Covered, Later
    <3>4. QED
      BY <3>2, <3>3
  <2>3. QED
    BY <1>1, <1>2, <1>4, <2>1, <2>2
<1>6. \A k \in 1 .. Len(queue') : queue'[k][2] <= stored'
  <2> SUFFICES ASSUME NEW k \in 1 .. Len(queue') PROVE queue'[k][2] <= stored'
    OBVIOUS
  <2>1. CASE k = Len(queue) + 1
    BY <1>3, <1>4, <2>1
  <2>2. CASE k \in 1 .. Len(queue)
    <3>1. queue[k] \in Nat \X Nat /\ queue'[k] = queue[k] /\ queue[k][2] <= stored
      BY <1>1, <1>4, <2>2 DEF CoverInv
    <3>2. queue'[k][2] <= stored /\ queue'[k][2] \in Nat
      BY <3>1
    <3> DEFINE upto == queue'[k][2]
    <3> HIDE DEF upto
    <3>3. upto <= stored /\ upto \in Nat /\ stored <= stored' /\ stored \in Nat /\ stored' \in Nat
      BY <1>1, <1>3, <1>4, <3>2 DEF upto
    <3>4. upto <= stored'
      BY <3>3
    <3>5. QED
      BY <3>4 DEF upto
  <2>3. QED
    BY <1>1, <1>4, <2>1, <2>2
<1>7. Running => queue'[1] = queue[1]
  BY <1>1, <1>4
<1>8. QED
  BY <1>2, <1>5, <1>6, <1>7 DEF CoverInv, Owed, Running

\* Pruning takes rows away at the front.
LEMMA RowsShrink ==
  ASSUME NEW m \in Nat, NEW n \in Nat, NEW last \in Nat, m <= n
  PROVE  (n + 1) .. last \subseteq (m + 1) .. last
  OBVIOUS

\* The steps of the others, and those of a run that stay at its place in the range.
LEMMA OthersCover ==
  ASSUME WInv, WInv', CoverInv,
         PruneOldest \/ GrowOld \/ \E p \in Ids \X Ledgers : BackoffOver(p)
  PROVE  CoverInv'
<1>1. UNCHANGED <<queue, pending, ahead, stored, pc, subs>> /\ pruned' \in {pruned, pruned + 1}
  BY DEF PruneOldest, GrowOld, BackoffOver
<1>2. Rows' \subseteq Rows
  <2>1. pruned \in Nat /\ stored \in Nat
    BY DEF WInv, TypeOK
  <2>2. pruned' \in Nat /\ pruned <= pruned' /\ stored' = stored
    BY <1>1, <2>1
  <2>3. QED
    BY <2>1, <2>2, RowsShrink
<1>3. DOMAIN outbox \subseteq DOMAIN outbox'
  BY DEF PruneOldest, GrowOld, BackoffOver
<1>4. SubsKept
  BY <1>1 DEF SubsKept, CoverInv
<1>5. Running' = Running
  BY <1>1 DEF Running
<1>6. QED
  BY <1>1, <1>2, <1>3, <1>4, <1>5, CoverKept

\* A subscription that is made is owed nothing yet, one that is removed nothing more.
LEMMA AdminKeepsSubs ==
  ASSUME WInv, CoverInv,
         (\E url \in Urls : AddSubscription(url)) \/ (\E i \in Ids : RemoveSubscription(i))
  PROVE  SubsKept
<1>1. ASSUME NEW url \in Urls, AddSubscription(url) PROVE SubsKept
  <2> DEFINE own == {i \in DOMAIN subs : subs[i].url = url}
  <2>1. \A i \in DOMAIN subs : subs[i] \in SubRow
    BY DEF WInv, TypeOK, SubRow
  <2>2. CASE own # {}
    <3>1. subs' = [i \in DOMAIN subs |->
                    IF i \in own THEN [subs[i] EXCEPT !.failures = 0, !.disabled = FALSE] ELSE subs[i]]
      BY <1>1, <2>2 DEF AddSubscription
    <3> HIDE DEF own
    <3>2. \A i \in DOMAIN subs : /\ subs'[i].since = subs[i].since /\ subs'[i].clean = subs[i].clean
                                 /\ subs'[i].disabled \in {subs[i].disabled, FALSE}
      BY <2>1, <3>1 DEF SubRow
    <3>3. QED
      BY <3>1, <3>2 DEF SubsKept, CoverInv
  <2>3. CASE own = {}
    <3> DEFINE new == [url |-> url, failures |-> 0, disabled |-> FALSE, since |-> stored, clean |-> TRUE]
    <3>1. subs' = Upsert(subs, nextId, new) /\ stored' = stored
      BY <1>1, <2>3 DEF AddSubscription
    <3>2. new.since = stored /\ ~ new.disabled
      OBVIOUS
    <3> HIDE DEF new, own
    <3>3. \A i \in DOMAIN subs' : (i \in DOMAIN subs /\ subs'[i] = subs[i]) \/ subs'[i] = new
      BY <3>1
    <3>4. QED
      BY <3>1, <3>2, <3>3 DEF SubsKept, CoverInv
  <2>4. QED
    BY <2>2, <2>3
<1>2. ASSUME NEW i \in Ids, RemoveSubscription(i) PROVE SubsKept
  BY <1>2 DEF RemoveSubscription, SubsKept, CoverInv
<1>3. QED
  BY <1>1, <1>2

\* The administrator changes nothing that is covered.
LEMMA AdminCovers ==
  ASSUME WInv, WInv', CoverInv,
         (\E url \in Urls : AddSubscription(url)) \/ (\E i \in Ids : RemoveSubscription(i))
  PROVE  CoverInv'
<1>1. UNCHANGED <<queue, pending, ahead, stored, pruned, pc, outbox>>
  BY DEF AddSubscription, RemoveSubscription
<1>2. SubsKept
  BY AdminKeepsSubs
<1>3. Running' = Running /\ Rows' = Rows
  BY <1>1 DEF Running
<1>4. QED
  BY <1>1, <1>2, <1>3, CoverKept

\* A run that sweeps or posts stays at its place in the range.
LEMMA SweepCovers ==
  ASSUME WInv, WInv', CoverInv,
         BeginRun \/ (\E r \in sweep : SweepDead(r) \/ SweepPost(r)) \/ SweepOutcome \/ DeliverToUrl \/ RetryInline
  PROVE  CoverInv'
<1>1. UNCHANGED <<queue, pending, ahead, stored, pruned, subs>> /\ Running' = Running
  <2>1. CASE BeginRun
    BY <2>1 DEF BeginRun, Running
  <2>2. CASE \E r \in sweep : SweepDead(r) \/ SweepPost(r)
    BY <2>2 DEF SweepDead, SweepPost, Running
  <2>3. CASE SweepOutcome
    BY <2>3 DEF SweepOutcome, Running
  <2>4. CASE DeliverToUrl \/ RetryInline
    BY <2>4 DEF DeliverToUrl, RetryInline, Running
  <2>5. QED
    BY <2>1, <2>2, <2>3, <2>4
<1>2. DOMAIN outbox \subseteq DOMAIN outbox'
  BY DEF BeginRun, SweepDead, SweepPost, SweepOutcome, DeliverToUrl, RetryInline, RecordDeliveryOutcome
<1>3. SubsKept
  BY <1>1 DEF SubsKept, CoverInv
<1>4. Rows' = Rows
  BY <1>1
<1>5. QED
  BY <1>1, <1>2, <1>3, <1>4, CoverKept

\* A run that turns to its range has loaded whoever is owed a row of it.
LEMMA LoadCovers == WInv /\ WInv' /\ CoverInv /\ LoadSubscriptions => CoverInv'
<1> SUFFICES ASSUME WInv, WInv', CoverInv, LoadSubscriptions PROVE CoverInv'
  OBVIOUS
<1>1. /\ pc = "sweep" /\ ReadOn(Enabled, Head(queue)[1])
      /\ UNCHANGED <<stored, pruned, subs, outbox>>
  BY DEF LoadSubscriptions
<1>2. queue \in Seq(Nat \X Nat) /\ queue # <<>> /\ Enabled \in SUBSET Ids
  BY <1>1 DEF WInv, TypeOK, RunInv, Enabled
<1>3. queue[1][1] \in Nat /\ Head(queue) = queue[1]
  <2>1. queue[1] \in Nat \X Nat /\ Head(queue) = queue[1]
    BY <1>2
  <2>2. QED
    BY <2>1
<1>4. ReadOn(Enabled, queue[1][1] + 0 * PageSize)
  <2>1. queue[1][1] + 0 * PageSize = Head(queue)[1]
    BY <1>3
  <2>2. QED
    BY <1>1, <2>1
<1>5. \A i \in DOMAIN subs : subs[i].clean => i \in Enabled
  BY DEF CoverInv, Enabled
<1>6. SubsKept
  BY <1>1 DEF SubsKept, CoverInv
<1>7. \A e \in Rows : In(e, queue[1]) => queue[1][1] + 0 * PageSize <= e
  BY <1>3 DEF In
<1>8. QED
  BY <1>1, <1>2, <1>4, <1>5, <1>6, <1>7, CoverReadOn DEF Owed

\* Its outcome does not clean a subscription, and disables none that stays clean.
LEMMA OutcomeIsClean ==
  ASSUME NEW i, NEW ok \in BOOLEAN, RecordSubscriptionOutcome(i, ok),
         \A j \in DOMAIN subs : subs[j] \in SubRow /\ (subs[j].clean => ~ subs[j].disabled)
  PROVE  /\ DOMAIN subs' = DOMAIN subs
         /\ \A j \in DOMAIN subs : /\ subs'[j].since = subs[j].since /\ (subs'[j].clean => subs[j].clean)
                                   /\ subs'[j].clean => ~ subs'[j].disabled
<1>1. CASE i \in DOMAIN subs
  <2> DEFINE failures == FailuresAfter(i, ok)
             disabled == subs[i].disabled \/ (~ ok /\ failures >= DisableAfter)
  <2>1. subs' = [subs EXCEPT ![i].failures = failures, ![i].disabled = disabled, ![i].clean = @ /\ ~ disabled]
    BY <1>1 DEF RecordSubscriptionOutcome
  <2> HIDE DEF failures, disabled
  <2>2. subs[i] \in SubRow /\ DOMAIN subs' = DOMAIN subs
    BY <1>1, <2>1
  <2>3. subs'[i] = [subs[i] EXCEPT !.failures = failures, !.disabled = disabled, !.clean = @ /\ ~ disabled]
    BY <1>1, <2>1
  <2>4. subs'[i].since = subs[i].since /\ subs'[i].disabled = disabled
    BY <2>2, <2>3 DEF SubRow
  <2>5. subs'[i].clean = (subs[i].clean /\ ~ disabled)
    BY <2>2, <2>3 DEF SubRow
  <2>6. \A j \in DOMAIN subs \ {i} : subs'[j] = subs[j]
    BY <2>1
  <2>7. QED
    BY <2>2, <2>4, <2>5, <2>6
<1>2. CASE i \notin DOMAIN subs
  BY <1>2 DEF RecordSubscriptionOutcome
<1>3. QED
  BY <1>1, <1>2

\* A delivery that leaves the run is in the outbox.
LEMMA RecordCovers == WInv /\ WInv' /\ CoverInv /\ RecordResult => CoverInv'
<1> SUFFICES ASSUME WInv, WInv', CoverInv, RecordResult PROVE CoverInv'
  OBVIOUS
<1> DEFINE p == post.of
<1>1. /\ pc = "delivered" /\ Running
      /\ RecordDeliveryOutcome(p, post.ok, post.attempt)
      /\ RecordSubscriptionOutcome(p[1], post.ok)
      /\ UNCHANGED <<stored, pruned>>
  BY DEF RecordResult, Settled, Running
<1>2. DOMAIN outbox' = DOMAIN outbox \cup {p}
  BY <1>1 DEF RecordDeliveryOutcome
<1>3. /\ DOMAIN subs' = DOMAIN subs
      /\ \A i \in DOMAIN subs : /\ subs'[i].since = subs[i].since /\ (subs'[i].clean => subs[i].clean)
                                /\ subs'[i].clean => ~ subs'[i].disabled
  <2>1. \A i \in DOMAIN subs : subs[i] \in SubRow /\ (subs[i].clean => ~ subs[i].disabled)
    BY DEF WInv, TypeOK, SubRow, CoverInv
  <2>2. post.ok \in BOOLEAN
    BY DEF WInv, TypeOK
  <2>3. QED
    BY <1>1, <2>1, <2>2, OutcomeIsClean
<1>4. SubsKept
  BY <1>3 DEF SubsKept
<1>5. CASE pending = {p}
  <2>1. ReadOn(ahead.ids, ahead.from)
    BY <1>5 DEF RecordResult
  <2>2. PICK m \in Nat : ahead.from = queue[1][1] + m * PageSize
    BY <1>1 DEF CoverInv
  <2>3. queue # <<>> /\ ahead.ids \in SUBSET Ids
    BY <1>1 DEF WInv, TypeOK, RunInv
  <2>4. \A i \in DOMAIN subs, e \in Rows :
          Ahead(i, e) => <<i, e>> \in DOMAIN outbox' \/ (i \in ahead.ids /\ queue[1][1] + m * PageSize <= e)
    BY <1>1, <1>2, <1>5, <2>2 DEF Ahead
  <2>5. \A i \in DOMAIN subs : Owed(i, queue[1][2]) => i \in ahead.ids
    BY <1>1 DEF CoverInv
  <2>6. ReadOn(ahead.ids, queue[1][1] + m * PageSize)
    BY <2>1, <2>2
  <2>7. QED
    BY <1>1, <1>2, <1>3, <1>4, <2>3, <2>4, <2>5, <2>6, CoverReadOn
<1>6. CASE pending # {p}
  <2>1. pending' = pending \ {p} /\ pc' = "deliver" /\ UNCHANGED <<ahead, queue>>
    BY <1>6 DEF RecordResult
  <2>2. Running' /\ Rows' = Rows
    BY <1>1, <2>1 DEF Running
  <2>3. \A i \in DOMAIN subs', e \in Rows' : Owed(i, e)' => Covered(i, e)'
    <3> SUFFICES ASSUME NEW i \in DOMAIN subs', NEW e \in Rows', Owed(i, e)' PROVE Covered(i, e)'
      OBVIOUS
    <3>1. Covered(i, e)
      BY <1>3, <2>2 DEF CoverInv, Owed
    <3>2. QED
      BY <1>1, <1>2, <2>1, <3>1 DEF Covered, Ahead, In
  <2>4. \A i \in DOMAIN subs' : Owed(i, queue[1][2])' => i \in ahead'.ids
    BY <1>1, <1>3, <2>1 DEF CoverInv, Owed
  <2>5. QED
    BY <1>1, <1>3, <2>1, <2>2, <2>3, <2>4 DEF CoverInv
<1>7. QED
  BY <1>5, <1>6

\* A crash drops the queue, and with it what every subscription was owed.
LEMMA CrashCovers == WInv /\ CoverInv /\ Crash => CoverInv'
<1> SUFFICES ASSUME WInv, Crash PROVE CoverInv'
  OBVIOUS
<1>1. /\ queue' = <<>> /\ pc' = "idle"
      /\ subs' = [i \in DOMAIN subs |-> [subs[i] EXCEPT !.clean = FALSE]]
  BY DEF Crash
<1>2. \A i \in DOMAIN subs : subs[i] \in SubRow
  BY DEF WInv, TypeOK, SubRow
<1>3. \A i \in DOMAIN subs' : ~ subs'[i].clean
  BY <1>1, <1>2 DEF SubRow
<1>4. QED
  BY <1>1, <1>3 DEF CoverInv, Owed, Running

\* Every step covers what it leaves.
LEMMA CoverNext == WInv /\ WInv' /\ CoverInv /\ [Next]_vars => CoverInv'
<1> SUFFICES ASSUME WInv, WInv', CoverInv, [Next]_vars PROVE CoverInv'
  OBVIOUS
<1>1. CASE UNCHANGED vars
  <2>1. SubsKept /\ Running' = Running /\ Rows' = Rows
    BY <1>1 DEF vars, SubsKept, CoverInv, Running
  <2>2. UNCHANGED <<queue, pending, ahead, stored, outbox>>
    BY <1>1 DEF vars
  <2>3. QED
    BY <2>1, <2>2, CoverKept
<1>2. CASE Run
  BY <1>2, SweepCovers, LoadCovers, RecordCovers DEF Run
<1>3. QED
  BY <1>1, <1>2, EnqueueCovers, OthersCover, AdminCovers, CrashCovers DEF Next

(***************************************************************************)
(* First posts are in order.  A row that a subscription is owed and that   *)
(* was not posted to it is newer than whatever was: the run takes what is  *)
(* pending in order, and CoverInv puts the rest behind it.                 *)
(***************************************************************************)

\* A delivery that can still be made for the first time.
Unposted(i, e) ==
  /\ Owed(i, e) /\ <<i, e>> \notin DOMAIN posts
  /\ e \in Rows \/ (Running /\ <<i, e>> \in pending)

\* The page of a run is part of its range, and ends before the next one.
PageInv ==
  Running => \A p \in pending : p[2] <= queue[1][2] /\ p[2] < ahead.from

OrderInv ==
  /\ \A q \in DOMAIN posts : q[2] <= stored
  /\ PageInv
  /\ \A i \in DOMAIN subs, e \in Ledgers :
       Unposted(i, e) => \A q \in DOMAIN posts : q[1] = i => q[2] < e

\* The page a run reads on to.
LEMMA ReadOnPage ==
  ASSUME queue \in Seq(Nat \X Nat), queue # <<>>, stored \in 0 .. MaxLedger, pruned \in 0 .. stored,
         NEW ids \in SUBSET Ids, NEW from \in Nat, ReadOn(ids, from), pc' # "idle"
  PROVE  \A p \in pending' : p[2] \in Rows /\ p[2] <= queue'[1][2] /\ p[2] < ahead'.from
<1> DEFINE first == Head(queue)[1]
           last  == Head(queue)[2]
           pages == {n \in PageStarts(first, last) : /\ from <= n /\ ids # {}
                                                    /\ Rows \cap PageRows(n, last) # {}}
           next  == Min(pages)
<1>1. first \in Nat /\ last \in Nat /\ Head(queue) = queue[1]
  <2>1. Head(queue) \in Nat \X Nat /\ Head(queue) = queue[1]
    OBVIOUS
  <2>2. QED
    BY <2>1
<1>2. pages # {}
  BY DEF ReadOn
<1>3. /\ pending' = ids \X (Rows \cap PageRows(next, last))
      /\ ahead' = [ids |-> ids, from |-> next + PageSize] /\ queue' = queue
  BY <1>2 DEF ReadOn
<1>4. next \in Nat
  <2>1. pages \in SUBSET Nat
    BY <1>1 DEF PageStarts
  <2> HIDE DEF pages
  <2>2. QED
    BY <1>2, <2>1, MinProperty, Zenon
<1> HIDE DEF next, pages
<1>5. ASSUME NEW p \in pending' PROVE p[2] \in Rows /\ p[2] <= last /\ p[2] < next + PageSize
  <2>1. p[2] \in Rows /\ p[2] \in PageRows(next, last)
    BY <1>3
  <2>2. next + PageSize - 1 \in Nat
    BY <1>4
  <2>3. /\ Min({next + PageSize - 1, last}) \in Nat
        /\ Min({next + PageSize - 1, last}) <= next + PageSize - 1
        /\ Min({next + PageSize - 1, last}) <= last
    BY <1>1, <2>2, MinOfTwo, Zenon
  <2>4. p[2] \in Nat
    BY <2>1
  <2>5. QED
    <3>1. p[2] <= Min({next + PageSize - 1, last})
      BY <2>1 DEF PageRows
    <3>2. PageSize \in Nat
      BY ParametersAssumption
    <3>3. last \in Nat
      BY <1>1
    <3> DEFINE m == Min({next + PageSize - 1, last})
               e == p[2]
    <3>4. m \in Nat /\ m <= next + PageSize - 1 /\ m <= last /\ e \in Nat /\ e <= m
      BY <2>3, <2>4, <3>1
    <3> HIDE DEF m, e, last
    <3>5. e <= last /\ e < next + PageSize
      BY <1>4, <3>2, <3>3, <3>4
    <3>6. QED
      BY <2>1, <3>5 DEF e
<1>6. QED
  BY <1>1, <1>3, <1>5

\* A step that posts nothing keeps the order, when its page is a part of the one
\* before or of the rows.
LEMMA OrderKept ==
  ASSUME WInv, WInv', CoverInv, OrderInv, SubsKept, PageInv', stored' = stored, Rows' \subseteq Rows,
         DOMAIN posts' = DOMAIN posts,
         Running' => \A p \in pending' : p[2] \in Rows \/ (Running /\ p \in pending)
  PROVE  OrderInv'
<1>1. stored \in Nat
  BY DEF WInv, TypeOK
<1>2. \A q \in DOMAIN posts' : q[2] <= stored'
  BY DEF OrderInv
<1>3. ASSUME NEW i \in DOMAIN subs', NEW e \in Ledgers, Unposted(i, e)', NEW q \in DOMAIN posts', q[1] = i
      PROVE  q[2] < e
  <2>1. e \in Rows \/ (Running /\ <<i, e>> \in pending)
    BY <1>3 DEF Unposted
  <2>2. e <= stored
    <3>1. CASE e \in Rows
      BY <1>1, <3>1 DEF WInv, TypeOK
    <3>2. CASE Running /\ <<i, e>> \in pending
      <4>1. queue \in Seq(Nat \X Nat) /\ queue # <<>>
        BY <3>2 DEF WInv, RunInv, TypeOK, Running
      <4>2. queue[1] \in Nat \X Nat /\ queue[1][2] <= stored
        BY <4>1 DEF CoverInv
      <4>3. e <= queue[1][2]
        BY <3>2 DEF OrderInv, PageInv
      <4>4. QED
        BY <1>1, <4>2, <4>3
    <3>3. QED
      BY <2>1, <3>1, <3>2
  <2>3. subs'[i].clean /\ subs'[i].since < e
    BY <1>3 DEF Unposted, Owed
  <2>4. subs'[i].since # stored'
    BY <1>1, <2>2, <2>3
  <2>5. i \in DOMAIN subs /\ Owed(i, e)
    BY <2>3, <2>4 DEF SubsKept, Owed
  <2>6. Unposted(i, e)
    BY <1>3, <2>1, <2>5 DEF Unposted
  <2>7. QED
    BY <1>3, <2>5, <2>6 DEF OrderInv
<1>4. QED
  BY <1>2, <1>3 DEF OrderInv

\* Nothing was posted at the start.
LEMMA InitOrder == Init => OrderInv
  BY DEF Init, OrderInv, PageInv, Running

\* Rows that are new are newer than all that was posted.
LEMMA EnqueueOrder == WInv /\ WInv' /\ OrderInv /\ EnqueueWebhookDelivery => OrderInv'
<1> SUFFICES ASSUME WInv, WInv', OrderInv, EnqueueWebhookDelivery PROVE OrderInv'
  OBVIOUS
<1>1. UNCHANGED <<pruned, subs, pc, pending, ahead, posts>>
  BY DEF EnqueueWebhookDelivery
<1>2. /\ stored \in Nat /\ stored' \in Nat /\ pruned \in Nat
      /\ queue \in Seq(Nat \X Nat) /\ (queue = <<>> => ~ Running)
  <2>1. TypeOK /\ RunInv /\ TypeOK'
    BY DEF WInv
  <2>2. stored \in Nat /\ pruned \in Nat /\ queue \in Seq(Nat \X Nat)
    BY <2>1 DEF TypeOK
  <2>3. stored' \in Nat
    BY <2>1 DEF TypeOK
  <2>4. queue = <<>> => ~ Running
    BY <2>1 DEF RunInv, Running
  <2>5. QED
    BY <2>2, <2>3, <2>4
<1>3. stored <= stored' /\ \E range : queue' = Append(queue, range)
  BY <1>2 DEF EnqueueWebhookDelivery, Enqueued
<1>4. Running => queue'[1] = queue[1]
  BY <1>2, <1>3
<1>5. \A q \in DOMAIN posts : q[2] <= stored /\ q[2] \in Nat
  <2>1. DOMAIN posts \subseteq Deliveries
    BY DEF WInv, TypeOK
  <2>2. \A q \in Deliveries : q[2] \in Nat
    BY DEF Deliveries, Ledgers
  <2>3. QED
    BY <2>1, <2>2 DEF OrderInv
<1>6. ASSUME NEW i \in DOMAIN subs', NEW e \in Ledgers, Unposted(i, e)', NEW q \in DOMAIN posts', q[1] = i
      PROVE  q[2] < e
  <2>1. CASE e <= stored
    <3>1. Unposted(i, e)
      BY <1>1, <1>2, <1>6, <2>1 DEF Unposted, Owed, Running
    <3>2. QED
      BY <1>1, <1>6, <3>1 DEF OrderInv
  <2>2. CASE e > stored
    BY <1>1, <1>2, <1>5, <2>2
  <2>3. QED
    BY <1>2, <2>1, <2>2
<1>7. QED
  BY <1>1, <1>2, <1>3, <1>4, <1>5, <1>6 DEF OrderInv, PageInv, Running

\* The next delivery is older than all that can still be made to its subscription.
LEMMA NextIsOldest ==
  ASSUME WInv, CoverInv, OrderInv, Running, NEW i \in DOMAIN subs, NEW e \in Ledgers, Unposted(i, e),
         <<i, e>> # NextDelivery, NextDelivery[1] = i
  PROVE  NextDelivery[2] < e
<1> DEFINE p == NextDelivery
<1>1. /\ queue \in Seq(Nat \X Nat) /\ queue # <<>> /\ pending \subseteq Deliveries /\ pending # {}
      /\ ahead.from \in Nat /\ DOMAIN outbox \subseteq DOMAIN posts
  BY DEF WInv, RunInv, OutboxInv, TypeOK, Running
<1>2. p \in pending
  BY <1>1, NextIsPending
<1>3. p[2] \in Nat /\ p[2] <= queue[1][2] /\ p[2] < ahead.from /\ queue[1] \in Nat \X Nat
  BY <1>1, <1>2 DEF OrderInv, PageInv
<1>4. CASE <<i, e>> \in pending
  <2>1. Before(p, <<i, e>>)
    BY <1>1, <1>4, NextIsLeast
  <2>2. i \in Nat /\ e \in Nat
    BY <1>1, <1>4
  <2>3. QED
    BY <1>3, <2>1, <2>2 DEF Before
<1>5. CASE e \in Rows /\ <<i, e>> \notin pending
  <2>1. Covered(i, e) /\ <<i, e>> \notin DOMAIN outbox
    BY <1>1, <1>5 DEF CoverInv, Unposted
  <2>2. CASE Later(e, queue)
    <3>1. queue[1][2] < e
      <4>1. PICK k \in 2 .. Len(queue) : \A m \in 1 .. k - 1 : queue[m][2] < e
        BY <2>2 DEF Later
      <4>2. 1 \in 1 .. k - 1
        BY <1>1, <4>1
      <4>3. QED
        BY <4>1, <4>2
    <3>2. QED
      BY <1>3, <3>1
  <2>3. CASE Ahead(i, e)
    BY <1>1, <1>3, <1>5, <2>3 DEF Ahead
  <2>4. QED
    BY <2>1, <2>2, <2>3 DEF Covered
<1>6. QED
  BY <1>4, <1>5 DEF Unposted

\* A post is of the next delivery.
LEMMA DeliverOrder == WInv /\ CoverInv /\ OrderInv /\ DeliverToUrl => OrderInv'
<1> SUFFICES ASSUME WInv, CoverInv, OrderInv, DeliverToUrl PROVE OrderInv'
  OBVIOUS
<1> DEFINE p == NextDelivery
<1>1. /\ Running /\ Running' /\ DOMAIN posts' = DOMAIN posts \cup {p}
      /\ UNCHANGED <<stored, pruned, subs, queue, pending, ahead>>
  BY DEF DeliverToUrl, Running
<1>2. p \in pending /\ p[2] \in Nat
  <2>1. pending \subseteq Deliveries /\ pending # {}
    BY <1>1 DEF WInv, TypeOK, RunInv, Running
  <2>2. p \in pending
    BY <2>1, NextIsPending
  <2>3. QED
    BY <2>1, <2>2
<1>3. p[2] <= stored
  <2>1. queue \in Seq(Nat \X Nat) /\ queue # <<>> /\ stored \in Nat
    BY <1>1 DEF WInv, TypeOK, RunInv, Running
  <2>2. queue[1] \in Nat \X Nat /\ queue[1][2] <= stored
    BY <2>1 DEF CoverInv
  <2>3. p[2] <= queue[1][2]
    BY <1>1, <1>2 DEF OrderInv, PageInv
  <2>4. QED
    BY <1>2, <2>1, <2>2, <2>3
<1> HIDE DEF p
<1>4. \A q \in DOMAIN posts' : q[2] <= stored'
  BY <1>1, <1>3 DEF OrderInv
<1>5. ASSUME NEW i \in DOMAIN subs', NEW e \in Ledgers, Unposted(i, e)', NEW q \in DOMAIN posts', q[1] = i
      PROVE  q[2] < e
  <2>1. i \in DOMAIN subs /\ Unposted(i, e) /\ <<i, e>> # p
    BY <1>1, <1>5 DEF Unposted, Owed
  <2>2. CASE q \in DOMAIN posts
    BY <1>5, <2>1, <2>2 DEF OrderInv
  <2>3. CASE q = p
    BY <1>1, <1>5, <2>1, <2>3, NextIsOldest DEF p
  <2>4. QED
    BY <1>1, <2>2, <2>3
<1>6. PageInv'
  BY <1>1 DEF OrderInv, PageInv
<1>7. QED
  BY <1>4, <1>5, <1>6 DEF OrderInv

\* A crash leaves no subscription clean.
LEMMA CrashOrder == WInv /\ OrderInv /\ Crash => OrderInv'
<1> SUFFICES ASSUME WInv, OrderInv, Crash PROVE OrderInv'
  OBVIOUS
<1>1. /\ pc' = "idle" /\ stored' = stored /\ DOMAIN posts' = DOMAIN outbox
      /\ subs' = [i \in DOMAIN subs |-> [subs[i] EXCEPT !.clean = FALSE]]
  BY DEF Crash
<1>2. \A i \in DOMAIN subs' : ~ subs'[i].clean
  <2>1. \A i \in DOMAIN subs : subs[i] \in SubRow
    BY DEF WInv, TypeOK, SubRow
  <2>2. QED
    BY <1>1, <2>1 DEF SubRow
<1>3. \A q \in DOMAIN posts' : q[2] <= stored'
  BY <1>1 DEF WInv, OutboxInv, OrderInv
<1>4. QED
  BY <1>1, <1>2, <1>3 DEF OrderInv, PageInv, Unposted, Owed, Running

\* Reading on, from the sweep or from the last delivery of a page.
LEMMA ReadOnOrder ==
  ASSUME WInv, WInv', CoverInv, OrderInv, SubsKept, queue # <<>>, UNCHANGED <<stored, pruned, posts>>,
         NEW ids \in SUBSET Ids, NEW from \in Nat, ReadOn(ids, from)
  PROVE  OrderInv'
<1>1. queue \in Seq(Nat \X Nat) /\ stored \in 0 .. MaxLedger /\ pruned \in 0 .. stored
  BY DEF WInv, TypeOK
<1>2. Running' => \A p \in pending' : p[2] \in Rows /\ p[2] <= queue'[1][2] /\ p[2] < ahead'.from
  <2> SUFFICES ASSUME pc' # "idle"
               PROVE  \A p \in pending' : p[2] \in Rows /\ p[2] <= queue'[1][2] /\ p[2] < ahead'.from
    BY DEF Running
  <2>1. QED
    BY <1>1, ReadOnPage
<1>3. PageInv'
  BY <1>2 DEF PageInv
<1>4. Rows' \subseteq Rows
  OBVIOUS
<1>5. QED
  BY <1>2, <1>3, <1>4, OrderKept

\* A delivery that is over leaves the page, or the run reads on.
LEMMA RecordOrder == WInv /\ WInv' /\ CoverInv /\ OrderInv /\ RecordResult => OrderInv'
<1> SUFFICES ASSUME WInv, WInv', CoverInv, OrderInv, RecordResult PROVE OrderInv'
  OBVIOUS
<1> DEFINE p == post.of
<1>1. /\ pc = "delivered" /\ Running /\ RecordSubscriptionOutcome(p[1], post.ok)
      /\ UNCHANGED <<stored, pruned, posts>>
  BY DEF RecordResult, Settled, Running
<1>2. SubsKept
  <2>1. \A i \in DOMAIN subs : subs[i] \in SubRow /\ (subs[i].clean => ~ subs[i].disabled)
    BY DEF WInv, TypeOK, SubRow, CoverInv
  <2>2. post.ok \in BOOLEAN
    BY DEF WInv, TypeOK
  <2>3. QED
    BY <1>1, <2>1, <2>2, OutcomeIsClean DEF SubsKept
<1>3. queue # <<>> /\ ahead.ids \in SUBSET Ids /\ ahead.from \in Nat
  BY <1>1 DEF WInv, TypeOK, RunInv
<1>4. CASE pending = {p}
  BY <1>1, <1>2, <1>3, <1>4, ReadOnOrder DEF RecordResult
<1>5. CASE pending # {p}
  <2>1. pending' = pending \ {p} /\ UNCHANGED <<ahead, queue>>
    BY <1>5 DEF RecordResult
  <2>2. PageInv'
    BY <1>1, <2>1 DEF OrderInv, PageInv
  <2>3. Rows' \subseteq Rows
    BY <1>1
  <2>4. QED
    BY <1>1, <1>2, <2>1, <2>2, <2>3, OrderKept
<1>6. QED
  BY <1>4, <1>5

\* The run turns to its range.
LEMMA LoadOrder == WInv /\ WInv' /\ CoverInv /\ OrderInv /\ LoadSubscriptions => OrderInv'
<1> SUFFICES ASSUME WInv, WInv', CoverInv, OrderInv, LoadSubscriptions PROVE OrderInv'
  OBVIOUS
<1>1. /\ pc = "sweep" /\ ReadOn(Enabled, Head(queue)[1]) /\ UNCHANGED <<stored, pruned, subs, posts>>
  BY DEF LoadSubscriptions
<1>2. queue \in Seq(Nat \X Nat) /\ queue # <<>> /\ Enabled \in SUBSET Ids
  BY <1>1 DEF WInv, TypeOK, RunInv, Enabled
<1>3. Head(queue)[1] \in Nat
  <2>1. Head(queue) \in Nat \X Nat
    BY <1>2
  <2>2. QED
    BY <2>1
<1>4. SubsKept
  BY <1>1 DEF SubsKept, CoverInv
<1>5. QED
  BY <1>1, <1>2, <1>3, <1>4, ReadOnOrder

\* The steps that leave the place of the run and what it has posted alone.
LEMMA OthersOrder ==
  ASSUME WInv, WInv', CoverInv, OrderInv, SubsKept,
         \/ PruneOldest \/ GrowOld \/ \E p \in Ids \X Ledgers : BackoffOver(p)
         \/ (\E url \in Urls : AddSubscription(url)) \/ (\E i \in Ids : RemoveSubscription(i))
         \/ BeginRun \/ (\E r \in sweep : SweepDead(r) \/ SweepPost(r)) \/ SweepOutcome \/ RetryInline
         \/ UNCHANGED vars
  PROVE  OrderInv'
<1>1. UNCHANGED <<queue, pending, ahead, stored>> /\ Running' = Running /\ DOMAIN posts' = DOMAIN posts
      /\ pruned' \in {pruned, pruned + 1}
  <2>1. CASE PruneOldest \/ GrowOld \/ \E p \in Ids \X Ledgers : BackoffOver(p)
    BY <2>1 DEF PruneOldest, GrowOld, BackoffOver, Running
  <2>2. CASE (\E url \in Urls : AddSubscription(url)) \/ (\E i \in Ids : RemoveSubscription(i))
    BY <2>2 DEF AddSubscription, RemoveSubscription, Running
  <2>3. CASE BeginRun
    BY <2>3 DEF BeginRun, Running
  <2>4. CASE \E r \in sweep : SweepDead(r) \/ SweepPost(r)
    BY <2>4 DEF SweepDead, SweepPost, Running
  <2>5. CASE SweepOutcome \/ RetryInline
    BY <2>5 DEF SweepOutcome, RetryInline, Running
  <2>6. CASE UNCHANGED vars
    BY <2>6 DEF vars, Running
  <2>7. QED
    BY <2>1, <2>2, <2>3, <2>4, <2>5, <2>6
<1>2. Rows' \subseteq Rows
  <2>1. pruned \in Nat /\ stored \in Nat
    BY DEF WInv, TypeOK
  <2>2. pruned' \in Nat /\ pruned <= pruned' /\ stored' = stored
    BY <1>1, <2>1
  <2>3. QED
    BY <2>1, <2>2, RowsShrink
<1>3. PageInv'
  BY <1>1 DEF OrderInv, PageInv
<1>4. QED
  BY <1>1, <1>2, <1>3, OrderKept

\* Every step keeps the order.
LEMMA OrderNext == WInv /\ WInv' /\ CoverInv /\ OrderInv /\ [Next]_vars => OrderInv'
<1> SUFFICES ASSUME WInv, WInv', CoverInv, OrderInv, [Next]_vars PROVE OrderInv'
  OBVIOUS
<1>1. CASE \E url \in Urls : AddSubscription(url)
  BY <1>1, AdminKeepsSubs, OthersOrder
<1>2. CASE \E i \in Ids : RemoveSubscription(i)
  BY <1>2, AdminKeepsSubs, OthersOrder
<1>3. CASE \/ PruneOldest \/ GrowOld \/ \E p \in Ids \X Ledgers : BackoffOver(p)
           \/ BeginRun \/ (\E r \in sweep : SweepDead(r) \/ SweepPost(r)) \/ SweepOutcome \/ RetryInline
           \/ UNCHANGED vars
  <2>1. UNCHANGED <<subs, stored>>
    BY <1>3 DEF PruneOldest, GrowOld, BackoffOver, BeginRun, SweepDead, SweepPost, SweepOutcome, RetryInline, vars
  <2>2. SubsKept
    BY <2>1 DEF SubsKept, CoverInv
  <2>3. QED
    BY <1>3, <2>2, OthersOrder
<1>4. CASE EnqueueWebhookDelivery \/ Crash \/ LoadSubscriptions \/ DeliverToUrl \/ RecordResult
  BY <1>4, EnqueueOrder, CrashOrder, LoadOrder, DeliverOrder, RecordOrder
<1>5. QED
  BY <1>1, <1>2, <1>3, <1>4 DEF Next, Run

(***************************************************************************)
(* Theorems                                                                *)
(***************************************************************************)

\* The tables, the queue and the locals of a run keep their types (webhook-delivery.ts).
THEOREM DeliveryTypeCorrect == Spec => []TypeOK
  BY WInvariance, PTL DEF WInv

\* What the outbox says of a delivery is what was posted, for any number of
\* subscriptions and ranges, and also when an answer is lost: received where it says
\* delivered, and as many attempts as POSTs (recordDeliveryOutcome).
THEOREM VerdictsAreTrue == Spec => []VerdictsMatchPosts
<1>1. WInv => AttemptsCountPosts
  <2> SUFFICES ASSUME WInv, NEW p \in DOMAIN outbox, p # post.of
               PROVE  outbox[p].attempts = posts[p] /\ posts[p] <= Max({MaxTries, MaxAttempts})
    BY DEF AttemptsCountPosts
  <2>1. outbox[p].attempts = posts[p] /\ WithinLimits(posts[p]) /\ posts[p] \in Nat
    BY DEF WInv, OutboxInv, TypeOK
  <2>2. MaxTries <= Max({MaxTries, MaxAttempts}) /\ MaxAttempts <= Max({MaxTries, MaxAttempts})
        /\ Max({MaxTries, MaxAttempts}) \in Nat
    <3>1. MaxTries + MaxAttempts \in Nat /\ {MaxTries, MaxAttempts} \in SUBSET (0 .. MaxTries + MaxAttempts)
          /\ {MaxTries, MaxAttempts} # {}
      OBVIOUS
    <3>2. /\ Max({MaxTries, MaxAttempts}) \in {MaxTries, MaxAttempts}
          /\ \A x \in {MaxTries, MaxAttempts} : x <= Max({MaxTries, MaxAttempts})
      BY <3>1, MaxProperty, Zenon
    <3>3. QED
      BY <3>2
  <2>3. QED
    BY <2>1, <2>2 DEF WithinLimits
<1>2. WInv => DeliveredWasReceived
  BY DEF WInv, OutboxInv
<1>3. QED
  BY <1>1, <1>2, WInvariance, PTL DEF VerdictsMatchPosts

\* When the queue has run dry every row that was stored after a subscription was made
\* has a verdict for it, for any number of subscriptions, ranges and page sizes, as
\* long as the subscription was never disabled and nothing crashed (deliverWebhooks).
THEOREM RowsHaveVerdicts == Spec => []EveryRowHasVerdict
<1>1. Spec => []CoverInv
  BY WInvariance, InitCovers, CoverNext, PTL DEF Spec
<1>2. WInv /\ CoverInv => EveryRowHasVerdict
  <2> SUFFICES ASSUME WInv, CoverInv, queue = <<>>, NEW i \in DOMAIN subs, NEW e \in Rows, Owed(i, e)
               PROVE  <<i, e>> \in DOMAIN outbox
    BY DEF EveryRowHasVerdict, Owed
  <2>1. Covered(i, e)
    BY DEF CoverInv
  <2>2. ~ Later(e, queue)
    <3>1. 2 .. Len(queue) = {}
      OBVIOUS
    <3>2. QED
      BY <3>1 DEF Later
  <2>3. QED
    BY <2>1, <2>2 DEF Covered
<1>3. QED
  BY <1>1, <1>2, WInvariance, PTL

\* Events stored after a subscription was made reach it for the first time in ledger
\* order, for any number of subscriptions, overlapping ranges and page sizes, with
\* retries, pruning and crashes in between (deliverWebhooks).
THEOREM FirstPostsAreOrdered == Spec => FirstPostsInOrder
<1>1. Spec => []CoverInv
  BY WInvariance, InitCovers, CoverNext, PTL DEF Spec
<1>2. Spec => []OrderInv
  BY WInvariance, <1>1, InitOrder, OrderNext, PTL DEF Spec
<1> DEFINE Ordered ==
  \A p \in DOMAIN posts' \ DOMAIN posts :
    p[1] \in DOMAIN subs /\ subs[p[1]].clean /\ subs[p[1]].since < p[2] =>
      \A q \in DOMAIN posts : q[1] = p[1] => q[2] < p[2]
<1>3. ASSUME WInv, OrderInv, [Next]_vars PROVE [Ordered]_vars
  <2> SUFFICES ASSUME NEW p \in DOMAIN posts' \ DOMAIN posts, p[1] \in DOMAIN subs,
                      Owed(p[1], p[2]), NEW q \in DOMAIN posts, q[1] = p[1]
               PROVE  q[2] < p[2]
    BY DEF Owed
  <2>1. DeliverToUrl
    <3>1. CASE EnqueueWebhookDelivery \/ PruneOldest \/ GrowOld \/ BeginRun \/ SweepOutcome \/ LoadSubscriptions
               \/ RetryInline \/ RecordResult \/ UNCHANGED vars
      BY <3>1 DEF EnqueueWebhookDelivery, PruneOldest, GrowOld, BeginRun, SweepOutcome, LoadSubscriptions,
                  RetryInline, RecordResult, vars
    <3>2. CASE \/ \E d \in Ids \X Ledgers : BackoffOver(d)
               \/ \E url \in Urls : AddSubscription(url)
               \/ \E i \in Ids : RemoveSubscription(i)
               \/ \E r \in sweep : SweepDead(r) \/ SweepPost(r)
      BY <3>2 DEF BackoffOver, AddSubscription, RemoveSubscription, SweepDead, SweepPost
    <3>3. CASE Crash
      BY <1>3, <3>3 DEF Crash, WInv, OutboxInv
    <3>4. QED
      BY <1>3, <3>1, <3>2, <3>3 DEF Next, Run
  <2>2. Running /\ p = NextDelivery /\ pending \subseteq Deliveries /\ pending # {}
    BY <1>3, <2>1 DEF DeliverToUrl, Running, WInv, TypeOK, RunInv
  <2>3. p \in pending
    BY <2>2, NextIsPending
  <2>4. p[2] \in Ledgers /\ p = <<p[1], p[2]>>
    BY <2>2, <2>3
  <2>5. Unposted(p[1], p[2])
    BY <2>2, <2>3, <2>4 DEF Unposted
  <2>6. QED
    BY <1>3, <2>4, <2>5 DEF OrderInv
<1>4. QED
  BY <1>2, <1>3, WInvariance, PTL DEF Spec, FirstPostsInOrder
=============================================================================
