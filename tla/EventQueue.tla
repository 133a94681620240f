----------------------------- MODULE EventQueue -----------------------------
(***************************************************************************)
(* RpcEventQueue (src/src/indexer/rpc-poller-client.ts; the metrics        *)
(* collector has a copy of it): submitters enqueue batches of events and   *)
(* then drain the queue, each row under a lock on its key.  A submitter    *)
(* takes whatever is first, its own or not; between taking a row and the   *)
(* answer of persist the others run.                                       *)
(***************************************************************************)
EXTENDS Collections, SequencesExt

CONSTANTS
  Submitters,     \* calls of submit
  Batch,          \* submitter -> the events it submits
  KeyOf,          \* eventIdentityKey: contract, ledger and type of an event
  MaxQueueSize,
  MaxRefusals     \* bound: inserts that throw

VARIABLES
  stage,          \* submitter -> where its call is
  hand,           \* submitter -> the row it took, or NoEvent
  pending, pendingKeys, persistedKeys,
  rows,           \* the events table
  told,           \* submitter -> the sums it returns (queued, inserted, duplicate)
  refusals

queueVars == <<stage, hand, pending, pendingKeys, persistedKeys, rows, told, refusals>>

NoEvent == "none"
Stages  == {"idle", "flushing", "locking", "persisting", "done", "overflow", "failed"}

Init ==
  /\ stage = [s \in Submitters |-> "idle"] /\ hand = [s \in Submitters |-> NoEvent]
  /\ pending = <<>> /\ pendingKeys = {} /\ persistedKeys = {} /\ rows = {}
  /\ told = [s \in Submitters |-> [queued |-> 0, inserted |-> 0, duplicates |-> 0]]
  /\ refusals = 0

-----------------------------------------------------------------------------
\* The rows of a batch, by their positions, that no known key makes duplicates.
Fresh(s) ==
  {i \in DOMAIN Batch[s] :
     /\ KeyOf[Batch[s][i]] \notin pendingKeys \cup persistedKeys
     /\ \A j \in 1 .. i - 1 : KeyOf[Batch[s][j]] # KeyOf[Batch[s][i]]}

\* The loop of enqueue queues them up to the limit and throws at the next one.
Accepted(s)  == FirstN(Fresh(s), MaxQueueSize - Len(pending))
Overflows(s) == Accepted(s) # Fresh(s)

\* The duplicates it met by then.
Duplicates(s) ==
  {i \in DOMAIN Batch[s] \ Fresh(s) : \A j \in Fresh(s) \ Accepted(s) : i < j}

\* enqueue, under the mutex.  An overflow throws: the rows before it stay.
Enqueue(s) ==
  /\ stage[s] = "idle"
  /\ \E order \in Listings(Accepted(s)) :
       pending' = pending \o [n \in DOMAIN order |-> Batch[s][order[n]]]
  /\ pendingKeys' = pendingKeys \cup {KeyOf[Batch[s][i]] : i \in Accepted(s)}
  /\ stage' = [stage EXCEPT ![s] = IF Overflows(s) THEN "overflow" ELSE "flushing"]
  /\ told' = [told EXCEPT ![s].queued = Cardinality(Accepted(s)),
                         ![s].duplicates = Cardinality(Duplicates(s))]
  /\ UNCHANGED <<hand, persistedKeys, rows, refusals>>

\* The loop of flush takes the first row; an empty queue ends it.
Take(s) ==
  /\ stage[s] = "flushing"
  /\ IF pending = <<>>
     THEN /\ stage' = [stage EXCEPT ![s] = "done"]
          /\ UNCHANGED <<hand, pending>>
     ELSE /\ stage' = [stage EXCEPT ![s] = "locking"]
          /\ hand' = [hand EXCEPT ![s] = Head(pending)]
          /\ pending' = Tail(pending)
  /\ UNCHANGED <<pendingKeys, persistedKeys, rows, told, refusals>>

\* withEventLock: nobody else persists a row of that key.
KeyIsFree(s) == \A t \in Submitters \ {s} : stage[t] = "persisting" => KeyOf[hand[t]] # KeyOf[hand[s]]

\* The row leaves the hands of s: the finally clause.
Release(s, next) ==
  /\ pendingKeys' = pendingKeys \ {KeyOf[hand[s]]}
  /\ hand' = [hand EXCEPT ![s] = NoEvent]
  /\ stage' = [stage EXCEPT ![s] = next]

Lock(s) ==
  /\ stage[s] = "locking" /\ KeyIsFree(s)
  /\ IF KeyOf[hand[s]] \in persistedKeys
     THEN /\ Release(s, "flushing")
          /\ told' = [told EXCEPT ![s].duplicates = @ + 1]
     ELSE /\ stage' = [stage EXCEPT ![s] = "persisting"]
          /\ UNCHANGED <<pendingKeys, hand, told>>
  /\ UNCHANGED <<pending, persistedKeys, rows, refusals>>

\* persist answers: insertEvent ignores a row whose event id is stored.
Persist(s) ==
  /\ stage[s] = "persisting"
  /\ rows' = rows \cup {hand[s]}
  /\ persistedKeys' = persistedKeys \cup {KeyOf[hand[s]]}
  /\ told' = IF hand[s] \in rows THEN [told EXCEPT ![s].duplicates = @ + 1]
             ELSE [told EXCEPT ![s].inserted = @ + 1]
  /\ Release(s, "flushing")
  /\ UNCHANGED <<pending, refusals>>

\* Mutant of ReleaseFailed: the key is only given back when the row was stored.
ReleaseFailedKeepingKey(s) ==
  /\ hand' = [hand EXCEPT ![s] = NoEvent]
  /\ stage' = [stage EXCEPT ![s] = "failed"]
  /\ UNCHANGED pendingKeys

ReleaseFailed(s) == Release(s, "failed")

\* persist throws: the call is rejected and drains no further.
PersistFails(s) ==
  /\ stage[s] = "persisting" /\ refusals < MaxRefusals
  /\ refusals' = refusals + 1
  /\ ReleaseFailed(s)
  /\ UNCHANGED <<pending, persistedKeys, rows, told>>

Step(s) == Enqueue(s) \/ Take(s) \/ Lock(s) \/ Persist(s) \/ PersistFails(s)

Next == \E s \in Submitters : Step(s)

Spec == Init /\ [][Next]_queueVars

(***************************************************************************)
(* Properties                                                              *)
(***************************************************************************)

Holding == {s \in Submitters : hand[s] # NoEvent}

\* Type invariant.
TypeOK ==
  /\ stage \in [Submitters -> Stages]
  /\ \A s \in Submitters :
       /\ s \in Holding <=> stage[s] \in {"locking", "persisting"}
       /\ s \in Holding => hand[s] \in DOMAIN KeyOf
       /\ {told[s].queued, told[s].inserted, told[s].duplicates} \subseteq Nat
  /\ Len(pending) <= MaxQueueSize
  /\ refusals \in 0 .. MaxRefusals

\* A key is refused as pending only while a row of it is queued or in somebody's
\* hands: no failed insert, overflow or interleaving leaves a key behind for
\* which every later notification would be dropped as a duplicate.
NoKeyIsStuck ==
  pendingKeys = {KeyOf[e] : e \in ToSet(pending)} \cup {KeyOf[hand[s]] : s \in Holding}
=============================================================================
