----------------------------- MODULE RouteProofs -----------------------------
(***************************************************************************)
(* Proofs about the caches of the job routes: JobStateCache, for any set   *)
(* of callers and any bounds, Submit, for any set of requests, and         *)
(* UnsignedXdr, for any requests, window, margin, TTL and resolution of    *)
(* the clock.                                                              *)
(***************************************************************************)
EXTENDS JobStateCache, Submit, UnsignedXdr, TLAPS

(***************************************************************************)
(* JobStateCache: its type invariant, the two safety invariants the runs   *)
(* check, and that it implements FreshRead.                                *)
(*                                                                         *)
(* A cached state is compared with what is indexed, but what is cached     *)
(* comes from a load that started earlier.  The invariant therefore speaks *)
(* of the loads: a load of the current generation is the one in flight and *)
(* has read a state no older than what is indexed, and a load of any       *)
(* generation has read a state no older than what any of its callers saw   *)
(* indexed.                                                                *)
(***************************************************************************)

\* The load has an answer that is a state of the contract.
HasState(c) == Running(c) /\ load[c].state \in Nat

\* Loads start in generations of the past or the present, have read states of
\* the past or the present, and are awaited by their own caller.
LoadsInv ==
  \A c \in Callers : Running(c) =>
    /\ load[c].startedAt <= generation
    /\ load[c].startedAt = generation => inFlight = c
    /\ joined[c] = c
    /\ HasState(c) => load[c].state <= chain
    /\ HasState(c) /\ load[c].startedAt = generation => indexed <= load[c].state

\* The load in flight is one of the current generation.
InFlightInv ==
  inFlight # NoCaller => Running(inFlight) /\ load[inFlight].startedAt = generation

\* A caller waits for a running load, whose state is not older than what was
\* indexed when it called.
CallersInv ==
  \A d \in Callers :
    /\ joined[d] = NoCaller <=> floor[d] = NoState
    /\ joined[d] # NoCaller =>
         /\ Running(joined[d])
         /\ floor[d] <= indexed
         /\ HasState(joined[d]) => floor[d] <= load[joined[d]].state

IInv ==
  /\ TypeOK
  /\ CacheNotBehindIndex
  /\ OneLoadPerGeneration
  /\ LoadsInv
  /\ InFlightInv
  /\ CallersInv

USE CallersAssumption DEF NoState, Failed, NoCaller

(***************************************************************************)
(* The invariant                                                           *)
(***************************************************************************)

\* The invariant holds at the start, where nothing is loaded or awaited.
LEMMA InitIInv == Init => IInv
  BY BoundsAssumption DEF Init, IInv, TypeOK, CacheNotBehindIndex, OneLoadPerGeneration,
     LoadsInv, InFlightInv, CallersInv, Running

\* Every action keeps every part of the invariant.
LEMMA NextIInv == IInv /\ [Next]_vars => IInv'
<1> SUFFICES ASSUME IInv, [Next]_vars PROVE IInv'
  OBVIOUS
<1> USE DEF IInv
<1>1. CASE Change
  <2> USE <1>1 DEF Change
  <2>1. TypeOK'
    BY BoundsAssumption DEF TypeOK
  <2>2. CacheNotBehindIndex'
    BY DEF TypeOK, CacheNotBehindIndex
  <2>3. OneLoadPerGeneration'
    BY DEF OneLoadPerGeneration, Running
  <2>4. LoadsInv'
    BY DEF TypeOK, LoadsInv, HasState, Running
  <2>5. InFlightInv'
    BY DEF InFlightInv, Running
  <2>6. CallersInv'
    BY DEF CallersInv, HasState, Running
  <2>7. QED
    BY <2>1, <2>2, <2>3, <2>4, <2>5, <2>6
<1>2. ASSUME NEW s \in 0 .. MaxState, InvalidateJobState(s) PROVE IInv'
  <2> USE <1>2 DEF InvalidateJobState, Invalidated
  <2>1. TypeOK'
    BY DEF TypeOK
  <2>2. CacheNotBehindIndex'
    BY DEF CacheNotBehindIndex
  <2>3. OneLoadPerGeneration'
    BY DEF OneLoadPerGeneration, Running
  <2>4. LoadsInv'
    BY DEF TypeOK, LoadsInv, HasState, Running, LoadRecord
  <2>5. InFlightInv'
    BY DEF InFlightInv
  <2>6. CallersInv'
    BY DEF TypeOK, CallersInv, HasState, Running
  <2>7. QED
    BY <2>1, <2>2, <2>3, <2>4, <2>5, <2>6
<1>3. CASE Expire
  <2> USE <1>3 DEF Expire
  <2>1. TypeOK'
    BY DEF TypeOK
  <2>2. CacheNotBehindIndex'
    BY DEF CacheNotBehindIndex
  <2>3. OneLoadPerGeneration'
    BY DEF OneLoadPerGeneration, Running
  <2>4. LoadsInv'
    BY DEF LoadsInv, HasState, Running
  <2>5. InFlightInv'
    BY DEF InFlightInv, Running
  <2>6. CallersInv'
    BY DEF CallersInv, HasState, Running
  <2>7. QED
    BY <2>1, <2>2, <2>3, <2>4, <2>5, <2>6
<1>4. ASSUME NEW c \in Callers, ServeCached(c) PROVE IInv'
  <2> USE <1>4 DEF ServeCached
  <2>1. TypeOK'
    BY DEF TypeOK
  <2>2. CacheNotBehindIndex'
    BY DEF CacheNotBehindIndex
  <2>3. OneLoadPerGeneration'
    BY DEF OneLoadPerGeneration, Running
  <2>4. LoadsInv'
    BY DEF LoadsInv, HasState, Running
  <2>5. InFlightInv'
    BY DEF InFlightInv, Running
  <2>6. CallersInv'
    BY DEF CallersInv, HasState, Running
  <2>7. QED
    BY <2>1, <2>2, <2>3, <2>4, <2>5, <2>6
<1>5. ASSUME NEW c \in Callers, JoinLoad(c) PROVE IInv'
  <2> USE <1>5 DEF JoinLoad, Await
  <2>1. TypeOK'
    BY DEF TypeOK
  <2>2. CacheNotBehindIndex'
    BY DEF CacheNotBehindIndex
  <2>3. OneLoadPerGeneration'
    BY DEF OneLoadPerGeneration, Running
  <2>4. LoadsInv'
    BY DEF LoadsInv, CallersInv, HasState, Running
  <2>5. InFlightInv'
    BY DEF InFlightInv, Running
  <2>6. CallersInv'
    BY DEF TypeOK, LoadsInv, InFlightInv, CallersInv, HasState, Running
  <2>7. QED
    BY <2>1, <2>2, <2>3, <2>4, <2>5, <2>6
<1>6. ASSUME NEW c \in Callers, StartLoad(c) PROVE IInv'
  <2> USE <1>6 DEF StartLoad, Await
  <2>1. TypeOK'
    BY DEF TypeOK, LoadRecord
  <2>2. CacheNotBehindIndex'
    BY DEF CacheNotBehindIndex
  <2>3. OneLoadPerGeneration'
    BY DEF OneLoadPerGeneration, LoadsInv, Running
  <2>4. LoadsInv'
    BY DEF TypeOK, LoadsInv, HasState, Running
  <2>5. InFlightInv'
    BY DEF TypeOK, InFlightInv, Running, NoLoad
  <2>6. CallersInv'
    BY DEF TypeOK, CallersInv, HasState, Running, NoLoad
  <2>7. QED
    BY <2>1, <2>2, <2>3, <2>4, <2>5, <2>6
<1>7. ASSUME NEW c \in Callers, Simulate(c) PROVE IInv'
  <2> USE <1>7 DEF Simulate
  <2>1. TypeOK'
    BY DEF TypeOK, Running, LoadRecord
  <2>2. CacheNotBehindIndex'
    BY DEF CacheNotBehindIndex
  <2>3. OneLoadPerGeneration'
    BY DEF OneLoadPerGeneration, Running
  <2>4. LoadsInv'
    BY DEF TypeOK, LoadsInv, HasState, Running
  <2>5. InFlightInv'
    BY DEF TypeOK, InFlightInv, Running, NoLoad
  <2>6. CallersInv'
    BY DEF TypeOK, CallersInv, HasState, Running, NoLoad
  <2>7. QED
    BY <2>1, <2>2, <2>3, <2>4, <2>5, <2>6
<1>8. ASSUME NEW c \in Callers, FinishLoad(c) PROVE IInv'
  <2> USE <1>8 DEF FinishLoad, Waiting, MayCache, Cleared
  <2>1. TypeOK'
    BY DEF TypeOK, Running, LoadRecord
  <2>2. CacheNotBehindIndex'
    BY DEF TypeOK, CacheNotBehindIndex, LoadsInv, HasState, NoLoad
  <2>3. OneLoadPerGeneration'
    BY DEF OneLoadPerGeneration, Running
  <2>4. LoadsInv'
    BY DEF TypeOK, LoadsInv, HasState, Running
  <2>5. InFlightInv'
    BY DEF InFlightInv, Running
  <2>6. CallersInv'
    BY DEF CallersInv, HasState, Running
  <2>7. QED
    BY <2>1, <2>2, <2>3, <2>4, <2>5, <2>6
<1>9. CASE UNCHANGED vars
  BY <1>9 DEF vars, TypeOK, CacheNotBehindIndex, OneLoadPerGeneration, LoadsInv,
     InFlightInv, CallersInv, HasState, Running
<1>10. QED
  BY <1>1, <1>2, <1>3, <1>4, <1>5, <1>6, <1>7, <1>8, <1>9 DEF Next

\* Every run keeps the invariant.
LEMMA Invariance == Spec => []IInv
  BY InitIInv, NextIInv, PTL DEF Spec

(***************************************************************************)
(* Theorems about JobStateCache                                            *)
(***************************************************************************)

\* The cache, the load in flight and every caller keep their types: no load that
\* failed or found no job reaches the cache.
THEOREM TypeCorrect == Spec => []TypeOK
<1>1. IInv => TypeOK
  BY DEF IInv
<1>2. QED
  BY <1>1, Invariance, PTL

\* The cache of job-state-cache.ts never holds a state older than the events
\* the poller has stored.
THEOREM CacheIsFresh == Spec => []CacheNotBehindIndex
<1>1. IInv => CacheNotBehindIndex
  BY DEF IInv
<1>2. QED
  BY <1>1, Invariance, PTL

\* Concurrent misses of one generation share a single RPC call.
THEOREM SingleFlight == Spec => []OneLoadPerGeneration
<1>1. IInv => OneLoadPerGeneration
  BY DEF IInv
<1>2. QED
  BY <1>1, Invariance, PTL

\* The steps of the cache are steps of FreshRead: storing events indexes a
\* state, a hit answers on the spot, a miss is a call, and the end of a load
\* answers all its callers at once.
LEMMA StepRefines == IInv /\ [Next]_vars => [Fresh!Next]_Fresh!fresh
<1> SUFFICES ASSUME IInv, [Next]_vars PROVE Fresh!Next \/ UNCHANGED Fresh!fresh
  OBVIOUS
<1>1. CASE Change
  BY <1>1 DEF Change, Fresh!Change, Fresh!Next
<1>2. ASSUME NEW s \in 0 .. MaxState, InvalidateJobState(s) PROVE Fresh!Next
  BY <1>2 DEF InvalidateJobState, Fresh!Index, Fresh!Next
<1>3. ASSUME NEW c \in Callers, ServeCached(c) PROVE Fresh!Next
  <2>1. cached \in 0 .. MaxState
    BY <1>3, BoundsAssumption DEF ServeCached, IInv, TypeOK, CacheNotBehindIndex
  <2>2. Fresh!CallAnswered(c, cached)
    BY <1>3, <2>1 DEF ServeCached, IInv, CacheNotBehindIndex, Fresh!CallAnswered, Fresh!Idle
  <2>3. QED
    BY <2>1, <2>2 DEF Fresh!Next
<1>4. ASSUME NEW c \in Callers, JoinLoad(c) \/ StartLoad(c) PROVE Fresh!Next
  <2>1. Fresh!Call(c)
    BY <1>4 DEF JoinLoad, StartLoad, Await, Fresh!Call, Fresh!Idle, Fresh!NoAnswer
  <2>2. QED
    BY <2>1 DEF Fresh!Next
<1>5. ASSUME NEW c \in Callers, FinishLoad(c) PROVE Fresh!Next
  <2>1. load[c].state \in {Failed} \cup 0 .. MaxState
    BY <1>5, BoundsAssumption DEF FinishLoad, IInv, TypeOK, LoadsInv, HasState, Running,
       LoadRecord
  <2>2. Fresh!Answer(Waiting(c), load[c].state)
    <3>1. \A d \in Waiting(c) : floor[d] # Fresh!Idle
      BY DEF IInv, CallersInv, Waiting, Fresh!Idle
    <3>2. \/ load[c].state = Fresh!Failed
          \/ load[c].state \in 0 .. chain /\ \A d \in Waiting(c) : floor[d] <= load[c].state
      BY <1>5, <2>1 DEF FinishLoad, Waiting, IInv, LoadsInv, CallersInv, HasState, Fresh!Failed
    <3>3. QED
      BY <1>5, <3>1, <3>2 DEF FinishLoad, Waiting, Fresh!Answer, Fresh!Idle
  <2>3. QED
    BY <2>1, <2>2 DEF Waiting, Fresh!Next, Fresh!Failed
<1>6. ASSUME NEW c \in Callers, Simulate(c) PROVE UNCHANGED Fresh!fresh
  BY <1>6 DEF Simulate, Fresh!fresh
<1>7. CASE Expire
  BY <1>7 DEF Expire, Fresh!fresh
<1>8. CASE UNCHANGED vars
  BY <1>8 DEF vars, Fresh!fresh
<1>9. QED
  BY <1>1, <1>2, <1>3, <1>4, <1>5, <1>6, <1>7, <1>8 DEF Next

\* The cache implements FreshRead: every answer is a state the contract had, no
\* older than what was indexed when its call was made.
THEOREM ImplementsFreshRead == Spec => AnswersAreFresh
<1>1. Init => Fresh!Init
  BY DEF Init, Fresh!Init, Fresh!Idle, Fresh!NoAnswer
<1>2. QED
  BY <1>1, StepRefines, Invariance, PTL DEF Spec, AnswersAreFresh, Fresh!Spec

(***************************************************************************)
(* Submit: its type invariant, the two safety invariants and the action    *)
(* property the run checks.                                                *)
(*                                                                         *)
(* That one request at a time asks the network is not inductive: a second  *)
(* request looks at the map of submissions in flight, and not at what the  *)
(* others are doing.  SubmitInFlightInv ties the two together: the map     *)
(* names whoever has a call under way, and nobody else.                    *)
(***************************************************************************)

\* A call to the network is under way exactly for the request in the map.
SubmitInFlightInv ==
  /\ \A c \in Senders : send[c] = Sending => inFlightSubmit = c
  /\ inFlightSubmit # NoSender => send[inFlightSubmit] = Sending

SubmitInv == SubmitTypeOK /\ SubmitInFlightInv /\ CachedIsAccepted

USE SubmitSendersAssumption DEF NoSender, NoStatus, Sending, Taken, Refused, Outcomes

\* A request that joins finds a call that is still under way.
LEMMA JoinAwaits ==
  ASSUME SubmitInv, NEW c \in Senders, JoinSubmission(c)
  PROVE  /\ awaited' = [awaited EXCEPT ![c] = inFlightSubmit]
         /\ reply' = [reply EXCEPT ![c] = "none"]
         /\ UNCHANGED <<accepted, submitCache, inFlightSubmit, send>>
  BY DEF SubmitInv, SubmitInFlightInv, JoinSubmission

\* The invariant holds before any request.
LEMMA SubmitInitInv == SubmitInit => SubmitInv
  BY DEF SubmitInit, SubmitInv, SubmitTypeOK, SubmitInFlightInv, CachedIsAccepted

\* Every action keeps it.
LEMMA SubmitNextInv == SubmitInv /\ [SubmitNext]_submitVars => SubmitInv'
<1> SUFFICES ASSUME SubmitInv, [SubmitNext]_submitVars PROVE SubmitInv'
  OBVIOUS
<1> USE DEF SubmitInv
<1>1. CASE ExpireResult
  BY <1>1 DEF ExpireResult, SubmitTypeOK, SubmitInFlightInv, CachedIsAccepted
<1>2. ASSUME NEW c \in Senders, ServeCachedResult(c) PROVE SubmitInv'
  BY <1>2 DEF ServeCachedResult, SubmitTypeOK, SubmitInFlightInv, CachedIsAccepted
<1>3. ASSUME NEW c \in Senders, JoinSubmission(c) PROVE SubmitInv'
  <2>1. SubmitTypeOK'
    BY <1>3, JoinAwaits DEF SubmitTypeOK
  <2>2. SubmitInFlightInv' /\ CachedIsAccepted'
    BY <1>3, JoinAwaits DEF SubmitInFlightInv, CachedIsAccepted
  <2>3. QED
    BY <2>1, <2>2
<1>4. ASSUME NEW c \in Senders, StartSubmission(c) PROVE SubmitInv'
  <2>1. SubmitTypeOK'
    BY <1>4 DEF StartSubmission, SubmitTypeOK
  <2>2. SubmitInFlightInv'
    BY <1>4 DEF StartSubmission, Vacant, SubmitTypeOK, SubmitInFlightInv
  <2>3. CachedIsAccepted'
    BY <1>4 DEF StartSubmission, CachedIsAccepted
  <2>4. QED
    BY <2>1, <2>2, <2>3
<1>5. ASSUME NEW c \in Senders, FinishSubmission(c) PROVE SubmitInv'
  <2>1. PICK outcome \in Answers :
          /\ accepted' = (accepted \/ outcome = "PENDING") \/ (outcome = "throw" /\ accepted' = TRUE)
          /\ submitCache' = CachedAfter(outcome)
          /\ inFlightSubmit' = NoSender
          /\ send' = [send EXCEPT ![c] = outcome]
          /\ reply' = [d \in Senders |-> IF awaited[d] # c THEN reply[d]
                                         ELSE IF d = c THEN OwnerAnswer(outcome)
                                         ELSE JoinerAnswer(outcome)]
    BY <1>5 DEF FinishSubmission, ClearedAfter
  <2>2. outcome \in Outcomes /\ outcome # Sending
    BY DEF Answers
  <2>3. submitCache' \in {NoStatus} \cup Taken
    BY <2>1 DEF CachedAfter, Cacheable, SubmitTypeOK
  <2>4. accepted' \in BOOLEAN
    BY <2>1 DEF SubmitTypeOK
  <2>5. awaited' \in [Senders -> {NoSender} \cup Senders]
    BY <1>5 DEF FinishSubmission, SubmitTypeOK
  <2>6. reply' \in [Senders -> {"none", "success", "error"}]
    BY <2>1 DEF OwnerAnswer, JoinerAnswer, SubmitTypeOK
  <2>7. SubmitTypeOK'
    BY <2>1, <2>2, <2>3, <2>4, <2>5, <2>6 DEF SubmitTypeOK
  <2>8. SubmitInFlightInv'
    BY <1>5, <2>1, <2>2 DEF FinishSubmission, SubmitTypeOK, SubmitInFlightInv
  <2>9. CachedIsAccepted'
    <3>1. outcome \in Taken => accepted'
      BY <2>1 DEF Answers
    <3>2. accepted => accepted'
      BY <2>1
    <3>3. QED
      BY <2>1, <3>1, <3>2 DEF CachedAfter, Cacheable, CachedIsAccepted
  <2>10. QED
    BY <2>7, <2>8, <2>9
<1>6. CASE UNCHANGED submitVars
  BY <1>6 DEF submitVars, SubmitTypeOK, SubmitInFlightInv, CachedIsAccepted
<1>7. QED
  BY <1>1, <1>2, <1>3, <1>4, <1>5, <1>6 DEF SubmitNext

\* The invariant holds in every state.
LEMMA SubmitInvariance == SubmitSpec => []SubmitInv
  BY SubmitInitInv, SubmitNextInv, PTL DEF SubmitSpec

(***************************************************************************)
(* Theorems about Submit                                                   *)
(***************************************************************************)

\* The cache, the map and the requests keep their types.
THEOREM SubmitTypeCorrect == SubmitSpec => []SubmitTypeOK
  BY SubmitInvariance, PTL DEF SubmitInv

\* However many requests carry one transaction, the network is asked by one of
\* them at a time.
THEOREM OneAtATime == SubmitSpec => []OneSubmissionAtATime
<1>1. SubmitInv => OneSubmissionAtATime
  BY DEF SubmitInv, SubmitInFlightInv, OneSubmissionAtATime
<1>2. QED
  BY <1>1, SubmitInvariance, PTL

\* What the cache answers a retry with, the network has taken.
THEOREM CacheIsAccepted == SubmitSpec => []CachedIsAccepted
  BY SubmitInvariance, PTL DEF SubmitInv

\* A failure is reported by no request but those that waited for the call that
\* failed, in the step in which it failed.
THEOREM NoOldFailures == SubmitSpec => FailuresAreFresh
<1> DEFINE NewFailure == \A c \in Senders : reply'[c] = "error" /\ reply[c] # "error" =>
                      \E d \in Senders : send[d] = Sending /\ send'[d] # Sending
<1>1. SubmitInv /\ [SubmitNext]_submitVars => [NewFailure]_submitVars
  <2> SUFFICES ASSUME SubmitInv, SubmitNext PROVE NewFailure
    OBVIOUS
  <2>1. CASE ExpireResult
    BY <2>1 DEF ExpireResult
  <2>2. ASSUME NEW c \in Senders, ServeCachedResult(c) PROVE NewFailure
    BY <2>2 DEF ServeCachedResult, SubmitInv, SubmitTypeOK
  <2>3. ASSUME NEW c \in Senders, JoinSubmission(c) PROVE NewFailure
    BY <2>3, JoinAwaits DEF SubmitInv, SubmitTypeOK
  <2>4. ASSUME NEW c \in Senders, StartSubmission(c) PROVE NewFailure
    BY <2>4 DEF StartSubmission, SubmitInv, SubmitTypeOK
  <2>5. ASSUME NEW c \in Senders, FinishSubmission(c) PROVE NewFailure
    BY <2>5 DEF FinishSubmission, Answers, SubmitInv, SubmitTypeOK
  <2>6. QED
    BY <2>1, <2>2, <2>3, <2>4, <2>5 DEF SubmitNext
<1>2. QED
  BY <1>1, SubmitInvariance, PTL DEF SubmitSpec, FailuresAreFresh

(***************************************************************************)
(* UnsignedXdr: its type invariant and the two properties the run checks.  *)
(*                                                                         *)
(* That an entry is signable as long as it lives follows from what its     *)
(* expiry was when it was stored (ExpiryInv), by the one fact of           *)
(* arithmetic that a number of seconds rounded down is not too long.  That *)
(* a failed build evicts nothing needs BuildInv: a build under way is the  *)
(* one in the map, and the cache is empty as long as there is one.         *)
(***************************************************************************)

\* An entry expires when the margin of its window begins, or before.
ExpiryInv ==
  entry.expires >= 0 => entry.expires + MinRemaining * Second <= entry.validUntil * Second

\* A build under way is the one in the map, and leaves the cache empty.
BuildInv ==
  /\ \A c \in Requests : stage[c] \in {"fee", "prepare"} => building = c
  /\ building # Nobody => entry = NoEntry

XdrInv == XdrTypeOK /\ ExpiryInv /\ BuildInv

USE XdrAssumption, XdrRequestsAssumption

\* Ticks in whole seconds, rounded down, are no more than the ticks.
LEMMA WholeSeconds ==
  ASSUME NEW ticks \in Int
  PROVE  ticks \div Second \in Int /\ (ticks \div Second) * Second <= ticks
  OBVIOUS

\* A smaller number of seconds is a smaller number of ticks.
LEMMA SecondsMonotone ==
  ASSUME NEW a \in Int, NEW b \in Int, a <= b
  PROVE  a * Second <= b * Second
  OBVIOUS

\* An entry that is stored expires in time, and no later than its TTL allows.
LEMMA StoredInTime ==
  ASSUME XdrTypeOK, ExpiryInv, NEW validUntil \in Nat
  PROVE  LET e == Stored(validUntil)
         IN /\ e \in [validUntil : Nat, expires : -1 .. MaxNow + Ttl * Second]
            /\ e.expires >= 0 => e.expires + MinRemaining * Second <= e.validUntil * Second
<1> DEFINE left == Remaining(validUntil) - MinRemaining * Second
           ttl == TtlFor(validUntil)
<1>1. CASE ttl <= 0
  BY <1>1 DEF Stored, XdrTypeOK, ExpiryInv
<1>2. CASE ~ (ttl <= 0)
  <2>1. left \in Int
    BY DEF Remaining, XdrTypeOK
  <2>2. left \div Second \in Int /\ (left \div Second) * Second <= left
    BY <2>1, WholeSeconds
  <2>3. ttl \in Int /\ ttl <= Ttl /\ ttl <= left \div Second
    BY <2>2 DEF TtlFor, LesserOf
  <2>4. ttl * Second <= left
    <3>1. ttl * Second <= (left \div Second) * Second
      BY <2>2, <2>3, SecondsMonotone
    <3>2. QED
      BY <2>1, <2>2, <2>3, <3>1
  <2>5. ttl * Second <= Ttl * Second
    BY <2>3, SecondsMonotone
  <2>6. ttl * Second \in Nat
    BY <1>2, <2>3
  <2>7. Stored(validUntil) = [validUntil |-> validUntil, expires |-> now + ttl * Second]
    BY <1>2 DEF Stored
  <2>8. QED
    BY <2>4, <2>5, <2>6, <2>7 DEF Remaining, XdrTypeOK
<1>3. QED
  BY <1>1, <1>2

\* The invariant holds at the start, with an empty cache.
LEMMA XdrInitInv == XdrInit => XdrInv
  BY DEF XdrInit, XdrInv, XdrTypeOK, ExpiryInv, BuildInv, NoEntry, Nobody

\* Every action keeps it.
LEMMA XdrNextInv == XdrInv /\ [XdrNext]_xdrVars => XdrInv'
<1> SUFFICES ASSUME XdrInv, [XdrNext]_xdrVars PROVE XdrInv'
  OBVIOUS
<1> USE DEF XdrInv
<1>1. CASE Tick
  BY <1>1 DEF Tick, XdrTypeOK, ExpiryInv, BuildInv
<1>2. ASSUME NEW c \in Requests, FetchAccount(c) \/ RefuseAccount(c) \/ ServeCachedXdr(c)
      PROVE XdrInv'
  BY <1>2 DEF FetchAccount, RefuseAccount, ServeCachedXdr, XdrTypeOK, ExpiryInv, BuildInv
<1>3. ASSUME NEW c \in Requests, JoinBuild(c) \/ StartBuild(c) PROVE XdrInv'
  <2>1. XdrTypeOK'
    BY <1>3 DEF JoinBuild, StartBuild, XdrTypeOK, NoEntry
  <2>2. ExpiryInv'
    BY <1>3 DEF JoinBuild, StartBuild, ExpiryInv, NoEntry
  <2>3. BuildInv'
    BY <1>3 DEF JoinBuild, StartBuild, NoBuild, Arrived, XdrTypeOK, BuildInv
  <2>4. QED
    BY <2>1, <2>2, <2>3
<1>4. ASSUME NEW c \in Requests, BuildTransaction(c) PROVE XdrInv'
  <2>1. (now \div Second) + Timeout \in Nat
    BY DEF XdrTypeOK
  <2>2. QED
    BY <1>4, <2>1 DEF BuildTransaction, XdrTypeOK, ExpiryInv, BuildInv
<1>5. ASSUME NEW c \in Requests, FinishBuild(c) PROVE XdrInv'
  <2>1. bound[c] \in Nat
    BY DEF XdrTypeOK
  <2>2. entry' = Stored(bound[c])
    BY <1>5 DEF FinishBuild
  <2>3. XdrTypeOK'
    BY <1>5, <2>1, <2>2, StoredInTime DEF FinishBuild, Answered, XdrTypeOK
  <2>4. ExpiryInv'
    BY <2>1, <2>2, StoredInTime DEF ExpiryInv
  <2>5. BuildInv'
    BY <1>5 DEF FinishBuild, Answered, XdrTypeOK, BuildInv
  <2>6. QED
    BY <2>3, <2>4, <2>5
<1>6. ASSUME NEW c \in Requests, FailBuild(c) PROVE XdrInv'
  <2>1. XdrTypeOK'
    BY <1>6 DEF FailBuild, Answered, NoEntry, XdrTypeOK
  <2>2. ExpiryInv' /\ BuildInv'
    BY <1>6 DEF FailBuild, Answered, NoEntry, XdrTypeOK, ExpiryInv, BuildInv
  <2>3. QED
    BY <2>1, <2>2
<1>7. CASE UNCHANGED xdrVars
  BY <1>7 DEF xdrVars, XdrTypeOK, ExpiryInv, BuildInv
<1>8. QED
  BY <1>1, <1>2, <1>3, <1>4, <1>5, <1>6, <1>7 DEF XdrNext

\* The invariant holds in every state.
LEMMA XdrInvariance == XdrSpec => []XdrInv
  BY XdrInitInv, XdrNextInv, PTL DEF XdrSpec

(***************************************************************************)
(* Theorems about UnsignedXdr                                              *)
(***************************************************************************)

\* The entry, the builds and their time bounds keep their types.
THEOREM XdrTypeCorrect == XdrSpec => []XdrTypeOK
  BY XdrInvariance, PTL DEF XdrInv

\* As long as an entry is in the cache at least MinRemaining seconds of its
\* window are left.
THEOREM EntriesAreSignable == XdrSpec => []EntryIsSignable
<1>1. XdrInv => EntryIsSignable
  BY DEF XdrInv, XdrTypeOK, ExpiryInv, EntryIsSignable, Alive, Remaining
<1>2. QED
  BY <1>1, XdrInvariance, PTL

\* A build that fails takes no servable transaction out of the cache.
THEOREM FailuresEvictNothing == XdrSpec => FailureEvictsNothing
<1>1. XdrInv => \A c \in Requests : FailBuild(c) => ~ Servable
  BY DEF XdrInv, XdrTypeOK, BuildInv, FailBuild, Servable, Alive, NoEntry
<1>2. QED
  BY <1>1, XdrInvariance, PTL DEF XdrSpec, FailureEvictsNothing
=============================================================================
