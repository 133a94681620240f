--------------------------- MODULE JobStateCache ---------------------------
(***************************************************************************)
(* The job-state cache (src/src/indexer/job-state-cache.ts) between the    *)
(* handler of GET /api/jobs/:contractId and the poller, for one contract.  *)
(* A miss starts one load that concurrent callers join; storing events of  *)
(* the contract drops the cached state and the load in flight and starts a *)
(* new generation, so that a load of an earlier one is never cached.       *)
(*                                                                         *)
(* The RPC call of a load is an await: the node reads the state at some    *)
(* moment of it and the answer arrives later.  What the answer sets off    *)
(* (the write to the cache, the end of the load in flight, the answers to  *)
(* the callers that joined) runs before any other request or poll.         *)
(***************************************************************************)
EXTENDS Integers, FiniteSets

CONSTANTS
  Callers,         \* concurrent HTTP requests for the contract
  Caching,         \* BOOLEAN: JOB_STATE_CACHE_TTL_S > 0
  MaxState,        \* bound: states of the contract
  MaxGeneration    \* bound: invalidations

ASSUME CachingAssumption == Caching \in BOOLEAN

ASSUME BoundsAssumption == MaxState \in Nat /\ MaxGeneration \in Nat

VARIABLES
  chain,       \* the state of the contract on the chain; 0 when it has no job
  indexed,     \* the state the events stored by the poller lead to
  generation,  \* generations.get(contractId), 0 when absent
  cached,      \* jobStateCache, NoState when there is no entry
  inFlight,    \* inFlightJobStateRequests: the caller whose load it is, or NoCaller
  load,        \* caller -> its own load: the generation it started in, the state read
  joined,      \* caller -> the caller whose load it awaits, or NoCaller
  floor,       \* history: caller -> indexed when it called, NoState when it is idle
  answer       \* history: caller -> its last answer

vars == <<chain, indexed, generation, cached, inFlight, load, joined, floor, answer>>

NoState  == -1
Failed   == -2
NoCaller == "none"
NoLoad   == [startedAt |-> -1, state |-> NoState]

ASSUME CallersAssumption == NoCaller \notin Callers

Fresh == INSTANCE FreshRead

Init ==
  /\ chain = 0 /\ indexed = 0
  /\ generation = 0 /\ cached = NoState /\ inFlight = NoCaller
  /\ load   = [c \in Callers |-> NoLoad]
  /\ joined = [c \in Callers |-> NoCaller]
  /\ floor  = [c \in Callers |-> NoState]
  /\ answer = [c \in Callers |-> NoState]

\* A transaction changes the contract.
Change ==
  /\ chain < MaxState
  /\ chain' = chain + 1
  /\ UNCHANGED <<indexed, generation, cached, inFlight, load, joined, floor, answer>>

\* Mutant of Invalidated: the load in flight is left to the callers to come.
InvalidatedCacheOnly == cached' = NoState /\ UNCHANGED inFlight

Invalidated == cached' = NoState /\ inFlight' = NoCaller

\* invalidateJobState, called with every batch of events the poller or a
\* backfill stores for the contract; a backfill may store nothing newer.
InvalidateJobState(s) ==
  /\ generation < MaxGeneration
  /\ s \in indexed .. chain
  /\ indexed' = s
  /\ generation' = generation + 1
  /\ Invalidated
  /\ UNCHANGED <<chain, load, joined, floor, answer>>

\* The TTL of the entry is over.
Expire ==
  /\ cached # NoState
  /\ cached' = NoState
  /\ UNCHANGED <<chain, indexed, generation, inFlight, load, joined, floor, answer>>

\* getCachedJobState up to its first await: the cached state, the load in
\* flight, or a load of its own.
ServeCached(c) ==
  /\ floor[c] = NoState /\ cached # NoState
  /\ answer' = [answer EXCEPT ![c] = cached]
  /\ UNCHANGED <<chain, indexed, generation, cached, inFlight, load, joined, floor>>

Await(c, owner) ==
  /\ floor[c] = NoState /\ cached = NoState
  /\ joined' = [joined EXCEPT ![c] = owner]
  /\ floor'  = [floor EXCEPT ![c] = indexed]
  /\ answer' = [answer EXCEPT ![c] = NoState]
  /\ UNCHANGED <<chain, indexed, generation, cached>>

JoinLoad(c) ==
  /\ inFlight # NoCaller
  /\ Await(c, inFlight)
  /\ UNCHANGED <<inFlight, load>>

StartLoad(c) ==
  /\ inFlight = NoCaller
  /\ Await(c, c)
  /\ inFlight' = c
  /\ load' = [load EXCEPT ![c] = [startedAt |-> generation, state |-> NoState]]

Running(c) == load[c] # NoLoad

\* The node executes the simulation, or the call fails.
Simulate(c) ==
  /\ Running(c) /\ load[c].state = NoState
  /\ \E s \in {chain, Failed} : load' = [load EXCEPT ![c].state = s]
  /\ UNCHANGED <<chain, indexed, generation, cached, inFlight, joined, floor, answer>>

\* Mutant of MayCache: a result that is not a state is cached as well.
MayCacheNull(c) == load[c].startedAt = generation /\ Caching

\* Mutant of MayCache: the generation is not compared.
MayCacheAlways(c) == load[c].state > 0 /\ Caching

\* A job that was not found and an error are shared but not cached.
MayCache(c) == load[c].state > 0 /\ load[c].startedAt = generation /\ Caching

\* Mutant of Cleared: the entry is deleted whoever's load it is.
ClearedAlways(c) == NoCaller

Cleared(c) == IF inFlight = c THEN NoCaller ELSE inFlight

\* Mutant of Waiting: only the caller that started the load hears of its end.
OwnerAlone(c) == {c}

Waiting(c) == {d \in Callers : joined[d] = c}

\* The answer of the load arrives.
FinishLoad(c) ==
  /\ Running(c) /\ load[c].state # NoState
  /\ cached' = IF MayCache(c) THEN load[c].state ELSE cached
  /\ inFlight' = Cleared(c)
  /\ load'   = [load EXCEPT ![c] = NoLoad]
  /\ joined' = [d \in Callers |-> IF d \in Waiting(c) THEN NoCaller ELSE joined[d]]
  /\ floor'  = [d \in Callers |-> IF d \in Waiting(c) THEN NoState ELSE floor[d]]
  /\ answer' = [d \in Callers |-> IF d \in Waiting(c) THEN load[c].state ELSE answer[d]]
  /\ UNCHANGED <<chain, indexed, generation>>

Next ==
  \/ Change
  \/ \E s \in 0 .. MaxState : InvalidateJobState(s)
  \/ Expire
  \/ \E c \in Callers :
       \/ ServeCached(c)
       \/ JoinLoad(c)
       \/ StartLoad(c)
       \/ Simulate(c)
       \/ FinishLoad(c)

Spec == Init /\ [][Next]_vars

\* Every RPC call ends, by its answer or by its timeout.
FairSpec == Spec /\ \A c \in Callers : WF_vars(Simulate(c)) /\ WF_vars(FinishLoad(c))

(***************************************************************************)
(* Properties                                                              *)
(***************************************************************************)

States == 0 .. MaxState

LoadRecord == [startedAt : Nat, state : {NoState, Failed} \cup Nat]

\* Type invariant.
TypeOK ==
  /\ chain \in Nat /\ indexed \in Nat /\ indexed <= chain /\ chain <= MaxState
  /\ generation \in Nat
  /\ cached \in {NoState} \cup (Nat \ {0})
  /\ inFlight \in {NoCaller} \cup Callers
  /\ load \in [Callers -> {NoLoad} \cup LoadRecord]
  /\ joined \in [Callers -> {NoCaller} \cup Callers]
  /\ floor \in [Callers -> {NoState} \cup Nat]
  /\ answer \in [Callers -> {NoState, Failed} \cup Nat]

\* The cache never holds a state older than the events already stored: a load
\* that was under way when they were stored is not cached.
CacheNotBehindIndex == cached # NoState => indexed <= cached /\ cached <= chain

\* Concurrent misses share one RPC call: two loads of one generation never run
\* at the same time, even after an invalidation dropped a load in flight.
OneLoadPerGeneration ==
  \A c, d \in Callers :
    Running(c) /\ Running(d) /\ load[c].startedAt = load[d].startedAt => c = d

\* Every answer is a state the contract had, no older than what was indexed when
\* its call was made (module FreshRead).
AnswersAreFresh == Fresh!Spec

\* A caller that waits is answered.
CallersAreAnswered == \A c \in Callers : floor[c] # NoState ~> floor[c] = NoState
=============================================================================
