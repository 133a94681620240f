---------------------------- MODULE UnsignedXdr ----------------------------
(***************************************************************************)
(* The unsigned transactions handed out by build-tx, claim-auto-release    *)
(* and partial-release (src/src/routes/jobs) under one cache key, and the  *)
(* time bound they carry (caches.ts, #677).  A build awaits the account    *)
(* and the fee, sets the bound, and awaits prepareTransaction; requests    *)
(* that come meanwhile await the same promise.  Partial-release awaits the *)
(* account before it looks into the cache.                                 *)
(*                                                                         *)
(* Time is counted in ticks, Second of them to a second: the bound and the *)
(* TTL are whole seconds, the clock is not.                                *)
(***************************************************************************)
EXTENDS Integers

CONSTANTS
  Requests,       \* concurrent requests for one cache key
  Routes,         \* the routes that use the cache
  Second,         \* ticks in a second
  Timeout,        \* UNSIGNED_TX_TIMEOUT_S
  MinRemaining,   \* UNSIGNED_TX_MIN_REMAINING_S
  Ttl,            \* the TTL configured for the route's cache, in seconds
  MaxNow          \* bound: ticks the clock makes

ASSUME XdrAssumption ==
  /\ Routes \subseteq {"build-tx", "claim-auto-release", "partial-release"}
  /\ Second \in Nat \ {0} /\ Timeout \in Nat /\ MinRemaining \in Nat
  /\ Ttl \in Nat /\ MaxNow \in Nat

VARIABLES
  route,      \* the route the requests go to
  now,        \* the clock, in ticks
  entry,      \* the cache entry: validUntil in seconds, expires in ticks
  building,   \* the in-flight entry: the request whose promise it is, or Nobody
  stage,      \* request -> where its request is suspended
  bound       \* request -> maxTime of the transaction it is building

xdrVars == <<route, now, entry, building, stage, bound>>

Nobody  == "nobody"
NoEntry == [validUntil |-> 0, expires |-> -1]

ASSUME XdrRequestsAssumption == Nobody \notin Requests

XdrInit ==
  /\ route \in Routes
  /\ now = 0 /\ entry = NoEntry /\ building = Nobody
  /\ stage = [c \in Requests |-> "idle"]
  /\ bound = [c \in Requests |-> 0]

Tick ==
  /\ now < MaxNow
  /\ now' = now + 1
  /\ UNCHANGED <<route, entry, building, stage, bound>>

\* node-cache keeps an entry up to and including the instant it expires.
Alive == now <= entry.expires

\* What remains of the signing window, in ticks.
Remaining(validUntil) == validUntil * Second - now

\* getFreshCachedXdr: an entry with too little of its window left is deleted.
Servable == Alive /\ Remaining(entry.validUntil) >= MinRemaining * Second

\* Where a request looks into the cache, or goes for the account first.
Arrived(c) == stage[c] = IF route = "partial-release" THEN "account" ELSE "idle"

FetchAccount(c) ==
  /\ route = "partial-release" /\ stage[c] = "idle"
  /\ stage' = [stage EXCEPT ![c] = "account"]
  /\ UNCHANGED <<route, now, entry, building, bound>>

\* getAccount failed before the cache was looked into.
RefuseAccount(c) ==
  /\ stage[c] = "account"
  /\ stage' = [stage EXCEPT ![c] = "idle"]
  /\ UNCHANGED <<route, now, entry, building, bound>>

ServeCachedXdr(c) ==
  /\ Arrived(c) /\ Servable
  /\ stage' = [stage EXCEPT ![c] = "idle"]
  /\ UNCHANGED <<route, now, entry, building, bound>>

JoinBuild(c) ==
  /\ Arrived(c) /\ ~ Servable /\ building # Nobody
  /\ stage' = [stage EXCEPT ![c] = "joined"]
  /\ entry' = NoEntry
  /\ UNCHANGED <<route, now, building, bound>>

\* Mutant of NoBuild: a build in flight is not looked for.
NoBuildAlways == TRUE

NoBuild == building = Nobody

StartBuild(c) ==
  /\ Arrived(c) /\ ~ Servable /\ NoBuild
  /\ building' = c
  /\ stage' = [stage EXCEPT ![c] = "fee"]
  /\ entry' = NoEntry
  /\ UNCHANGED <<route, now, bound>>

\* Fee and account are there: the transaction gets its time bound.
BuildTransaction(c) ==
  /\ stage[c] = "fee"
  /\ stage' = [stage EXCEPT ![c] = "prepare"]
  /\ bound' = [bound EXCEPT ![c] = (now \div Second) + Timeout]
  /\ UNCHANGED <<route, now, entry, building>>

LesserOf(a, b) == IF a < b THEN a ELSE b

\* Mutant of TtlFor: the signing margin is not taken off.
TtlWithoutMargin(validUntil) == LesserOf(Ttl, Remaining(validUntil) \div Second)

\* setCachedXdr: the TTL in whole seconds, rounded down.
TtlFor(validUntil) == LesserOf(Ttl, (Remaining(validUntil) - MinRemaining * Second) \div Second)

\* Mutant of Stored: a TTL that is used up reaches node-cache, where 0 is for ever.
StoredUnchecked(validUntil) ==
  [validUntil |-> validUntil,
   expires    |-> IF TtlFor(validUntil) = 0 THEN MaxNow + (Ttl + 1) * Second
                  ELSE now + TtlFor(validUntil) * Second]

Stored(validUntil) ==
  IF TtlFor(validUntil) <= 0 THEN entry
  ELSE [validUntil |-> validUntil, expires |-> now + TtlFor(validUntil) * Second]

Answered(c) ==
  [d \in Requests |-> IF d = c \/ (stage[d] = "joined" /\ building = c) THEN "idle" ELSE stage[d]]

\* prepareTransaction answers: the XDR is cached unless its TTL is used up.
FinishBuild(c) ==
  /\ stage[c] = "prepare"
  /\ entry' = Stored(bound[c])
  /\ building' = Nobody
  /\ stage' = Answered(c)
  /\ bound' = [bound EXCEPT ![c] = 0]
  /\ UNCHANGED <<route, now>>

\* An RPC call of the build failed: the cache entry is deleted.
FailBuild(c) ==
  /\ stage[c] \in {"fee", "prepare"}
  /\ entry' = NoEntry
  /\ building' = Nobody
  /\ stage' = Answered(c)
  /\ bound' = [bound EXCEPT ![c] = 0]
  /\ UNCHANGED <<route, now>>

XdrNext ==
  \/ Tick
  \/ \E c \in Requests :
       \/ FetchAccount(c)
       \/ RefuseAccount(c)
       \/ ServeCachedXdr(c)
       \/ JoinBuild(c)
       \/ StartBuild(c)
       \/ BuildTransaction(c)
       \/ FinishBuild(c)
       \/ FailBuild(c)

XdrSpec == XdrInit /\ [][XdrNext]_xdrVars

(***************************************************************************)
(* Properties                                                              *)
(***************************************************************************)

\* Type invariant.
XdrTypeOK ==
  /\ route \in Routes
  /\ now \in 0 .. MaxNow
  /\ entry \in [validUntil : Nat, expires : -1 .. MaxNow + Ttl * Second]
  /\ building \in {Nobody} \cup Requests
  /\ stage \in [Requests -> {"idle", "account", "joined", "fee", "prepare"}]
  /\ bound \in [Requests -> Nat]

\* As long as an entry is in the cache at least MinRemaining seconds of its
\* window are left, whenever it was stored and however long the RPC took: the
\* TTL alone sees to it, and no lookup ever finds an entry too old to serve.
EntryIsSignable == Alive => Remaining(entry.validUntil) >= MinRemaining * Second

\* A build that fails takes no servable transaction out of the cache, for the
\* one other build that could have stored it has joined this one.
FailureEvictsNothing ==
  [][\A c \in Requests : FailBuild(c) => ~ Servable]_xdrVars
=============================================================================
