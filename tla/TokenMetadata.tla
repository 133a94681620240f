--------------------------- MODULE TokenMetadata ---------------------------
(***************************************************************************)
(* The metadata of a token (token-metadata.ts): three views of its         *)
(* contract are simulated, and what they say is cached -- the metadata for *)
(* long, a failure for a minute.  Callers that miss the cache together     *)
(* each simulate.                                                          *)
(***************************************************************************)
EXTENDS Integers

CONSTANTS
  Callers,
  Decimals,         \* the decimals of the token contract
  DefaultDecimals,  \* DEFAULT_TOKEN_DECIMALS
  CacheTtl,         \* CACHE_TTL_SECONDS, in ticks
  FailureTtl,       \* FAILURE_CACHE_TTL_SECONDS, in ticks
  MaxNow            \* bound on the clock

VARIABLES
  now,
  stage,       \* of each caller: "idle" or "simulating"
  metadata,    \* the entry of metadataCache
  failure,     \* when the entry of failureCache expires, -1 without one
  answer,      \* what each caller was told last
  lastFailed   \* when decimals() was last seen to fail, -1 before that

metadataVars == <<now, stage, metadata, failure, answer, lastFailed>>

None == -1
NoEntry == [decimals |-> None, symbol |-> "empty", expires |-> None]
Hit == metadata.expires > now
FailureHit == failure > now

-----------------------------------------------------------------------------
Init ==
  /\ now = 0
  /\ stage = [c \in Callers |-> "idle"]
  /\ metadata = NoEntry /\ failure = None
  /\ answer = [c \in Callers |-> "none"]
  /\ lastFailed = None

Told(c, what) == answer' = [answer EXCEPT ![c] = what]

\* resolveTokenMetadata up to the simulations: a cached answer, a cached
\* failure, or the three views.
Resolve(c) ==
  /\ stage[c] = "idle"
  /\ IF Hit THEN Told(c, "metadata") /\ UNCHANGED stage
     ELSE IF FailureHit THEN Told(c, "cached_failure") /\ UNCHANGED stage
     ELSE stage' = [stage EXCEPT ![c] = "simulating"] /\ UNCHANGED answer
  /\ UNCHANGED <<now, metadata, failure, lastFailed>>

\* Mutant of Settle: the default decimals stand in for a decimals() that failed.
SettleWithDefault(c) ==
  /\ stage[c] = "simulating"
  /\ stage' = [stage EXCEPT ![c] = "idle"]
  /\ \E decimals \in {Decimals, DefaultDecimals} :
       metadata' = [decimals |-> decimals, symbol |-> "empty", expires |-> now + CacheTtl]
  /\ Told(c, "metadata")
  /\ UNCHANGED <<now, failure, lastFailed>>

\* All three are settled.  A decimals() that failed is remembered; one that
\* says something impossible is not; a symbol() that failed leaves it empty.
Settle(c) ==
  /\ stage[c] = "simulating"
  /\ stage' = [stage EXCEPT ![c] = "idle"]
  /\ \/ /\ failure' = now + FailureTtl /\ lastFailed' = now
        /\ Told(c, "failure")
        /\ UNCHANGED metadata
     \/ /\ Told(c, "failure")
        /\ UNCHANGED <<metadata, failure, lastFailed>>
     \/ \E symbol \in {"empty", "symbol"} :
          /\ metadata' = [decimals |-> Decimals, symbol |-> symbol, expires |-> now + CacheTtl]
          /\ Told(c, "metadata")
          /\ UNCHANGED <<failure, lastFailed>>
  /\ UNCHANGED now

\* clearTokenMetadataCache.
Clear ==
  /\ metadata' = NoEntry /\ failure' = None
  /\ UNCHANGED <<now, stage, answer, lastFailed>>

Tick ==
  /\ now < MaxNow
  /\ now' = now + 1
  /\ metadata' = IF metadata.expires <= now + 1 THEN NoEntry ELSE metadata
  /\ failure' = IF failure <= now + 1 THEN None ELSE failure
  /\ UNCHANGED <<stage, answer, lastFailed>>

Next ==
  \/ \E c \in Callers : Resolve(c) \/ Settle(c)
  \/ Clear
  \/ Tick

Spec == Init /\ [][Next]_metadataVars

\* getCachedTokenDecimals, and the decimals formatTokenAmountSync writes with.
CachedDecimals == IF Hit THEN metadata.decimals ELSE None
SyncDecimals == IF CachedDecimals # None THEN CachedDecimals ELSE DefaultDecimals

-----------------------------------------------------------------------------
TypeOK ==
  /\ stage \in [Callers -> {"idle", "simulating"}]
  /\ answer \in [Callers -> {"none", "metadata", "failure", "cached_failure"}]
  /\ metadata.expires \in Int /\ failure \in Int

\* An amount is written with the decimals of its token or, only while those are
\* not cached, with the default ones, and a failure is not repeated for longer
\* than its time after decimals() failed (resolveTokenMetadata, formatTokenAmountSync).
MetadataIsSound ==
  /\ SyncDecimals = Decimals \/ (SyncDecimals = DefaultDecimals /\ ~Hit)
  /\ FailureHit => lastFailed >= 0 /\ now < lastFailed + FailureTtl
=============================================================================
