-------------------------------- MODULE Retry --------------------------------
(***************************************************************************)
(* The retry loops around RPC and database calls: withRetry                *)
(* (src/src/indexer/rpc-poller-client.ts), withSchemaRetry (db.ts),        *)
(* withVacuumRetry (sqlite_vacuum_cleaner.ts), withLedgerRangeRpcRetry     *)
(* (ledger-range-tracker.ts) and retryWithBackoff (failover-recovery.ts).  *)
(* The call answers or throws an error of some class; delays are counted   *)
(* in units of the initial backoff.                                        *)
(***************************************************************************)
EXTENDS Integers, Sequences

CONSTANTS
  MaxRetries,      \* maxRetries; retryWithBackoff's maxAttempts is one more
  MaxBackoff,      \* maxBackoffMs
  Hints            \* what a Retry-After header may ask for

VARIABLES
  loop,        \* which of the loops this is
  attempt,     \* the attempts that threw
  delays,      \* history: the delays so far, with what the server asked for
  outcome,     \* "trying", "sleeping", "answered", "threw"
  lastError    \* the last error, or NoError

retryVars == <<loop, attempt, delays, outcome, lastError>>

Loops == {"rpc", "schema", "vacuum", "tracker", "failover"}

\* An error by what the classifiers look at: its status or JSON-RPC code, whether
\* its name or message is one of a transient fault, and its Retry-After.
Errors == [status : {0, 400, 429, 503}, transient : BOOLEAN, retryAfter : Hints \cup {-1}]
NoError == [status |-> -1]

\* isRetryableError of the RPC client: an HTTP status decides before the message.
RpcRetryable(err) ==
  \/ err.status \in {429, 500, 502, 503, 504}
  \/ err.status \notin 400 .. 499 /\ err.transient

\* isSchemaRetryableError, isVacuumRetryableError and isLedgerRangeRpcRetryable
\* look at the message only; retryWithBackoff tries again after any error.
Retryable(err) ==
  CASE loop = "rpc" -> RpcRetryable(err)
    [] loop = "failover" -> TRUE
    [] OTHER -> err.transient

Init ==
  /\ loop \in Loops /\ attempt = 0 /\ delays = <<>>
  /\ outcome = "trying" /\ lastError = NoError

MinOf(a, b) == IF a < b THEN a ELSE b
MaxOf(a, b) == IF a > b THEN a ELSE b

\* computeBackoffMs and its copies; retryWithBackoff has no cap.
ComputeBackoff(n) == IF loop = "failover" THEN 2 ^ n ELSE MinOf(2 ^ n, MaxBackoff)

\* Mutant of Delay: the header replaces the backoff instead of extending it.
DelayOfHeader(n, err) ==
  IF loop = "rpc" /\ err.retryAfter >= 0 THEN MinOf(err.retryAfter, MaxBackoff) ELSE ComputeBackoff(n)

\* The delay after the n-th failed attempt: only withRetry reads Retry-After,
\* and only upwards, up to the cap.
Delay(n, err) ==
  IF loop = "rpc" /\ err.retryAfter >= 0
  THEN MinOf(MaxOf(err.retryAfter, ComputeBackoff(n)), MaxBackoff)
  ELSE ComputeBackoff(n)

Answer ==
  /\ outcome = "trying" /\ outcome' = "answered"
  /\ UNCHANGED <<loop, attempt, delays, lastError>>

\* The attempt throws: the last one, or an error that does not pass, is the
\* caller's; else the loop sleeps.
Throw(err) ==
  /\ outcome = "trying" /\ lastError' = err
  /\ attempt' = attempt + 1
  /\ IF ~ Retryable(err) \/ attempt >= MaxRetries
     THEN outcome' = "threw" /\ UNCHANGED delays
     ELSE /\ outcome' = "sleeping"
          /\ delays' = Append(delays, [slept |-> Delay(attempt, err), asked |-> err.retryAfter])
  /\ UNCHANGED loop

Wake ==
  /\ outcome = "sleeping" /\ outcome' = "trying"
  /\ UNCHANGED <<loop, attempt, delays, lastError>>

Next == Answer \/ Wake \/ \E err \in Errors : Throw(err)

Spec == Init /\ [][Next]_retryVars

(***************************************************************************)
(* Properties                                                              *)
(***************************************************************************)

\* Type invariant.
TypeOK ==
  /\ loop \in Loops /\ attempt \in 0 .. MaxRetries + 1
  /\ Len(delays) \in {attempt, attempt - 1}
  /\ outcome \in {"trying", "sleeping", "answered", "threw"}
  /\ lastError \in Errors \cup {NoError}

\* Between two attempts a loop waits at least its exponential backoff and, when a
\* server named a time, at least that, as far as the cap of the loop allows; it
\* throws a transient error only after its last attempt.
EveryAttemptIsSpaced ==
  /\ \A i \in DOMAIN delays :
       /\ delays[i].slept >= MinOf(2 ^ (i - 1), MaxBackoff)
       /\ loop = "rpc" /\ delays[i].asked >= 0 => delays[i].slept >= MinOf(delays[i].asked, MaxBackoff)
       /\ loop # "failover" => delays[i].slept <= MaxBackoff
  /\ outcome = "threw" /\ Retryable(lastError) => attempt = MaxRetries + 1
=============================================================================
