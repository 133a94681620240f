---------------------------- MODULE RateLimiter ----------------------------
(***************************************************************************)
(* The limiters of the money modules: a count of calls for each client     *)
(* (audit_ledger_sum_checker.ts, conversion_rate_math.ts), or one for all  *)
(* of them (token_decimals_converter.ts, tax_deduction_estimator.ts, the   *)
(* global limit of the audit, and the token buckets).  All of them start a *)
(* window at the first call after the last one ended, and refused calls    *)
(* count too.  Where no limit is set (tax, global limit of the audit) a    *)
(* call is neither counted nor refused; the limits here are set.           *)
(***************************************************************************)
EXTENDS Integers, Sequences

CONSTANTS
  Clients,
  Window,    \* the window, in ticks, at least one
  MaxCalls,  \* calls in a window, at least one
  MaxNow     \* bound on the clock

VARIABLES
  now,
  kind,      \* which limiter: "client" or "global"
  bucket,    \* for each key the count of its window, and when that ends
  admitted   \* history: for each key when it was let through

limiterVars == <<now, kind, bucket, admitted>>

\* A bucket per client, or one for everybody.
KeyFor(client) == IF kind = "client" THEN client ELSE "all"
Keys == Clients \cup {"all"}

-----------------------------------------------------------------------------
\* A client has no bucket before its first call; the others' window starts
\* when the module is loaded.
Init ==
  /\ now = 0
  /\ kind \in {"client", "global"}
  /\ bucket = [k \in Keys |-> [count |-> 0, resetAt |-> IF k = "all" THEN Window ELSE 0]]
  /\ admitted = [k \in Keys |-> <<>>]

\* Mutant of Current: the window is of one tick, whatever its length.
CurrentTick(k) == IF now >= bucket[k].resetAt THEN [count |-> 0, resetAt |-> now + 1] ELSE bucket[k]

Current(k) == IF now >= bucket[k].resetAt THEN [count |-> 0, resetAt |-> now + Window] ELSE bucket[k]
Counted(k) == [Current(k) EXCEPT !.count = @ + 1]

Count(k) ==
  /\ Counted(k).count <= MaxCalls + 1   \* bound: of the refused calls one is counted
  /\ bucket' = [bucket EXCEPT ![k] = Counted(k)]
  /\ admitted' = IF Counted(k).count > MaxCalls THEN admitted
                 ELSE [admitted EXCEPT ![k] = Append(@, now)]
  /\ UNCHANGED <<now, kind>>

\* The audit has both kinds, the scraper of rates a bucket for each client, the
\* others one for all: token decimals, taxes, and what createTokenBucket makes.
checkAuditLedgerRateLimit(client) == Count(KeyFor(client))
checkConversionRateLimit(client) == kind = "client" /\ Count(client)
checkDecimalsRateLimit == kind = "global" /\ Count("all")
checkTaxEstimatorRateLimit == kind = "global" /\ Count("all")
consume == kind = "global" /\ Count("all")

Tick ==
  /\ now < MaxNow
  /\ now' = now + 1
  /\ UNCHANGED <<kind, bucket, admitted>>

Next ==
  \/ \E client \in Clients : checkAuditLedgerRateLimit(client) \/ checkConversionRateLimit(client)
  \/ checkDecimalsRateLimit
  \/ checkTaxEstimatorRateLimit
  \/ consume
  \/ Tick

Spec == Init /\ [][Next]_limiterVars

-----------------------------------------------------------------------------
TypeOK ==
  /\ now \in 0 .. MaxNow
  /\ \A k \in Keys : bucket[k].count \in 0 .. MaxCalls + 1 /\ bucket[k].resetAt \in Nat
  /\ admitted \in [Keys -> Seq(0 .. MaxNow)]

\* However calls fall around the end of a window, no more than twice the limit
\* are let through in the time of one, and a call is refused only where the limit
\* was let through in that time (the checks of the limits).
RateIsBounded ==
  \A k \in Keys : LET times == admitted[k] IN
    /\ \A i \in DOMAIN times : i + 2 * MaxCalls \in DOMAIN times => times[i + 2 * MaxCalls] - times[i] >= Window
    /\ Counted(k).count > MaxCalls => /\ Len(times) >= MaxCalls
                                      /\ now - times[Len(times) - MaxCalls + 1] < Window
=============================================================================
