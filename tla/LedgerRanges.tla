---------------------------- MODULE LedgerRanges ----------------------------
(***************************************************************************)
(* Ledger ranges (src/src/indexer/ledger-range-tracker.ts): how a range is *)
(* put together from options, environment and defaults, validated, cut     *)
(* into pages, and compared with another.  The RPC client, the failover    *)
(* import and the tracker share these functions.                           *)
(***************************************************************************)
EXTENDS Integers, Sequences

\* An option that was not given, and what comes of a range that is rejected.
Undefined == -1
NoRange   == [start |-> Undefined, end |-> Undefined]

\* validateLedgerRange: positive integers in order.
ValidRange(start, end) == start \in Nat \ {0} /\ end \in Nat \ {0} /\ start <= end

OrElse(a, b) == IF a = Undefined THEN b ELSE a

\* resolveHistoricalLedgerRange: the options, then the environment, then the
\* defaults; a range that is not complete or not valid is an error.
ResolveRange(options, env) ==
  LET start == OrElse(options.start, OrElse(env.start, options.defaultStart))
      end   == OrElse(options.end, OrElse(env.end, options.defaultEnd))
  IN  IF start # Undefined /\ end # Undefined /\ ValidRange(start, end)
      THEN [start |-> start, end |-> end]
      ELSE NoRange

\* defaultStartLedger: behind the last indexed ledger.
DefaultStart(lastIndexed) == IF lastIndexed < 1 THEN 1 ELSE lastIndexed + 1

InRange(ledger, range) == range.start <= ledger /\ ledger <= range.end

\* filterEventsToRange, for events whose ledger is given by ledgerOf.
FilterToRange(events, ledgerOf, range) == {e \in events : InRange(ledgerOf[e], range)}

\* Mutant of RangesOverlap: ranges that share one ledger do not overlap.
RangesOverlapStrictly(a, b) == a.start < b.end /\ b.start < a.end

RangesOverlap(a, b) == a.start <= b.end /\ b.start <= a.end

\* Mutant of ChunkLedgerRange: a page ends where the next one starts, one short.
ChunkShort(range, pageSize) ==
  [k \in 1 .. (range.end - range.start) \div pageSize + 1 |->
     LET start == range.start + (k - 1) * pageSize
     IN  [start |-> start, end |-> IF start + pageSize - 2 < range.end THEN start + pageSize - 2 ELSE range.end]]

\* chunkLedgerRange: pages of pageSize ledgers, the last one cut at the end.
ChunkLedgerRange(range, pageSize) ==
  [k \in 1 .. (range.end - range.start) \div pageSize + 1 |->
     LET start == range.start + (k - 1) * pageSize
     IN  [start |-> start, end |-> IF start + pageSize - 1 < range.end THEN start + pageSize - 1 ELSE range.end]]
=============================================================================
