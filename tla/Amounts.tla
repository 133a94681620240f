------------------------------ MODULE Amounts ------------------------------
(***************************************************************************)
(* Amounts of money: what is accepted as one (digit-limit-validator.ts and *)
(* the validators written after it) and how a quotient is rounded          *)
(* (rounding.ts and the copies of half-even rounding).  An input is a      *)
(* value in one of the forms a caller can give it in; the texts and codes  *)
(* of a refusal are left out.                                              *)
(***************************************************************************)
EXTENDS Integers, Sequences, SequencesExt

CONSTANTS
  MaxAmount,   \* the largest i128
  MaxSafe,     \* Number.MAX_SAFE_INTEGER, less than MaxAmount
  Inputs       \* the inputs tried for an amount, a rate or a scale

Abs(x) == IF x >= 0 THEN x ELSE -x

Forms == {"bigint", "number", "text", "malformed"}
Input(form, value) == [form |-> form, value |-> value]

ASSUME AmountsAssumption ==
  MaxAmount \in Nat /\ MaxSafe \in Nat /\ Inputs \subseteq [form : Forms, value : Int]

Rejected == [ok |-> FALSE]
Ok(value) == [ok |-> TRUE, value |-> value]

isAmountWithinRange(value) == value \in -(MaxAmount + 1) .. MaxAmount

\* A whole number in range; a JavaScript number only where those are exact.
IsInteger(input) ==
  /\ input.form # "malformed"
  /\ input.form = "number" => Abs(input.value) <= MaxSafe
  /\ isAmountWithinRange(input.value)

IsLedgerAmount(input) == IsInteger(input) /\ input.value >= 0

SumOf(s) == LET sum[n \in 0 .. Len(s)] == IF n = 0 THEN 0 ELSE sum[n - 1] + s[n] IN sum[Len(s)]

\* The sum of inputs: refused at the first one that is not an amount, or
\* where the running total leaves the range.
SumLedgerAmounts(inputs) ==
  LET sum[n \in 0 .. Len(inputs)] ==
        IF n = 0 THEN Ok(0)
        ELSE IF /\ sum[n - 1].ok /\ IsLedgerAmount(inputs[n])
                /\ isAmountWithinRange(sum[n - 1].value + inputs[n].value)
        THEN Ok(sum[n - 1].value + inputs[n].value) ELSE Rejected
  IN sum[Len(inputs)]

-----------------------------------------------------------------------------
RoundingModes == {"truncate", "floor", "ceil", "half-up", "half-even", "round-to-nearest-even"}

normalizeRoundingMode(mode) == IF mode = "round-to-nearest-even" THEN "half-even" ELSE mode

\* Division of BigInts: towards zero, and the remainder has the dividend's sign.
Quotient(n, d) == IF n >= 0 THEN n \div d ELSE -((-n) \div d)
Remainder(n, d) == n - d * Quotient(n, d)

divRound(n, d, mode) ==
  LET m == normalizeRoundingMode(mode)
      N == IF d < 0 THEN -n ELSE n
      D == Abs(d)
      q == Quotient(N, D)
      twice == 2 * Abs(Remainder(N, D))
      away == IF N >= 0 THEN q + 1 ELSE q - 1
      up == \/ m = "floor" /\ N < 0
            \/ m = "ceil" /\ N > 0
            \/ m = "half-up" /\ twice >= D
            \/ m = "half-even" /\ (twice > D \/ (twice = D /\ q % 2 # 0))
  IN IF twice # 0 /\ up THEN away ELSE q

\* The copy in audit_ledger_sum_checker.ts, for amounts.
roundHalfEven(n, d) ==
  IF n < 0 \/ d <= 0 THEN Rejected
  ELSE LET q == n \div d
           twice == 2 * (n % d)
       IN Ok(IF twice > d \/ (twice = d /\ q % 2 # 0) THEN q + 1 ELSE q)

-----------------------------------------------------------------------------
\* What is promised of q, the quotient of n and d, by mode of rounding; it
\* defines no step.
RoundedAs(n, d, mode, q) ==
  LET N == IF d < 0 THEN -n ELSE n
      D == Abs(d)
      off == Abs(N - q * D)
  IN /\ off < D
     /\ mode = "exact" => off = 0
     /\ mode = "truncate" => Abs(q * D) <= Abs(N)
     /\ mode = "floor" => q * D <= N
     /\ mode = "ceil" => q * D >= N
     /\ mode = "half-up" => 2 * off <= D /\ (2 * off = D => Abs(q * D) > Abs(N))
     /\ mode = "half-even" => 2 * off <= D /\ (2 * off = D => q % 2 = 0)
=============================================================================
