----------------------------- MODULE FeeSplits -----------------------------
(***************************************************************************)
(* Dividing an amount: fees (fee-deduction-calculator.ts), payments        *)
(* (partial_payment_allocator.ts, partial-payment-allocator.ts), ledger    *)
(* divisions (audit_ledger_sum_checker.ts), report splits                  *)
(* (financial_report_math.ts), refunds (refund_ratio_helper.ts) and the    *)
(* checks of a division made elsewhere.  A behaviour is one division: its  *)
(* function, the amount, the weights it is divided by out of a whole, and  *)
(* the parts and the rest the function returns.                            *)
(***************************************************************************)
EXTENDS Amounts

CONSTANTS
  Bps,           \* 100% in basis points
  GivenAmounts,  \* the bigints given as parts
  Shares,        \* weights, in quarters of a SHARE_SCALE step
  Percentages,   \* percentages, in half basis points
  MaxParts       \* bound on the parts of a division

ASSUME SplitsAssumption ==
  /\ Bps \in Nat \ {0} /\ MaxParts \in Nat
  /\ GivenAmounts \subseteq Int /\ Shares \subseteq Nat /\ Percentages \subseteq Int

VARIABLE division
splitVars == <<division>>

Parts(parts, rest) == [ok |-> TRUE, parts |-> parts, rest |-> rest]
DivisionOf(op, total, weights, whole, outcome) ==
  [op |-> op, total |-> total, weights |-> weights, whole |-> whole, outcome |-> outcome]
NoDivision == DivisionOf("none", 0, <<>>, 1, Rejected)

\* Math.round(share * SHARE_SCALE): a half rounds up.
Scaled(shares) == [i \in DOMAIN shares |-> (shares[i] + 2) \div 4]
AreShares(shares) ==
  /\ shares # <<>> /\ \A i \in DOMAIN shares : shares[i] > 0
  /\ SumOf(Scaled(shares)) > 0

Bigints(amounts) == [i \in DOMAIN amounts |-> Input("bigint", amounts[i])]

Truncated(total, weights, whole) ==
  [i \in DOMAIN weights |-> Quotient(total * weights[i], whole)]

-----------------------------------------------------------------------------
\* A division given by the caller: every part within the total, and their sum it.
calculateFeeAllocation(total, amounts) ==
  IF /\ amounts # <<>> /\ \A i \in DOMAIN amounts : amounts[i] \in 0 .. total
     /\ SumLedgerAmounts(Bigints(amounts)) = Ok(total)
  THEN Parts(amounts, 0) ELSE Rejected

\* The same of a milestone's payment, whose amounts are then written as texts.
allocatePayment(total, amounts) ==
  IF /\ amounts # <<>> /\ \A i \in DOMAIN amounts : amounts[i] \in 0 .. total
     /\ SumOf(amounts) = total
  THEN Parts(amounts, 0) ELSE Rejected

\* The checks of a division: verifyFeeAllocation, and those of the other modules,
\* which differ in what a part may be and whether a running total is limited.
verifyFeeAllocation(amounts, total, rest) ==
  SumLedgerAmounts(Bigints(amounts)) = Ok(total) /\ rest = 0
assertLedgerSplitSum(amounts, total) ==
  amounts # <<>> /\ total >= 0 /\ SumLedgerAmounts(Bigints(amounts)) = Ok(total)
assertConversionSplitSum(amounts, total) ==
  /\ amounts # <<>> /\ SumOf(amounts) = total
  /\ \A n \in DOMAIN amounts : isAmountWithinRange(SumOf(SubSeq(amounts, 1, n)))
validateSplitSum(amounts, total) ==
  (\A i \in DOMAIN amounts : IsLedgerAmount(Input("bigint", amounts[i]))) /\ SumOf(amounts) = total
checkFeeShareCalculation(gross, amounts, expected) ==
  /\ SumOf(amounts) = expected /\ expected <= gross
  /\ \A n \in DOMAIN amounts : isAmountWithinRange(SumOf(SubSeq(amounts, 1, n)))

EveryCheckAccepts(amounts, total) ==
  /\ verifyFeeAllocation(amounts, total, 0)
  /\ assertLedgerSplitSum(amounts, total)
  /\ assertConversionSplitSum(amounts, total)
  /\ validateSplitSum(amounts, total)
  /\ checkFeeShareCalculation(total, amounts, total)

\* Percentages to amounts; the last share gets what truncation left over, and
\* rounded percentages that allocate too much are refused.
basisPoints(percentages) == [i \in DOMAIN percentages |-> (percentages[i] + 1) \div 2]

calculatePercentageFeeAllocation(total, percentages) ==
  LET amounts == Truncated(total, basisPoints(percentages), Bps)
      dust == total - SumOf(amounts)
  IN IF percentages # <<>> /\ SumOf(percentages) = 2 * Bps
     THEN calculateFeeAllocation(total,
            IF dust > 0 THEN [amounts EXCEPT ![Len(amounts)] = @ + dust] ELSE amounts)
     ELSE Rejected

\* A fee, the net amount, and the fraction that was dropped from the fee.
calculateFeeDeduction(gross, rate, scale) ==
  LET fee == Quotient(gross * rate, scale)
  IN IF scale > 0 /\ gross >= 0 /\ rate >= 0 /\ fee <= gross
     THEN Parts(<<fee, gross - fee>>, 0) ELSE Rejected

\* The remainder is returned (calculateFeeShares, allocatePartialPayment)...
SharesAndRest(total, shares) ==
  LET parts == Truncated(total, Scaled(shares), SumOf(Scaled(shares)))
  IN Parts(parts, total - SumOf(parts))

calculateFeeShares(total, shares) ==
  IF AreShares(shares) /\ total >= 0 THEN SharesAndRest(total, shares) ELSE Rejected

allocatePartialPayment(total, shares) ==
  IF AreShares(shares) THEN SharesAndRest(total, shares) ELSE Rejected

\* ... or left in the net amount.
calculateFeeShareDeductions(gross, shares) ==
  LET split == calculateFeeShares(gross, shares)
  IN IF split.ok /\ SumOf(split.parts) <= gross
     THEN Parts(split.parts \o <<gross - SumOf(split.parts)>>, 0) ELSE Rejected

\* A fee rounded to the nearest, a tie to the even one.
calculateFeeDeductionHalfEven(total, rate) ==
  LET fee == divRound(total * rate, Bps, "half-even")
  IN IF rate \in 0 .. Bps THEN Parts(<<fee, total - fee>>, 0) ELSE Rejected

applyFeeBasisPoints(amount, rate) == calculateFeeDeductionHalfEven(amount, rate)

\* Mutant of divideWithRounding: every part is rounded on its own.
DivideEachRounded(total, divisor) ==
  IF divisor > 0 THEN Parts([i \in 1 .. divisor |-> divRound(total, divisor, "half-even")], 0) ELSE Rejected

\* Equal parts, the leading ones a unit larger.
divideWithRounding(total, divisor) ==
  IF divisor > 0
  THEN Parts([i \in 1 .. divisor |-> total \div divisor + IF i <= total % divisor THEN 1 ELSE 0], 0)
  ELSE Rejected

\* Weighted parts; each leading one gets a unit of what truncation left over.
Handed(parts, dust) ==
  [i \in DOMAIN parts |-> parts[i] + dust \div Len(parts)
                          + IF i <= dust % Len(parts) THEN 1 ELSE 0]

splitByWeights(total, weights) ==
  LET parts == Truncated(total, weights, SumOf(weights))
      split == Handed(parts, total - SumOf(parts))
  IN IF weights # <<>> /\ SumOf(weights) > 0 /\ SumOf(split) = total
     THEN Parts(split, 0) ELSE Rejected

\* The copy of half-even rounding in applyRefundRatio.
applyRefundRatio(amount, ratio) ==
  LET q == (amount * ratio) \div Bps
      twice == 2 * ((amount * ratio) % Bps)
      refund == IF twice > Bps \/ (twice = Bps /\ q % 2 # 0) THEN q + 1 ELSE q
  IN IF ratio \in 0 .. Bps /\ isAmountWithinRange(refund)
     THEN Parts(<<refund, amount - refund>>, 0) ELSE Rejected

-----------------------------------------------------------------------------
SplitInit == division = NoDivision

\* A division with an amount that is refused before anything else.
AnswerDivision(op, input, IsAllowed(_), weights, whole, outcome) ==
  division' = IF IsAllowed(input) THEN DivisionOf(op, input.value, weights, whole, outcome)
             ELSE DivisionOf(op, 0, <<>>, 1, Rejected)

Allocate == \E input \in Inputs, amounts \in SeqOf(GivenAmounts, MaxParts) :
  \/ AnswerDivision("calculateFeeAllocation", input, IsLedgerAmount, <<>>, 1,
            calculateFeeAllocation(input.value, amounts))
  \/ AnswerDivision("allocatePayment", input, IsLedgerAmount, <<>>, 1,
            allocatePayment(input.value, amounts))

AllocatePercentages == \E input \in Inputs, percentages \in SeqOf(Percentages, MaxParts) :
  AnswerDivision("calculatePercentageFeeAllocation", input, IsLedgerAmount,
         SubSeq(basisPoints(percentages), 1, Len(percentages) - 1), Bps,
         calculatePercentageFeeAllocation(input.value, percentages))

DeductFee == \E input, rate, scale \in Inputs :
  /\ IsInteger(rate) /\ IsInteger(scale)
  /\ AnswerDivision("calculateFeeDeduction", input, IsInteger, <<rate.value>>, scale.value,
            calculateFeeDeduction(input.value, rate.value, scale.value))

DeductHalfEven == \E input \in Inputs, rate \in -1 .. Bps + 1 :
  \/ AnswerDivision("calculateFeeDeductionHalfEven", input, IsLedgerAmount, <<rate>>, Bps,
            calculateFeeDeductionHalfEven(input.value, rate))
  \/ AnswerDivision("applyFeeBasisPoints", input, IsLedgerAmount, <<rate>>, Bps,
            applyFeeBasisPoints(input.value, rate))
  \/ AnswerDivision("applyRefundRatio", input, IsLedgerAmount, <<rate>>, Bps,
            applyRefundRatio(input.value, rate))

ShareOut == \E input \in Inputs, shares \in SeqOf(Shares, MaxParts) :
  \/ AnswerDivision("calculateFeeShares", input, IsInteger, Scaled(shares), SumOf(Scaled(shares)),
            calculateFeeShares(input.value, shares))
  \/ AnswerDivision("calculateFeeShareDeductions", input, IsInteger, Scaled(shares), SumOf(Scaled(shares)),
            calculateFeeShareDeductions(input.value, shares))
  \/ AnswerDivision("allocatePartialPayment", input, IsInteger, Scaled(shares), SumOf(Scaled(shares)),
            allocatePartialPayment(input.value, shares))
  \/ AnswerDivision("splitByWeights", input, IsLedgerAmount, shares, SumOf(shares),
            splitByWeights(input.value, shares))

DivideEqually == \E input \in Inputs, divisor \in 0 .. MaxParts :
  AnswerDivision("divideWithRounding", input, IsLedgerAmount, [i \in 1 .. divisor |-> 1], divisor,
         divideWithRounding(input.value, divisor))

\* Each behaviour is of one division.
SplitNext ==
  /\ division = NoDivision
  /\ \/ Allocate
     \/ AllocatePercentages
     \/ DeductFee
     \/ DeductHalfEven
     \/ ShareOut
     \/ DivideEqually

SplitSpec == SplitInit /\ [][SplitNext]_splitVars

-----------------------------------------------------------------------------
SplitTypeOK ==
  /\ division.total \in Int /\ division.whole \in Int
  /\ division.outcome.ok => division.outcome.rest \in Int

HalfEven == {"calculateFeeDeductionHalfEven", "applyFeeBasisPoints", "applyRefundRatio"}

\* A division that is not refused gives out exactly the amount, no part is
\* negative, every part is its weight's share to a unit -- to the nearest, ties
\* to even, where that is said -- and the checks of a division accept it
\* (calculateFeeAllocation to applyRefundRatio).
SplitsAreExact ==
  LET parts == division.outcome.parts
  IN division.outcome.ok =>
       /\ SumOf(parts) + division.outcome.rest = division.total
       /\ division.total >= 0 => \A i \in DOMAIN parts : parts[i] >= 0
       /\ division.total >= 0 => division.outcome.rest \in 0 .. Len(parts)
       /\ \A i \in DOMAIN division.weights :
            Abs(parts[i] * division.whole - division.total * division.weights[i]) <= division.whole
       /\ division.op \in HalfEven =>
            RoundedAs(division.total * division.weights[1], division.whole, "half-even", parts[1])
       /\ division.total >= 0 /\ division.outcome.rest = 0 =>
            EveryCheckAccepts(parts, division.total)
=============================================================================
