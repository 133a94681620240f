---------------------------- MODULE TaxEstimator ----------------------------
(***************************************************************************)
(* Withholding tax (tax_deduction_estimator.ts): a flat rate, the preview  *)
(* of the contract's own withholding, and a schedule of brackets, each of  *)
(* which taxes the slice of the amount in its band.  A behaviour is one    *)
(* call.  A flat rate is shown as the schedule of one bracket it equals.   *)
(***************************************************************************)
EXTENDS Amounts

CONSTANTS
  BpsScale,     \* CONTRACT_TAX_BPS_SCALE
  Brackets,     \* the brackets a schedule is made of
  MaxBrackets,  \* bound on the brackets of a call
  Policies      \* the rounding policies tried with a schedule

VARIABLE estimate
taxVars == <<estimate>>

NoBound == -1
Bracket(upTo, rate, scale, mode) == [upTo |-> upTo, rate |-> rate, scale |-> scale, mode |-> mode]

\* validateTaxAmount accepts nothing negative as a bound, a rate or a scale.
ASSUME TaxAssumption ==
  /\ BpsScale \in Nat \ {0} /\ MaxBrackets \in Nat /\ Policies \subseteq RoundingModes
  /\ Brackets \subseteq [upTo : Nat \cup {NoBound}, rate : Nat, scale : Nat,
                         mode : RoundingModes \cup {"default"}]

Taxes(taxes, net, rest) == [ok |-> TRUE, taxes |-> taxes, net |-> net, rest |-> rest]
Estimate(op, gross, brackets, mode, outcome) ==
  [op |-> op, gross |-> gross, brackets |-> brackets, mode |-> mode, outcome |-> outcome]

-----------------------------------------------------------------------------
\* A rate of more than the scale is refused; the fraction of the truncated tax
\* is returned whatever the rounding.
calculateTaxDeduction(gross, rate, scale, mode) ==
  LET tax == divRound(gross * rate, scale, mode)
  IN IF scale > 0 /\ rate <= scale /\ tax <= gross
     THEN Taxes(<<tax>>, gross - tax, (gross * rate) % scale) ELSE Rejected

previewTaxWithholding(balance, rate) == calculateTaxDeduction(balance, rate, BpsScale, "truncate")

\* verifyTaxDeductionRemainder.
IsConserved(gross, rate, scale, outcome) ==
  /\ gross * rate = ((gross * rate) \div scale) * scale + outcome.rest
  /\ gross = outcome.net + SumOf(outcome.taxes)

\* Bounds ascend strictly, and only the last bracket may have none.
IsSchedule(brackets) ==
  /\ brackets # <<>>
  /\ \A i \in DOMAIN brackets :
       /\ brackets[i].rate >= 0 /\ brackets[i].scale > 0 /\ brackets[i].rate <= brackets[i].scale
       /\ brackets[i].upTo = NoBound => i = Len(brackets)
       /\ i > 1 /\ brackets[i].upTo # NoBound => brackets[i].upTo > brackets[i - 1].upTo

\* Mutant of TaxSlice: the whole band is taxed, whatever is left of the amount.
TaxWholeBand(so, bracket, mode) ==
  LET width == IF bracket.upTo = NoBound THEN so.remaining ELSE bracket.upTo - so.lower
  IN [remaining |-> so.remaining - width,
      lower |-> IF bracket.upTo = NoBound THEN so.lower ELSE bracket.upTo,
      taxes |-> Append(so.taxes, divRound(width * bracket.rate, bracket.scale, mode))]

\* The brackets in turn: what is left of the amount, the lower bound of the
\* band, and the taxes so far.
TaxSlice(so, bracket, mode) ==
  LET width == IF bracket.upTo = NoBound THEN so.remaining ELSE bracket.upTo - so.lower
      slice == IF so.remaining < width THEN so.remaining ELSE width
      policy == IF bracket.mode = "default" THEN mode ELSE bracket.mode
      tax == divRound(slice * bracket.rate, bracket.scale, policy)
  IN IF so.remaining <= 0 THEN [so EXCEPT !.taxes = Append(@, 0)]
     ELSE [remaining |-> so.remaining - slice,
           lower |-> IF bracket.upTo = NoBound THEN so.lower ELSE bracket.upTo,
           taxes |-> Append(so.taxes, tax)]

estimateBracketTax(gross, brackets, mode) ==
  LET so[n \in 0 .. Len(brackets)] ==
        IF n = 0 THEN [remaining |-> gross, lower |-> 0, taxes |-> <<>>]
        ELSE TaxSlice(so[n - 1], brackets[n], mode)
      done == so[Len(brackets)]
  IN IF IsSchedule(brackets) /\ SumOf(done.taxes) <= gross
     THEN Taxes(done.taxes, gross - SumOf(done.taxes), 0) ELSE Rejected

-----------------------------------------------------------------------------
NoEstimate == Estimate("none", 0, <<>>, "truncate", Rejected)
TaxInit == estimate = NoEstimate

\* Nothing is computed from inputs that are not amounts.
AnswerEstimate(inputs, result) ==
  estimate' = IF \A input \in inputs : IsLedgerAmount(input) THEN result
                 ELSE [NoEstimate EXCEPT !.op = "refused"]

DeductTax == \E gross, rate, scale \in Inputs, mode \in RoundingModes :
  AnswerEstimate({gross, rate, scale},
         Estimate("calculateTaxDeduction", gross.value,
                  <<Bracket(NoBound, rate.value, scale.value, "default")>>, mode,
                  calculateTaxDeduction(gross.value, rate.value, scale.value, mode)))

PreviewTax == \E balance, rate \in Inputs :
  AnswerEstimate({balance, rate},
         Estimate("previewTaxWithholding", balance.value,
                  <<Bracket(NoBound, rate.value, BpsScale, "default")>>, "truncate",
                  previewTaxWithholding(balance.value, rate.value)))

EstimateBrackets == \E gross \in Inputs, brackets \in SeqOf(Brackets, MaxBrackets), mode \in Policies :
  AnswerEstimate({gross},
         Estimate("estimateBracketTax", gross.value, brackets, mode,
                  estimateBracketTax(gross.value, brackets, mode)))

\* Each behaviour is of one call.
TaxNext ==
  /\ estimate = NoEstimate
  /\ \/ DeductTax
     \/ PreviewTax
     \/ EstimateBrackets

TaxSpec == TaxInit /\ [][TaxNext]_taxVars

-----------------------------------------------------------------------------
TaxTypeOK ==
  /\ estimate.gross \in Int /\ estimate.mode \in RoundingModes
  /\ estimate.outcome.ok => estimate.outcome.net \in Nat

\* The part of the amount between the bounds around bracket i.
SliceOf(i) ==
  LET bound(j) == IF j = 0 THEN 0
                  ELSE IF estimate.brackets[j].upTo = NoBound THEN estimate.gross
                  ELSE estimate.brackets[j].upTo
      least(x, y) == IF x < y THEN x ELSE y
  IN least(estimate.gross, bound(i)) - least(estimate.gross, bound(i - 1))

\* An estimate that is not refused taxes the part of the amount in each band at
\* that band's rate, rounded as asked, and tax, net amount and remainder account
\* for the whole amount (calculateTaxDeduction, previewTaxWithholding, estimateBracketTax).
EachSliceIsTaxed ==
  LET outcome == estimate.outcome
      brackets == estimate.brackets
  IN outcome.ok =>
       /\ outcome.net + SumOf(outcome.taxes) = estimate.gross
       /\ \A i \in DOMAIN brackets :
            RoundedAs(SliceOf(i) * brackets[i].rate, brackets[i].scale,
                      normalizeRoundingMode(IF brackets[i].mode = "default" THEN estimate.mode
                                            ELSE brackets[i].mode), outcome.taxes[i])
       /\ estimate.op # "estimateBracketTax" =>
            IsConserved(estimate.gross, brackets[1].rate, brackets[1].scale, outcome)
=============================================================================
