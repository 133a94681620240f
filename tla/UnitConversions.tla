-------------------------- MODULE UnitConversions --------------------------
(***************************************************************************)
(* Amounts in other units: decimal texts to base units and back            *)
(* (token_decimals_converter.ts, stablecoin_cents_multiplier.ts,           *)
(* token-metadata.ts), the columns of the database (db-precision.ts), and  *)
(* rates and scales (conversion_rate_math.ts, interest_yield_estimator.ts, *)
(* financial_report_math.ts, audit_ledger_sum_checker.ts).  A text of      *)
(* decimals is its digits and how many of them are behind the point.  A    *)
(* behaviour is one conversion, shown with the exact quotient n / d it     *)
(* stands for and the way it may round.                                    *)
(***************************************************************************)
EXTENDS Amounts

CONSTANTS
  CentsDecimals,  \* CENTS_DECIMALS
  MaxDecimals,    \* MAX_TOKEN_DECIMALS
  Digits,         \* the digits of the decimal texts
  MaxPlaces       \* bound on the digits behind the point

ASSUME UnitsAssumption ==
  /\ MaxPlaces \in Nat \ {0} /\ MaxDecimals \in Nat /\ CentsDecimals \in 0 .. MaxDecimals
  /\ Digits \subseteq Int

VARIABLE conversion
unitVars == <<conversion>>

Pow10[k \in 0 .. MaxPlaces + MaxDecimals] == IF k = 0 THEN 1 ELSE 10 * Pow10[k - 1]

Text(digits, places) == [digits |-> digits, places |-> places]
IsDecimals(decimals) == decimals \in 0 .. MaxDecimals

InRange(value) == IF isAmountWithinRange(value) THEN Ok(value) ELSE Rejected

-----------------------------------------------------------------------------
\* The point is moved, and a digit that would be lost is refused.
toRawUnits(text, decimals) ==
  IF text.digits >= 0 /\ IsDecimals(decimals) /\ text.places <= decimals
  THEN InRange(text.digits * Pow10[decimals - text.places]) ELSE Rejected

\* The same with two decimals, and with those of the token.
dollarsToCents(text) == toRawUnits(text, CentsDecimals)
toCents(text, decimals) ==
  IF text.digits >= 0 /\ text.places <= decimals
  THEN InRange(text.digits * Pow10[decimals - text.places]) ELSE Rejected

\* The same without a limit.
toTokenUnits(text, decimals) ==
  IF text.digits >= 0 /\ text.places <= decimals
  THEN Ok(text.digits * Pow10[decimals - text.places]) ELSE Rejected

\* A text without the zeros at its end.
Trimmed(digits, places) ==
  LET zeros == {k \in 0 .. places : digits % Pow10[k] = 0}
      most == CHOOSE k \in zeros : \A j \in zeros : j <= k
  IN Text(digits \div Pow10[most], places - most)

toHumanUnits(raw, decimals, fixedScale) ==
  IF IsDecimals(decimals)
  THEN Ok(IF fixedScale THEN Text(raw, decimals) ELSE Trimmed(raw, decimals)) ELSE Rejected

\* The texts of cents, and of any precision, are trimmed.
centsToDollars(cents) == Trimmed(cents, CentsDecimals)
fromCentsExact(cents, decimals) == Trimmed(cents, decimals)

\* The sign is put before the text of the absolute value.
formatDecimalForDb(value, decimals) ==
  LET text == Text(Abs(value), decimals)
  IN IF value < 0 THEN [text EXCEPT !.digits = -@] ELSE text

formatWithDecimals(value, decimals, fixedScale) ==
  LET text == IF fixedScale THEN Text(Abs(value), decimals) ELSE Trimmed(Abs(value), decimals)
  IN IF value < 0 THEN [text EXCEPT !.digits = -@] ELSE text

\* A column is read back only with exactly its decimals.
parseDecimalDbValue(text, decimals) ==
  IF text.places = decimals THEN Ok(text.digits) ELSE Rejected

\* Mutant of toCentsExact: a half is dropped, and so is the mode.
ToCentsRoundingDown(text, decimals, rounding) ==
  LET dropped == IF text.places > decimals THEN text.places - decimals ELSE 0
      kept == IF dropped > 0 THEN text.digits \div Pow10[dropped]
              ELSE text.digits * Pow10[decimals - text.places]
      roundUp == dropped > 0 /\ (text.digits % Pow10[dropped]) \div Pow10[dropped - 1] > 5
  IN IF text.digits < 0 THEN Rejected ELSE InRange(IF roundUp THEN kept + 1 ELSE kept)

\* Digits beyond the precision round the kept ones, by the first one dropped
\* and by whether another follows.
toCentsExact(text, decimals, rounding) ==
  LET dropped == IF text.places > decimals THEN text.places - decimals ELSE 0
      kept == IF dropped > 0 THEN text.digits \div Pow10[dropped]
              ELSE text.digits * Pow10[decimals - text.places]
      discarded == text.digits % Pow10[dropped]
      first == discarded \div Pow10[dropped - 1]
      roundUp == \/ rounding = "ceil"
                 \/ rounding = "round" /\ first >= 5
  IN IF text.digits < 0 THEN Rejected
     ELSE InRange(IF discarded # 0 /\ roundUp THEN kept + 1 ELSE kept)

\* A report's amount at another precision.
convertMinorDecimals(amount, from, to) ==
  IF ~(IsDecimals(from) /\ IsDecimals(to)) THEN Rejected
  ELSE IF to >= from THEN Ok(amount * Pow10[to - from])
  ELSE Ok(divRound(amount, Pow10[from - to], "half-even"))

\* The product is checked before it is divided, and the result again.
applyStablecoinCentsMultiplier(amount, multiplier, divisor, mode) ==
  IF divisor # 0 /\ isAmountWithinRange(amount * multiplier)
  THEN InRange(divRound(amount * multiplier, divisor, mode)) ELSE Rejected

\* A rate is a whole factor.
applyConversionRate(notional, rate) == InRange(notional * rate)
estimateInterestYield(principal, rate) == InRange(principal * rate)

\* An amount scaled by a ratio of two amounts.
applyRoundedScale(amount, numerator, denominator) == roundHalfEven(amount * numerator, denominator)
scaleWithRounding(value, numerator, denominator) ==
  IF denominator = 0 THEN Rejected ELSE Ok(divRound(value * numerator, denominator, "half-even"))

\* A storage row: the base units, and the text of them at the column's scale.  A
\* text with a point is a human amount, a whole one is base units unless the
\* schema says otherwise; it may also limit the digits.
formatForDbStorage(text, scale, inputType, precision) ==
  LET human == inputType = "human" \/ (inputType = "auto" /\ text.places > 0)
      raw == IF human THEN toRawUnits(text, scale)
             ELSE IF text.places > 0 \/ text.digits < 0 THEN Rejected ELSE InRange(text.digits)
  IN IF IsDecimals(scale) /\ raw.ok /\ raw.value < Pow10[precision]
     THEN Ok([raw |-> raw.value, formatted |-> toHumanUnits(raw.value, scale, TRUE).value,
              trimmed |-> toHumanUnits(raw.value, scale, FALSE).value])
     ELSE Rejected

-----------------------------------------------------------------------------
Texts == [digits : Digits, places : 0 .. MaxPlaces]
Precisions == 0 .. MaxDecimals + 1

Conversion(op, n, d, mode, outcome) == [op |-> op, n |-> n, d |-> d, mode |-> mode, outcome |-> outcome]
NoConversion == Conversion("none", 0, 1, "exact", Rejected)

UnitInit == conversion = NoConversion

AnswerConversion(op, n, d, mode, outcome) ==
  conversion' = IF outcome.ok THEN Conversion(op, n, d, mode, outcome) ELSE [NoConversion EXCEPT !.op = op]

Read == \E text \in Texts, decimals \in Precisions :
  \/ AnswerConversion("toRawUnits", text.digits * Pow10[decimals], Pow10[text.places], "exact",
            toRawUnits(text, decimals))
  \/ /\ decimals = CentsDecimals
     /\ AnswerConversion("dollarsToCents", text.digits * Pow10[decimals], Pow10[text.places], "exact",
               dollarsToCents(text))
  \/ /\ IsDecimals(decimals)
     /\ AnswerConversion("toCents", text.digits * Pow10[decimals], Pow10[text.places], "exact",
               toCents(text, decimals))
  \/ /\ IsDecimals(decimals)
     /\ AnswerConversion("toTokenUnits", text.digits * Pow10[decimals], Pow10[text.places], "exact",
               toTokenUnits(text, decimals))

ReadRounding == \E text \in Texts, decimals \in 0 .. MaxDecimals :
  \/ AnswerConversion("toCentsExact", text.digits * Pow10[decimals], Pow10[text.places], "half-up",
            toCentsExact(text, decimals, "round"))
  \/ \E mode \in {"floor", "ceil"} :
       AnswerConversion("toCentsExact", text.digits * Pow10[decimals], Pow10[text.places], mode,
              toCentsExact(text, decimals, mode))

\* The text that is written, and what reading it gives.
Write == \E input \in Inputs, decimals \in Precisions, fixedScale \in BOOLEAN :
  /\ IsLedgerAmount(input)
  /\ LET text == toHumanUnits(input.value, decimals, fixedScale)
     IN \/ AnswerConversion("toHumanUnits", input.value, 1, "exact",
                  IF text.ok THEN toRawUnits(text.value, decimals) ELSE Rejected)
        \/ AnswerConversion("centsToDollars", input.value, 1, "exact", dollarsToCents(centsToDollars(input.value)))
        \/ /\ IsDecimals(decimals)
           /\ \/ AnswerConversion("fromCentsExact", input.value, 1, "exact",
                        toCentsExact(fromCentsExact(input.value, decimals), decimals, "round"))
              \/ AnswerConversion("formatWithDecimals", input.value, 1, "exact",
                        toTokenUnits(formatWithDecimals(input.value, decimals, fixedScale), decimals))

WriteColumn == \E input \in Inputs, decimals \in 0 .. MaxDecimals :
  /\ IsInteger(input)
  /\ AnswerConversion("formatDecimalForDb", input.value, 1, "exact",
            parseDecimalDbValue(formatDecimalForDb(input.value, decimals), decimals))

WriteRow == \E text \in Texts, scale \in Precisions, inputType \in {"auto", "raw", "human"},
                precision \in {2, 3} :
  LET row == formatForDbStorage(text, scale, inputType, precision)
  IN \/ AnswerConversion("formatForDbStorage", IF row.ok THEN row.value.raw ELSE 0, 1, "exact",
               IF row.ok THEN parseDecimalDbValue(row.value.formatted, scale) ELSE Rejected)
     \/ AnswerConversion("formatForDbStorage", IF row.ok THEN row.value.raw ELSE 0, 1, "exact",
               IF row.ok THEN toRawUnits(row.value.trimmed, scale) ELSE Rejected)

Rescale == \E input \in Inputs, from, to \in Precisions :
  /\ IsLedgerAmount(input)
  /\ AnswerConversion("convertMinorDecimals", input.value * Pow10[to], Pow10[from], "half-even",
            convertMinorDecimals(input.value, from, to))

Multiply == \E amount, multiplier, divisor \in Inputs :
  /\ IsInteger(amount) /\ IsInteger(multiplier) /\ IsInteger(divisor)
  /\ \/ \E mode \in RoundingModes \ {"floor"} :
          AnswerConversion("applyStablecoinCentsMultiplier", amount.value * multiplier.value, divisor.value,
                 normalizeRoundingMode(mode),
                 applyStablecoinCentsMultiplier(amount.value, multiplier.value, divisor.value, mode))
     \/ AnswerConversion("scaleWithRounding", amount.value * multiplier.value, divisor.value, "half-even",
               scaleWithRounding(amount.value, multiplier.value, divisor.value))

ApplyRate == \E amount, rate, scale \in Inputs :
  /\ IsLedgerAmount(amount) /\ IsLedgerAmount(rate) /\ IsLedgerAmount(scale)
  /\ \/ AnswerConversion("applyConversionRate", amount.value * rate.value, 1, "exact",
               applyConversionRate(amount.value, rate.value))
     \/ AnswerConversion("estimateInterestYield", amount.value * rate.value, 1, "exact",
               estimateInterestYield(amount.value, rate.value))
     \/ AnswerConversion("applyRoundedScale", amount.value * rate.value, scale.value, "half-even",
               applyRoundedScale(amount.value, rate.value, scale.value))

\* Each behaviour is of one conversion.
UnitNext ==
  /\ conversion = NoConversion
  /\ \/ Read
     \/ ReadRounding
     \/ Write
     \/ WriteColumn
     \/ WriteRow
     \/ Rescale
     \/ Multiply
     \/ ApplyRate

UnitSpec == UnitInit /\ [][UnitNext]_unitVars

-----------------------------------------------------------------------------
UnitTypeOK ==
  /\ conversion.n \in Int /\ conversion.d \in Int \ {0}
  /\ conversion.outcome.ok => conversion.outcome.value \in Int

\* A conversion that is not refused is the exact quotient, rounded only where and
\* as it is said to be, and what was written is read back as it was; but for the
\* four that have no limit it is an i128.
ConversionsAreExact ==
  conversion.outcome.ok =>
    /\ RoundedAs(conversion.n, conversion.d, conversion.mode, conversion.outcome.value)
    /\ conversion.op \notin {"toTokenUnits", "convertMinorDecimals", "scaleWithRounding", "applyRoundedScale"} =>
         isAmountWithinRange(conversion.outcome.value)
=============================================================================
