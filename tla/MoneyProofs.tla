----------------------------- MODULE MoneyProofs -----------------------------
(***************************************************************************)
(* Divisions, taxes and conversions of amounts are exact for any inputs,   *)
(* any number of parts and any bounds: FeeSplits, TaxEstimator and         *)
(* UnitConversions.                                                        *)
(***************************************************************************)
EXTENDS FeeSplits, TaxEstimator, UnitConversions, CollectionFacts, SequenceTheorems

(***************************************************************************)
(* Sums of sequences                                                       *)
(***************************************************************************)

\* f[k] is the sum of the first k elements.
IsRunningSum(f, s) ==
  /\ f \in [0 .. Len(s) -> Int] /\ f[0] = 0
  /\ \A k \in 1 .. Len(s) : f[k] = f[k - 1] + s[k]

\* What holds of 0, and of k + 1 when it holds of k, holds of every number up to n.
LEMMA Upwards ==
  ASSUME NEW n \in Nat, NEW N, 0 \in N, \A k \in 0 .. n - 1 : k \in N => k + 1 \in N
  PROVE  \A k \in 0 .. n : k \in N
<1> DEFINE M == {k \in Nat : k <= n => k \in N}
<1>1. M \in SUBSET Nat /\ 0 \in M
  OBVIOUS
<1>2. \A k \in M : k + 1 \in M
  <2> SUFFICES ASSUME NEW k \in M, k + 1 <= n PROVE k + 1 \in N
    OBVIOUS
  <2>1. k \in 0 .. n - 1 /\ k \in N
    OBVIOUS
  <2>2. QED
    BY <2>1
<1>3. M = Nat
  <2> HIDE DEF M
  <2>1. QED
    BY <1>1, <1>2, Induction
<1>4. QED
  BY <1>3

\* The running sums of a sequence of numbers exist.
LEMMA RunningSumExists ==
  ASSUME NEW s \in Seq(Int)
  PROVE  \E f : IsRunningSum(f, s)
<1> DEFINE n == Len(s)
           Sums(k) == {f \in [0 .. k -> Int] : f[0] = 0 /\ \A j \in 1 .. k : f[j] = f[j - 1] + s[j]}
           N == {k \in 0 .. n : Sums(k) # {}}
<1>1. n \in Nat /\ \A k \in 1 .. n : s[k] \in Int
  OBVIOUS
<1>2. 0 \in N
  <2> DEFINE f == [k \in 0 .. 0 |-> 0]
  <2>1. f \in Sums(0)
    OBVIOUS
  <2>2. QED
    BY <1>1, <2>1
<1>3. ASSUME NEW k \in 0 .. n - 1, k \in N PROVE k + 1 \in N
  <2>1. PICK f \in Sums(k) : TRUE
    BY <1>3
  <2> DEFINE g == [j \in 0 .. k + 1 |-> IF j = k + 1 THEN f[k] + s[k + 1] ELSE f[j]]
  <2>2. k \in Nat /\ k + 1 \in 1 .. n /\ s[k + 1] \in Int
    BY <1>1
  <2>3. f \in [0 .. k -> Int] /\ f[0] = 0 /\ \A j \in 1 .. k : f[j] = f[j - 1] + s[j]
    BY <2>1
  <2>4. g \in [0 .. k + 1 -> Int] /\ g[0] = 0
    BY <2>2, <2>3
  <2>5. ASSUME NEW j \in 1 .. k + 1 PROVE g[j] = g[j - 1] + s[j]
    <3>1. CASE j = k + 1
      <4>1. g[j] = f[k] + s[k + 1] /\ j - 1 = k /\ g[k] = f[k]
        BY <2>2, <3>1
      <4>2. QED
        BY <3>1, <4>1
    <3>2. CASE j # k + 1
      <4>1. j \in 1 .. k /\ j - 1 \in 0 .. k /\ j - 1 # k + 1
        BY <2>2, <3>2
      <4>2. g[j] = f[j] /\ g[j - 1] = f[j - 1]
        BY <2>2, <4>1
      <4>3. QED
        BY <2>3, <4>1, <4>2
    <3>3. QED
      BY <3>1, <3>2
  <2> HIDE DEF g
  <2>6. g \in Sums(k + 1)
    BY <2>4, <2>5
  <2>7. k + 1 \in 0 .. n /\ Sums(k + 1) # {}
    <3> HIDE DEF Sums
    <3>1. QED
      BY <2>2, <2>6
  <2>8. QED
    BY <2>7
<1>4. n \in N
  <2> HIDE DEF N, n
  <2>1. \A k \in 0 .. n : k \in N
    BY <1>1, <1>2, <1>3, Upwards
  <2>2. QED
    BY <1>1, <2>1
<1>5. PICK f \in Sums(n) : TRUE
  BY <1>4
<1>6. IsRunningSum(f, s)
  BY <1>5 DEF IsRunningSum
<1>7. QED
  BY <1>6

\* SumOf is the last of them.
LEMMA SumOfIsTheLast ==
  ASSUME NEW s \in Seq(Int), NEW f, IsRunningSum(f, s)
  PROVE  SumOf(s) = f[Len(s)]
<1> DEFINE n == Len(s)
           IsSumOf(g) == g = [k \in 0 .. n |-> IF k = 0 THEN 0 ELSE g[k - 1] + s[k]]
           sum == CHOOSE g : IsSumOf(g)
<1>1. n \in Nat
  OBVIOUS
<1>2. /\ f \in [0 .. n -> Int] /\ f[0] = 0
      /\ \A k \in 1 .. n : f[k] = f[k - 1] + s[k]
  BY DEF IsRunningSum
<1>3. IsSumOf(f)
  <2>1. \A k \in 0 .. n : f[k] = IF k = 0 THEN 0 ELSE f[k - 1] + s[k]
    BY <1>1, <1>2
  <2>2. QED
    BY <1>2, <2>1
<1>4. IsSumOf(sum)
  <2> HIDE DEF IsSumOf
  <2>1. QED
    BY <1>3, Zenon
<1>5. \A k \in 0 .. n : sum[k] = IF k = 0 THEN 0 ELSE sum[k - 1] + s[k]
  <2> HIDE DEF sum
  <2>1. QED
    BY <1>4
<1>6. sum[n] = f[n]
  <2> HIDE DEF sum
  <2> DEFINE N == {k \in 0 .. n : sum[k] = f[k]}
  <2>1. 0 \in N
    BY <1>1, <1>2, <1>5
  <2>2. ASSUME NEW k \in 0 .. n - 1, k \in N PROVE k + 1 \in N
    <3>1. k + 1 \in 1 .. n /\ k + 1 \in 0 .. n /\ k + 1 # 0 /\ (k + 1) - 1 = k
      BY <1>1
    <3>2. sum[k + 1] = sum[k] + s[k + 1] /\ f[k + 1] = f[k] + s[k + 1]
      BY <1>2, <1>5, <3>1
    <3>3. QED
      BY <2>2, <3>1, <3>2
  <2>3. n \in N
    <3> HIDE DEF N, n
    <3>1. \A k \in 0 .. n : k \in N
      BY <1>1, <2>1, <2>2, Upwards
    <3>2. QED
      BY <1>1, <3>1
  <2>4. QED
    BY <2>3
<1>7. SumOf(s) = sum[n]
  BY DEF SumOf
<1>8. QED
  BY <1>6, <1>7

\* A sum is a number, that of nothing is 0, and one more element adds itself.
LEMMA SumType ==
  ASSUME NEW s \in Seq(Int)
  PROVE  SumOf(s) \in Int
<1>1. PICK f : IsRunningSum(f, s)
  BY RunningSumExists
<1>2. SumOf(s) = f[Len(s)]
  BY <1>1, SumOfIsTheLast
<1>3. QED
  BY <1>1, <1>2 DEF IsRunningSum

\* A sum grows by what is appended.
LEMMA SumOfAppend ==
  ASSUME NEW s \in Seq(Int), NEW x \in Int
  PROVE  SumOf(Append(s, x)) = SumOf(s) + x
<1> DEFINE n == Len(s)
           t == Append(s, x)
<1>1. PICK f : IsRunningSum(f, s)
  BY RunningSumExists
<1>2. /\ n \in Nat /\ f \in [0 .. n -> Int] /\ f[0] = 0
      /\ \A k \in 1 .. n : f[k] = f[k - 1] + s[k]
  BY <1>1 DEF IsRunningSum
<1>3. /\ t \in Seq(Int) /\ Len(t) = n + 1 /\ t[n + 1] = x
      /\ \A k \in 1 .. n : t[k] = s[k]
  OBVIOUS
<1> DEFINE g == [k \in 0 .. n + 1 |-> IF k = n + 1 THEN f[n] + x ELSE f[k]]
<1>4. g \in [0 .. n + 1 -> Int] /\ g[0] = 0 /\ g[n + 1] = f[n] + x
  BY <1>2
<1>5. ASSUME NEW k \in 1 .. n + 1 PROVE g[k] = g[k - 1] + t[k]
  <2>1. CASE k = n + 1
    <3>1. g[k] = f[n] + x /\ k - 1 = n /\ g[n] = f[n]
      BY <1>2, <2>1
    <3>2. QED
      BY <1>3, <2>1, <3>1
  <2>2. CASE k # n + 1
    <3>1. k \in 1 .. n /\ k - 1 \in 0 .. n /\ k - 1 # n + 1
      BY <1>2, <2>2
    <3>2. g[k] = f[k] /\ g[k - 1] = f[k - 1]
      BY <1>2, <3>1
    <3>3. QED
      BY <1>2, <1>3, <3>1, <3>2
  <2>3. QED
    BY <2>1, <2>2
<1> HIDE DEF g, t
<1>6. IsRunningSum(g, t)
  BY <1>3, <1>4, <1>5 DEF IsRunningSum
<1>7. SumOf(t) = g[n + 1]
  BY <1>3, <1>6, SumOfIsTheLast
<1>8. SumOf(s) = f[n]
  BY <1>1, SumOfIsTheLast
<1>9. QED
  BY <1>4, <1>7, <1>8 DEF t

\* The sums of no and of one or two numbers.
LEMMA SumOfNone == SumOf(<<>>) = 0
<1>1. <<>> \in Seq(Int) /\ Len(<<>>) = 0
  OBVIOUS
<1>2. PICK f : IsRunningSum(f, <<>>)
  BY <1>1, RunningSumExists
<1>3. SumOf(<<>>) = f[0] /\ f[0] = 0
  BY <1>1, <1>2, SumOfIsTheLast DEF IsRunningSum
<1>4. QED
  BY <1>3

LEMMA SumOfPair ==
  ASSUME NEW x \in Int, NEW y \in Int
  PROVE  SumOf(<<x>>) = x /\ SumOf(<<x, y>>) = x + y
<1>1. <<>> \in Seq(Int) /\ <<x>> \in Seq(Int)
  OBVIOUS
<1>2. <<x>> = Append(<<>>, x) /\ <<x, y>> = Append(<<x>>, y)
  OBVIOUS
<1>3. SumOf(<<x>>) = 0 + x
  BY <1>1, <1>2, SumOfAppend, SumOfNone
<1>4. SumOf(<<x, y>>) = SumOf(<<x>>) + y
  BY <1>1, <1>2, SumOfAppend
<1>5. QED
  BY <1>3, <1>4

\* A running sum ends each beginning of the sequence.
LEMMA SumOfBeginning ==
  ASSUME NEW s \in Seq(Int), NEW f, IsRunningSum(f, s), NEW n \in 0 .. Len(s)
  PROVE  SumOf(SubSeq(s, 1, n)) = f[n]
<1> DEFINE t == SubSeq(s, 1, n)
           g == [k \in 0 .. n |-> f[k]]
<1>1. /\ Len(s) \in Nat /\ f \in [0 .. Len(s) -> Int] /\ f[0] = 0
      /\ \A k \in 1 .. Len(s) : f[k] = f[k - 1] + s[k]
  BY DEF IsRunningSum
<1>2. t \in Seq(Int) /\ Len(t) = n /\ \A k \in 1 .. n : t[k] = s[k]
  <2>1. n \in Nat /\ n <= Len(s)
    BY <1>1
  <2>2. QED
    BY <1>1, <2>1
<1>3. g \in [0 .. n -> Int] /\ g[0] = 0 /\ g[n] = f[n]
  <2>1. 0 \in 0 .. n /\ n \in 0 .. n /\ \A k \in 0 .. n : k \in 0 .. Len(s)
    BY <1>1
  <2>2. \A k \in 0 .. n : f[k] \in Int
    BY <1>1, <2>1
  <2>3. QED
    BY <1>1, <2>1, <2>2
<1>4. \A k \in 1 .. n : g[k] = g[k - 1] + t[k]
  <2> SUFFICES ASSUME NEW k \in 1 .. n PROVE g[k] = g[k - 1] + t[k]
    OBVIOUS
  <2>1. k \in 0 .. n /\ k - 1 \in 0 .. n /\ k \in 1 .. Len(s)
    BY <1>1
  <2>2. g[k] = f[k] /\ g[k - 1] = f[k - 1]
    BY <2>1
  <2>3. QED
    BY <1>1, <1>2, <2>1, <2>2
<1> HIDE DEF g, t
<1>5. IsRunningSum(g, t)
  BY <1>2, <1>3, <1>4 DEF IsRunningSum
<1>6. SumOf(t) = g[n]
  BY <1>2, <1>5, SumOfIsTheLast
<1>7. QED
  BY <1>3, <1>6 DEF t

\* When no part is negative, no running sum is, nor more than the sum, nor is a part.
LEMMA RunningSumGrows ==
  ASSUME NEW s \in Seq(Int), NEW f, IsRunningSum(f, s), \A i \in 1 .. Len(s) : s[i] >= 0
  PROVE  \A k \in 0 .. Len(s) : f[k] \in 0 .. SumOf(s) /\ (k > 0 => s[k] \in 0 .. SumOf(s))
<1> DEFINE n == Len(s)
<1>1. /\ n \in Nat /\ f \in [0 .. n -> Int] /\ f[0] = 0
      /\ \A k \in 1 .. n : f[k] = f[k - 1] + s[k] /\ s[k] \in Int /\ s[k] >= 0
  BY DEF IsRunningSum
<1>2. SumOf(s) = f[n] /\ f[n] \in Int
  BY <1>1, SumOfIsTheLast
<1> HIDE DEF n
<1>3. \A k \in 0 .. n : f[k] >= 0
  <2> DEFINE N == {k \in 0 .. n : f[k] >= 0}
  <2>1. 0 \in N
    BY <1>1
  <2>2. ASSUME NEW k \in 0 .. n - 1, k \in N PROVE k + 1 \in N
    <3>1. k + 1 \in 1 .. n /\ (k + 1) - 1 = k /\ k \in 0 .. n /\ f[k] \in Int
      BY <1>1
    <3>2. f[k + 1] = f[k] + s[k + 1] /\ s[k + 1] \in Int /\ s[k + 1] >= 0 /\ f[k] >= 0
      BY <1>1, <2>2, <3>1
    <3>3. QED
      BY <3>1, <3>2
  <2> HIDE DEF N
  <2>3. \A k \in 0 .. n : k \in N
    BY <1>1, <2>1, <2>2, Upwards
  <2>4. QED
    BY <2>3 DEF N
<1>4. \A k \in 0 .. n : f[n - k] <= f[n]
  <2> DEFINE N == {k \in 0 .. n : f[n - k] <= f[n]}
  <2>1. 0 \in N
    BY <1>1
  <2>2. ASSUME NEW k \in 0 .. n - 1, k \in N PROVE k + 1 \in N
    <3>1. n - k \in 1 .. n /\ n - (k + 1) = (n - k) - 1 /\ n - (k + 1) \in 0 .. n /\ k + 1 \in 0 .. n
      BY <1>1
    <3>2. /\ f[n - k] = f[n - (k + 1)] + s[n - k] /\ s[n - k] \in Int /\ s[n - k] >= 0
          /\ f[n - k] <= f[n] /\ f[n - (k + 1)] \in Int /\ f[n] \in Int /\ f[n - k] \in Int
      BY <1>1, <2>2, <3>1
    <3>3. QED
      BY <3>1, <3>2
  <2> HIDE DEF N
  <2>3. \A k \in 0 .. n : k \in N
    BY <1>1, <2>1, <2>2, Upwards
  <2>4. QED
    BY <2>3 DEF N
<1>5. ASSUME NEW k \in 0 .. n PROVE f[k] \in 0 .. f[n]
  <2>1. n - k \in 0 .. n /\ n - (n - k) = k
    BY <1>1
  <2>2. f[n - (n - k)] <= f[n]
    BY <1>4, <2>1
  <2>3. f[k] <= f[n]
    BY <2>1, <2>2
  <2>4. f[k] >= 0 /\ f[k] \in Int /\ f[n] \in Int
    BY <1>1, <1>3
  <2>5. QED
    BY <2>3, <2>4
<1>6. ASSUME NEW k \in 1 .. n PROVE s[k] \in 0 .. f[n]
  <2>1. k \in 0 .. n /\ k - 1 \in 0 .. n
    BY <1>1
  <2>2. f[k] \in 0 .. f[n] /\ f[k - 1] \in 0 .. f[n] /\ f[n] \in Int
    BY <1>1, <1>5, <2>1
  <2>3. f[k] = f[k - 1] + s[k] /\ s[k] \in Int /\ s[k] >= 0
    BY <1>1
  <2>4. QED
    BY <2>2, <2>3
<1>7. QED
  <2>1. ASSUME NEW k \in 0 .. n PROVE k > 0 => k \in 1 .. n
    BY <1>1
  <2>2. QED
    BY <1>2, <1>5, <1>6, <2>1 DEF n

\* Two sequences with the same numbers have the same sum; a bound on each step bounds it.
LEMMA SumsCompare ==
  ASSUME NEW s \in Seq(Int), NEW f, IsRunningSum(f, s),
         NEW g \in [0 .. Len(s) -> Int], g[0] = 0,
         \A k \in 1 .. Len(s) : s[k] <= g[k] - g[k - 1]
  PROVE  \A k \in 0 .. Len(s) : f[k] <= g[k]
<1> DEFINE n == Len(s)
           N == {k \in 0 .. n : f[k] <= g[k]}
<1>1. /\ n \in Nat /\ f \in [0 .. n -> Int] /\ f[0] = 0
      /\ \A k \in 1 .. n : f[k] = f[k - 1] + s[k] /\ s[k] \in Int /\ s[k] <= g[k] - g[k - 1]
      /\ g \in [0 .. n -> Int] /\ g[0] = 0
  BY DEF IsRunningSum
<1> HIDE DEF n
<1>2. 0 \in N
  BY <1>1
<1>3. ASSUME NEW k \in 0 .. n - 1, k \in N PROVE k + 1 \in N
  <2>1. k + 1 \in 1 .. n /\ (k + 1) - 1 = k /\ k \in 0 .. n /\ k + 1 \in 0 .. n
    BY <1>1
  <2>2. /\ f[k + 1] = f[k] + s[k + 1] /\ s[k + 1] \in Int /\ s[k + 1] <= g[k + 1] - g[k] /\ f[k] <= g[k]
        /\ f[k] \in Int /\ g[k] \in Int /\ g[k + 1] \in Int
    BY <1>1, <1>3, <2>1
  <2>3. QED
    BY <2>1, <2>2
<1> HIDE DEF N
<1>4. \A k \in 0 .. n : k \in N
  BY <1>1, <1>2, <1>3, Upwards
<1>5. QED
  BY <1>4 DEF n, N

(***************************************************************************)
(* The checks of a division                                                *)
(***************************************************************************)

\* What SumLedgerAmounts has after the first k inputs.
LedgerSums(f, s) ==
  [k \in 0 .. Len(s) |->
     IF \A j \in 1 .. k : s[j] \in 0 .. MaxAmount /\ f[j] \in 0 .. MaxAmount THEN Ok(f[k]) ELSE Rejected]

\* A part given as a bigint is a ledger amount when it is one.
LEMMA BigintIsLedgerAmount ==
  ASSUME NEW x \in Int
  PROVE  IsLedgerAmount(Input("bigint", x)) <=> x \in 0 .. MaxAmount
  BY AmountsAssumption DEF IsLedgerAmount, IsInteger, Input, isAmountWithinRange, Abs

\* An outcome is accepted with one value, or rejected.
LEMMA OkOrRejected ==
  ASSUME NEW v
  PROVE  Ok(v).ok = TRUE /\ Ok(v).value = v /\ Rejected.ok = FALSE /\ Rejected # Ok(v)
         /\ \A w : Ok(v) = Ok(w) => v = w
  BY DEF Ok, Rejected

\* A running sum of ledger amounts is Ok as long as it is in range.
LEMMA LedgerSumsStep ==
  ASSUME NEW s \in Seq(Int), NEW f, IsRunningSum(f, s), NEW k \in 1 .. Len(s)
  PROVE  LedgerSums(f, s)[k] =
           IF /\ LedgerSums(f, s)[k - 1].ok /\ IsLedgerAmount(Bigints(s)[k])
              /\ isAmountWithinRange(LedgerSums(f, s)[k - 1].value + Bigints(s)[k].value)
           THEN Ok(LedgerSums(f, s)[k - 1].value + Bigints(s)[k].value) ELSE Rejected
<1> DEFINE n == Len(s)
           Good(j) == s[j] \in 0 .. MaxAmount /\ f[j] \in 0 .. MaxAmount
           h == LedgerSums(f, s)
<1>1. /\ n \in Nat /\ f \in [0 .. n -> Int] /\ f[0] = 0
      /\ \A j \in 1 .. n : f[j] = f[j - 1] + s[j] /\ s[j] \in Int
  BY DEF IsRunningSum
<1>2. k \in 0 .. n /\ k - 1 \in 0 .. n /\ k \in 1 .. k /\ k \in Int
      /\ (\A j \in 1 .. k - 1 : j \in 1 .. k) /\ (\A j \in 1 .. k : j \in 1 .. k - 1 \/ j = k)
  BY <1>1
<1>3. /\ h[k] = IF \A j \in 1 .. k : Good(j) THEN Ok(f[k]) ELSE Rejected
      /\ h[k - 1] = IF \A j \in 1 .. k - 1 : Good(j) THEN Ok(f[k - 1]) ELSE Rejected
  BY <1>2 DEF LedgerSums
<1>4. (\A j \in 1 .. k : Good(j)) <=> (\A j \in 1 .. k - 1 : Good(j)) /\ Good(k)
  <2> HIDE DEF Good
  <2>1. QED
    BY <1>2
<1>5. Bigints(s)[k] = Input("bigint", s[k]) /\ Bigints(s)[k].value = s[k] /\ s[k] \in Int
  <2>1. k \in DOMAIN s
    BY <1>2
  <2>2. QED
    BY <1>1, <2>1 DEF Bigints, Input
<1>6. IsLedgerAmount(Bigints(s)[k]) <=> s[k] \in 0 .. MaxAmount
  BY <1>5, BigintIsLedgerAmount
<1>7. f[k] = f[k - 1] + s[k] /\ f[k - 1] \in Int /\ f[k] \in Int
  BY <1>1, <1>2
<1>8. CASE \A j \in 1 .. k - 1 : Good(j)
  <2>1. h[k - 1].ok /\ h[k - 1].value = f[k - 1]
    BY <1>3, <1>8, OkOrRejected
  <2>2. f[k - 1] >= 0
    <3>1. CASE k = 1
      BY <1>1, <3>1
    <3>2. CASE k # 1
      <4>1. k - 1 \in 1 .. k - 1
        BY <3>2
      <4>2. QED
        BY <1>8, <4>1, AmountsAssumption
    <3>3. QED
      BY <3>1, <3>2
  <2>3. Good(k) <=> s[k] \in 0 .. MaxAmount /\ isAmountWithinRange(f[k - 1] + s[k])
    BY <1>5, <1>7, <2>2, AmountsAssumption DEF isAmountWithinRange
  <2> HIDE DEF Good, h
  <2>4. h[k] = IF Good(k) THEN Ok(f[k]) ELSE Rejected
    BY <1>3, <1>4, <1>8
  <2>5. QED
    BY <1>5, <1>6, <1>7, <2>1, <2>3, <2>4 DEF h
<1>9. CASE ~ \A j \in 1 .. k - 1 : Good(j)
  <2> HIDE DEF Good, h
  <2>1. h[k - 1] = Rejected /\ h[k] = Rejected
    BY <1>3, <1>4, <1>9
  <2>2. QED
    BY <2>1, OkOrRejected DEF h
<1>10. QED
  BY <1>8, <1>9

\* SumLedgerAmounts is the last of them.
LEMMA SumLedgerAmountsIsTheLast ==
  ASSUME NEW s \in Seq(Int), NEW f, IsRunningSum(f, s)
  PROVE  SumLedgerAmounts(Bigints(s)) = LedgerSums(f, s)[Len(s)]
<1> DEFINE n == Len(s)
           b == Bigints(s)
           h == LedgerSums(f, s)
           Next1(x, k) == IF x.ok /\ IsLedgerAmount(b[k]) /\ isAmountWithinRange(x.value + b[k].value)
                          THEN Ok(x.value + b[k].value) ELSE Rejected
           IsIt(g) == g = [k \in 0 .. n |-> IF k = 0 THEN Ok(0) ELSE Next1(g[k - 1], k)]
           sum == CHOOSE g : IsIt(g)
<1>1. n \in Nat /\ f[0] = 0
  BY DEF IsRunningSum
<1>2. Len(b) = n
  <2>1. b = [i \in 1 .. n |-> Input("bigint", s[i])]
    BY DEF Bigints
  <2>2. QED
    BY <1>1, <2>1
<1>3. h[0] = Ok(0) /\ \A k \in 1 .. n : h[k] = Next1(h[k - 1], k)
  <2>1. h[0] = Ok(0)
    BY <1>1 DEF LedgerSums
  <2>2. QED
    BY <2>1, LedgerSumsStep
<1>4. h = [k \in 0 .. n |-> h[k]]
  BY DEF LedgerSums
<1> HIDE DEF h, Next1, b
<1>5. IsIt(h)
  <2>1. \A k \in 0 .. n : h[k] = IF k = 0 THEN Ok(0) ELSE Next1(h[k - 1], k)
    BY <1>1, <1>3
  <2>2. QED
    BY <1>4, <2>1
<1>6. IsIt(sum)
  <2> HIDE DEF IsIt
  <2>1. QED
    BY <1>5, Zenon
<1>7. \A k \in 0 .. n : sum[k] = IF k = 0 THEN Ok(0) ELSE Next1(sum[k - 1], k)
  <2> HIDE DEF sum
  <2>1. QED
    BY <1>6
<1>8. sum[n] = h[n]
  <2> HIDE DEF sum
  <2> DEFINE N == {k \in 0 .. n : sum[k] = h[k]}
  <2>1. 0 \in N
    BY <1>1, <1>3, <1>7
  <2>2. ASSUME NEW k \in 0 .. n - 1, k \in N PROVE k + 1 \in N
    <3>1. k + 1 \in 1 .. n /\ k + 1 \in 0 .. n /\ k + 1 # 0 /\ (k + 1) - 1 = k
      BY <1>1
    <3>2. sum[k + 1] = Next1(sum[k], k + 1) /\ h[k + 1] = Next1(h[k], k + 1)
      BY <1>3, <1>7, <3>1
    <3>3. QED
      BY <2>2, <3>1, <3>2
  <2> HIDE DEF N, n
  <2>3. \A k \in 0 .. n : k \in N
    BY <1>1, <2>1, <2>2, Upwards
  <2>4. QED
    BY <1>1, <2>3 DEF N
<1>9. SumLedgerAmounts(b) = sum[n]
  BY <1>2 DEF SumLedgerAmounts, Next1
<1>10. QED
  BY <1>8, <1>9 DEF h, b

\* A division whose checked sum is the total sums up to it.
LEMMA CheckedSum ==
  ASSUME NEW s \in Seq(Int), NEW total, SumLedgerAmounts(Bigints(s)) = Ok(total)
  PROVE  SumOf(s) = total
<1>1. PICK f : IsRunningSum(f, s)
  BY RunningSumExists
<1>2. LedgerSums(f, s)[Len(s)] = Ok(total) /\ Len(s) \in 0 .. Len(s)
  BY <1>1, SumLedgerAmountsIsTheLast
<1>3. Ok(f[Len(s)]) = Ok(total)
  BY <1>2, OkOrRejected DEF LedgerSums
<1>4. QED
  BY <1>1, <1>3, SumOfIsTheLast, OkOrRejected

\* A division into parts that are not negative passes every check for its sum.
LEMMA ChecksAccept ==
  ASSUME NEW s \in Seq(Int), s # <<>>, NEW total \in 0 .. MaxAmount,
         \A i \in 1 .. Len(s) : s[i] >= 0, SumOf(s) = total
  PROVE  EveryCheckAccepts(s, total)
<1>1. PICK f : IsRunningSum(f, s)
  BY RunningSumExists
<1>2. \A k \in 0 .. Len(s) : f[k] \in 0 .. total /\ (k > 0 => s[k] \in 0 .. total)
  BY <1>1, RunningSumGrows
<1>3. total \in Nat /\ total <= MaxAmount /\ MaxAmount \in Nat /\ Len(s) \in Nat
  BY AmountsAssumption
<1>4. \A k \in 1 .. Len(s) : f[k] \in 0 .. MaxAmount /\ s[k] \in 0 .. MaxAmount
  <2> SUFFICES ASSUME NEW k \in 1 .. Len(s) PROVE f[k] \in 0 .. MaxAmount /\ s[k] \in 0 .. MaxAmount
    OBVIOUS
  <2>1. k \in 0 .. Len(s) /\ k > 0
    BY <1>3
  <2>2. f[k] \in 0 .. total /\ s[k] \in 0 .. total
    BY <1>2, <2>1
  <2>3. QED
    BY <1>3, <2>2
<1>5. SumLedgerAmounts(Bigints(s)) = Ok(total)
  <2>1. Len(s) \in 0 .. Len(s)
    BY <1>3
  <2>2. LedgerSums(f, s)[Len(s)] = Ok(f[Len(s)])
    BY <1>4, <2>1 DEF LedgerSums
  <2>3. QED
    BY <1>1, <2>2, SumLedgerAmountsIsTheLast, SumOfIsTheLast
<1>6. \A n \in DOMAIN s : isAmountWithinRange(SumOf(SubSeq(s, 1, n)))
  <2> SUFFICES ASSUME NEW n \in 1 .. Len(s) PROVE isAmountWithinRange(SumOf(SubSeq(s, 1, n)))
    OBVIOUS
  <2>1. n \in 0 .. Len(s)
    BY <1>3
  <2>2. SumOf(SubSeq(s, 1, n)) = f[n]
    BY <1>1, <2>1, SumOfBeginning
  <2>3. QED
    BY <1>3, <1>4, <2>2 DEF isAmountWithinRange
<1>7. \A i \in DOMAIN s : IsLedgerAmount(Input("bigint", s[i]))
  BY <1>4, BigintIsLedgerAmount
<1>8. QED
  BY <1>3, <1>5, <1>6, <1>7 DEF EveryCheckAccepts, verifyFeeAllocation, assertLedgerSplitSum,
     assertConversionSplitSum, validateSplitSum, checkFeeShareCalculation

(***************************************************************************)
(* Quotients                                                               *)
(***************************************************************************)

\* A product is a number, and more of it is more.
LEMMA Product == ASSUME NEW a \in Int, NEW b \in Int PROVE a * b \in Int /\ a * b = b * a
  OBVIOUS

\* The quotient of a number by itself times another.
LEMMA Between ==
  ASSUME NEW d \in Nat \ {0}, NEW p \in Int, NEW q \in Int, p * d < q * d + d
  PROVE  p <= q
<1> SUFFICES ASSUME q + 1 <= p PROVE FALSE
  OBVIOUS
<1>1. (q + 1) * d <= p * d
  BY Times
<1>2. (q + 1) * d = q * d + d
  OBVIOUS
<1>3. p * d \in Int /\ q * d \in Int
  BY Product
<1>4. QED
  BY <1>1, <1>2, <1>3

\* Division of BigInts drops the fraction.
LEMMA QuotientFacts ==
  ASSUME NEW n \in Int, NEW d \in Nat \ {0}
  PROVE  /\ Quotient(n, d) \in Int
         /\ n >= 0 => Quotient(n, d) >= 0 /\ Quotient(n, d) * d <= n /\ n < Quotient(n, d) * d + d
         /\ n < 0 => Quotient(n, d) <= 0 /\ Quotient(n, d) * d >= n /\ n > Quotient(n, d) * d - d
<1> DEFINE q == Quotient(n, d)
<1>1. CASE n >= 0
  <2>1. n \in Nat /\ q = n \div d
    BY <1>1 DEF Quotient
  <2>2. QED
    BY <1>1, <2>1, Division
<1>2. CASE n < 0
  <2> DEFINE p == (-n) \div d
  <2>1. -n \in Nat /\ q = -p
    BY <1>2 DEF Quotient
  <2>2. p \in Nat /\ p * d <= -n /\ -n < p * d + d
    BY <2>1, Division
  <2> HIDE DEF p
  <2>3. q * d = -(p * d) /\ p * d \in Int
    BY <2>1, <2>2
  <2> HIDE DEF q
  <2>4. QED
    BY <1>2, <2>1, <2>2, <2>3 DEF q
<1>3. QED
  BY <1>1, <1>2

\* What a product with the next number is.
LEMMA NextProduct ==
  ASSUME NEW q \in Int, NEW d \in Int
  PROVE  q * d \in Int /\ d * q = q * d /\ (q + 1) * d = q * d + d /\ (q - 1) * d = q * d - d
  OBVIOUS

\* The arithmetic of products and of parity the provers need spelled out.
LEMMA Distributes ==
  ASSUME NEW a \in Int, NEW b \in Int, NEW c \in Int
  PROVE  /\ a * c \in Int /\ b * c \in Int /\ c * a \in Int /\ c * b \in Int
         /\ (a + b) * c = a * c + b * c
         /\ c * (a + b) = c * a + c * b
  OBVIOUS

LEMMA OddAndEven ==
  ASSUME NEW q \in Int, q % 2 # 0
  PROVE  (q + 1) % 2 = 0 /\ (q - 1) % 2 = 0
  OBVIOUS

\* The rounding of a quotient is what its mode says.
LEMMA DivRoundIsRounded ==
  ASSUME NEW n \in Int, NEW d \in Int \ {0}, NEW mode \in RoundingModes
  PROVE  divRound(n, d, mode) \in Int /\ RoundedAs(n, d, normalizeRoundingMode(mode), divRound(n, d, mode))
<1> DEFINE m == normalizeRoundingMode(mode)
           N == IF d < 0 THEN -n ELSE n
           D == Abs(d)
           q == Quotient(N, D)
           r == Remainder(N, D)
           twice == 2 * Abs(r)
           away == IF N >= 0 THEN q + 1 ELSE q - 1
           up == \/ m = "floor" /\ N < 0
                 \/ m = "ceil" /\ N > 0
                 \/ m = "half-up" /\ twice >= D
                 \/ m = "half-even" /\ (twice > D \/ (twice = D /\ q % 2 # 0))
           res == IF twice # 0 /\ up THEN away ELSE q
           x == q * D
           y == res * D
<1>1. divRound(n, d, mode) = res
  BY DEF divRound
<1>2. N \in Int /\ D \in Nat \ {0} /\ D \in Int
  BY DEF Abs
<1>3. m \in {"truncate", "floor", "ceil", "half-up", "half-even"}
  BY DEF RoundingModes, normalizeRoundingMode
<1> HIDE DEF N, D, m
<1>4. /\ q \in Int
      /\ N >= 0 => q >= 0 /\ x <= N /\ N < x + D
      /\ N < 0 => q <= 0 /\ x >= N /\ N > x - D
  BY <1>2, QuotientFacts
<1>5. r = N - D * q
  BY DEF Remainder
<1> HIDE DEF q
<1>6. x \in Int /\ D * q = x /\ (q + 1) * D = x + D /\ (q - 1) * D = x - D
  BY <1>2, <1>4, NextProduct
<1>7. res \in {q, away} /\ res \in Int
  BY <1>4
<1>8. y = IF res = q THEN x ELSE IF N >= 0 THEN x + D ELSE x - D
  BY <1>4, <1>6
<1>9. r = N - x /\ r \in Int /\ twice \in Nat
  BY <1>2, <1>5, <1>6 DEF Abs
<1> HIDE DEF x, y, r
<1>10. /\ Abs(N - y) < D
       /\ m = "truncate" => Abs(y) <= Abs(N)
       /\ m = "floor" => y <= N
       /\ m = "ceil" => y >= N
       /\ m = "half-up" => 2 * Abs(N - y) <= D /\ (2 * Abs(N - y) = D => Abs(y) > Abs(N))
       /\ m = "half-even" => 2 * Abs(N - y) <= D /\ (2 * Abs(N - y) = D => res % 2 = 0)
  <2>0. y \in Int
    BY <1>2, <1>6, <1>8
  <2>1. CASE N >= 0
    <3>1. r >= 0 /\ r < D /\ twice = 2 * r /\ x >= 0 /\ away = q + 1
      <4>1. x >= 0
        BY <1>2, <1>4, <2>1 DEF x
      <4>2. QED
        BY <1>2, <1>4, <1>6, <1>9, <2>1, <4>1 DEF Abs
    <3>2. CASE res = q
      <4>1. y = x /\ (twice = 0 \/ ~ up)
        BY <1>4, <1>8, <3>1, <3>2
      <4>2. N - y = r
        BY <1>9, <4>1
      <4>3. ~ up \/ r = 0
        BY <1>9, <3>1, <4>1
      <4>4. Abs(N - y) = r /\ Abs(y) = x /\ Abs(N) = N
        BY <1>6, <1>9, <2>1, <3>1, <4>1, <4>2 DEF Abs
      <4>5. QED
        BY <1>2, <1>4, <1>6, <1>9, <2>1, <3>1, <3>2, <4>1, <4>3, <4>4
    <3>3. CASE res # q
      <4>1. y = x + D /\ up /\ res = q + 1 /\ twice # 0
        BY <1>4, <1>8, <2>1, <3>1, <3>3
      <4>2. Abs(N - y) = D - r /\ Abs(y) = x + D /\ Abs(N) = N
        BY <1>2, <1>6, <1>9, <2>1, <3>1, <4>1 DEF Abs
      <4>3. m = "half-even" /\ twice = D => res % 2 = 0
        BY <1>2, <1>4, <1>9, <2>1, <4>1, OddAndEven
      <4>4. m # "truncate" /\ m # "floor"
        BY <2>1, <4>1, <1>2
      <4>5. QED
        BY <1>2, <1>3, <1>4, <1>6, <1>9, <2>1, <3>1, <4>1, <4>2, <4>3, <4>4
    <3>4. QED
      BY <3>2, <3>3
  <2>2. CASE N < 0
    <3>1. r <= 0 /\ -D < r /\ twice = -2 * r /\ x <= 0 /\ away = q - 1
      <4>1. x <= 0
        BY <1>2, <1>4, <2>2 DEF x
      <4>2. QED
        BY <1>2, <1>4, <1>6, <1>9, <2>2, <4>1 DEF Abs
    <3>2. CASE res = q
      <4>1. y = x /\ (twice = 0 \/ ~ up)
        BY <1>4, <1>8, <3>1, <3>2
      <4>2. N - y = r
        BY <1>9, <4>1
      <4>3. ~ up \/ r = 0
        BY <1>9, <3>1, <4>1
      <4>4. Abs(N - y) = -r /\ Abs(y) = -x /\ Abs(N) = -N
        BY <1>2, <1>6, <1>9, <2>2, <3>1, <4>1, <4>2 DEF Abs
      <4>5. QED
        BY <1>2, <1>4, <1>6, <1>9, <2>2, <3>1, <3>2, <4>1, <4>3, <4>4
    <3>3. CASE res # q
      <4>1. y = x - D /\ up /\ res = q - 1 /\ twice # 0
        BY <1>2, <1>4, <1>8, <2>2, <3>1, <3>3
      <4>2. Abs(N - y) = D + r /\ Abs(y) = D - x /\ Abs(N) = -N
        BY <1>2, <1>6, <1>9, <2>2, <3>1, <4>1 DEF Abs
      <4>3. m = "half-even" /\ twice = D => res % 2 = 0
        BY <1>2, <1>4, <1>9, <2>2, <4>1, OddAndEven
      <4>4. m # "truncate" /\ m # "ceil"
        BY <1>2, <2>2, <4>1
      <4>5. QED
        BY <1>2, <1>3, <1>4, <1>6, <1>9, <2>2, <3>1, <4>1, <4>2, <4>3, <4>4
    <3>4. QED
      BY <3>2, <3>3
  <2>3. QED
    BY <1>2, <2>1, <2>2
<1> HIDE DEF res
<1>11. RoundedAs(n, d, m, res)
  BY <1>3, <1>10 DEF RoundedAs, N, D, y
<1>12. QED
  BY <1>1, <1>7, <1>11 DEF m

(***************************************************************************)
(* FeeSplits                                                               *)
(***************************************************************************)

\* What SplitsAreExact says of one division.
IsExact(d) ==
  LET parts == d.outcome.parts
  IN d.outcome.ok =>
       /\ SumOf(parts) + d.outcome.rest = d.total
       /\ d.total >= 0 => \A i \in DOMAIN parts : parts[i] >= 0
       /\ d.total >= 0 => d.outcome.rest \in 0 .. Len(parts)
       /\ \A i \in DOMAIN d.weights :
            Abs(parts[i] * d.whole - d.total * d.weights[i]) <= d.whole
       /\ d.op \in HalfEven => RoundedAs(d.total * d.weights[1], d.whole, "half-even", parts[1])
       /\ d.total >= 0 /\ d.outcome.rest = 0 => EveryCheckAccepts(parts, d.total)

\* A rejected division promises nothing.
LEMMA RejectedIsExact ==
  ASSUME NEW op, NEW total, NEW weights, NEW whole
  PROVE  IsExact(DivisionOf(op, total, weights, whole, Rejected))
  BY DEF IsExact, DivisionOf, Rejected

\* A division is exact when its parts are: the checks follow.
LEMMA ExactWhen ==
  ASSUME NEW op, NEW total \in Int, total <= MaxAmount, NEW weights, NEW whole,
         NEW parts \in Seq(Int), parts # <<>>, NEW rest \in Int,
         SumOf(parts) + rest = total,
         total >= 0 => (\A i \in 1 .. Len(parts) : parts[i] >= 0) /\ rest \in 0 .. Len(parts),
         \A i \in DOMAIN weights : Abs(parts[i] * whole - total * weights[i]) <= whole,
         op \in HalfEven => RoundedAs(total * weights[1], whole, "half-even", parts[1])
  PROVE  IsExact(DivisionOf(op, total, weights, whole, Parts(parts, rest)))
<1> DEFINE d == DivisionOf(op, total, weights, whole, Parts(parts, rest))
<1>1. /\ d.op = op /\ d.total = total /\ d.weights = weights /\ d.whole = whole
      /\ d.outcome.ok = TRUE /\ d.outcome.parts = parts /\ d.outcome.rest = rest
  BY DEF DivisionOf, Parts
<1> HIDE DEF d
<1>2. ASSUME total >= 0, rest = 0 PROVE EveryCheckAccepts(parts, total)
  <2>1. SumOf(parts) = total /\ total \in 0 .. MaxAmount
    BY <1>2, AmountsAssumption, SumType
  <2>2. QED
    BY <1>2, <2>1, ChecksAccept
<1>3. QED
  BY <1>1, <1>2 DEF IsExact, d

\* Each weight's share of the total with the fraction dropped.
LEMMA TruncatedParts ==
  ASSUME NEW weights \in Seq(Int), NEW total \in Int, NEW whole \in Nat \ {0}
  PROVE  LET parts == Truncated(total, weights, whole)
         IN /\ parts \in Seq(Int) /\ Len(parts) = Len(weights)
            /\ \A i \in 1 .. Len(weights) : Abs(parts[i] * whole - total * weights[i]) < whole
<1> DEFINE parts == Truncated(total, weights, whole)
<1>1. /\ Len(weights) \in Nat /\ \A i \in 1 .. Len(weights) : weights[i] \in Int
      /\ DOMAIN weights = 1 .. Len(weights)
  OBVIOUS
<1>2. parts = [i \in 1 .. Len(weights) |-> Quotient(total * weights[i], whole)]
  BY <1>1 DEF Truncated
<1>3. ASSUME NEW i \in 1 .. Len(weights)
      PROVE  /\ parts[i] \in Int
             /\ Abs(parts[i] * whole - total * weights[i]) < whole
  <2> DEFINE n == total * weights[i]
             q == Quotient(n, whole)
             x == q * whole
  <2>1. n \in Int
    BY <1>1
  <2> HIDE DEF n
  <2>2. /\ q \in Int
        /\ n >= 0 => q >= 0 /\ x <= n /\ n < x + whole
        /\ n < 0 => q <= 0 /\ x >= n /\ n > x - whole
    BY <2>1, QuotientFacts
  <2> HIDE DEF q
  <2>3. x \in Int
    BY <2>2
  <2> HIDE DEF x
  <2>4. Abs(x - n) < whole
    BY <2>1, <2>2, <2>3 DEF Abs
  <2>5. QED
    BY <1>2, <2>2, <2>4 DEF n, q, x
<1> HIDE DEF parts
<1>4. parts \in Seq(Int) /\ Len(parts) = Len(weights)
  BY <1>1, <1>2, <1>3
<1>5. QED
  BY <1>3, <1>4 DEF parts

\* The parts of an amount are not negative, and each leaves less than a unit over.
LEMMA TruncatedShares ==
  ASSUME NEW weights \in Seq(Nat), NEW total \in Nat, SumOf(weights) > 0
  PROVE  LET parts == Truncated(total, weights, SumOf(weights))
         IN /\ \A i \in 1 .. Len(parts) : parts[i] >= 0
            /\ Len(parts) > 0 /\ total - SumOf(parts) \in 0 .. Len(parts) - 1
<1> DEFINE W == SumOf(weights)
           n == Len(weights)
           parts == Truncated(total, weights, W)
<1>1. /\ weights \in Seq(Int) /\ n \in Nat
      /\ \A i \in 1 .. n : weights[i] \in Nat
      /\ DOMAIN weights = 1 .. n
  OBVIOUS
<1>2. W \in Nat \ {0}
  BY <1>1, SumType
<1>3. n > 0
  <2>1. ASSUME n = 0 PROVE FALSE
    <3>1. weights = <<>>
      BY <1>1, <2>1
    <3>2. QED
      BY <3>1, SumOfNone
  <2>2. QED
    BY <1>1, <2>1
<1>4. parts \in Seq(Int) /\ Len(parts) = n
  BY <1>1, <1>2, TruncatedParts
<1>5. parts = [i \in 1 .. n |-> Quotient(total * weights[i], W)]
  BY <1>1 DEF Truncated
<1>6. ASSUME NEW i \in 1 .. n
      PROVE  /\ parts[i] \in Nat /\ parts[i] * W <= total * weights[i]
             /\ total * weights[i] < parts[i] * W + W
  <2> DEFINE a == total * weights[i]
  <2>1. a \in Nat
    BY <1>1
  <2> HIDE DEF a
  <2>2. /\ Quotient(a, W) \in Int /\ Quotient(a, W) >= 0
        /\ Quotient(a, W) * W <= a /\ a < Quotient(a, W) * W + W
    <3>1. a \in Int /\ a >= 0
      BY <2>1
    <3> HIDE DEF W
    <3>2. QED
      BY <1>2, <3>1, QuotientFacts
  <2>3. QED
    BY <1>5, <2>2 DEF a
<1>7. PICK w : IsRunningSum(w, weights)
  BY <1>1, RunningSumExists
<1>8. PICK f : IsRunningSum(f, parts)
  BY <1>4, RunningSumExists
<1>9. /\ w \in [0 .. n -> Int] /\ w[0] = 0 /\ w[n] = W
      /\ \A k \in 1 .. n : w[k] = w[k - 1] + weights[k]
  BY <1>1, <1>7, SumOfIsTheLast DEF IsRunningSum
<1>10. /\ f \in [0 .. n -> Int] /\ f[0] = 0 /\ f[n] = SumOf(parts)
       /\ \A k \in 1 .. n : f[k] = f[k - 1] + parts[k]
  BY <1>4, <1>8, SumOfIsTheLast DEF IsRunningSum
<1> HIDE DEF W, parts, n
<1> DEFINE N == {k \in 0 .. n : f[k] * W <= total * w[k] /\ (k > 0 => total * w[k] < f[k] * W + k * W)}
<1>11. 0 \in N
  BY <1>1, <1>2, <1>9, <1>10
<1>12. ASSUME NEW k \in 0 .. n - 1, k \in N PROVE k + 1 \in N
  <2>1. /\ k + 1 \in 1 .. n /\ (k + 1) - 1 = k /\ k \in 0 .. n /\ k + 1 \in 0 .. n
        /\ f[k] \in Int /\ w[k] \in Int /\ k \in Int
    BY <1>1, <1>9, <1>10
  <2>2. /\ f[k + 1] = f[k] + parts[k + 1] /\ w[k + 1] = w[k] + weights[k + 1]
        /\ weights[k + 1] \in Nat /\ parts[k + 1] \in Nat
        /\ parts[k + 1] * W <= total * weights[k + 1]
        /\ total * weights[k + 1] < parts[k + 1] * W + W
    BY <1>1, <1>6, <1>9, <1>10, <2>1
  <2>3. f[k] * W <= total * w[k] /\ total * w[k] <= f[k] * W + k * W
    <3>1. CASE k = 0
      <4>1. f[k] = 0 /\ w[k] = 0
        BY <1>9, <1>10, <3>1
      <4>2. 0 * W = 0 /\ total * 0 = 0
        BY <1>2
      <4>3. QED
        BY <3>1, <4>1, <4>2
    <3>2. CASE k # 0
      <4>1. f[k] * W \in Int /\ k * W \in Int /\ total * w[k] \in Int
        BY <1>2, <2>1
      <4>2. k > 0
        BY <2>1, <3>2
      <4>3. f[k] * W <= total * w[k] /\ total * w[k] < f[k] * W + k * W
        BY <1>12, <4>2
      <4>4. QED
        BY <4>1, <4>3
    <3>3. QED
      BY <3>1, <3>2
  <2>4. /\ f[k + 1] * W = f[k] * W + parts[k + 1] * W
        /\ total * w[k + 1] = total * w[k] + total * weights[k + 1]
        /\ (k + 1) * W = k * W + W
    <3>1. /\ W \in Int /\ total \in Int /\ parts[k + 1] \in Int /\ weights[k + 1] \in Int
          /\ f[k] \in Int /\ w[k] \in Int /\ k \in Int
      BY <1>2, <2>1, <2>2
    <3>2. (f[k] + parts[k + 1]) * W = f[k] * W + parts[k + 1] * W
      BY <3>1, Distributes
    <3>3. total * (w[k] + weights[k + 1]) = total * w[k] + total * weights[k + 1]
      BY <3>1, Distributes
    <3>4. (k + 1) * W = k * W + W
      BY <3>1, NextProduct
    <3>5. QED
      BY <2>2, <3>2, <3>3, <3>4
  <2>5. /\ f[k] * W \in Int /\ parts[k + 1] * W \in Int /\ total * w[k] \in Int
        /\ total * weights[k + 1] \in Int /\ k * W \in Int /\ W \in Int
    <3>1. /\ W \in Int /\ total \in Int /\ parts[k + 1] \in Int /\ weights[k + 1] \in Int
          /\ f[k] \in Int /\ w[k] \in Int /\ k \in Int
      BY <1>2, <2>1, <2>2
    <3>2. QED
      BY <3>1, Product
  <2>6. f[k + 1] * W <= total * w[k + 1] /\ total * w[k + 1] < f[k + 1] * W + (k + 1) * W
    <3> DEFINE fk == f[k] * W
               pk == parts[k + 1] * W
               tw == total * w[k]
               tx == total * weights[k + 1]
               kW == k * W
    <3>1. /\ fk \in Int /\ pk \in Int /\ tw \in Int /\ tx \in Int /\ kW \in Int /\ W \in Int
          /\ fk <= tw /\ tw <= fk + kW /\ pk <= tx /\ tx < pk + W
          /\ f[k + 1] * W = fk + pk /\ total * w[k + 1] = tw + tx /\ (k + 1) * W = kW + W
      BY <2>2, <2>3, <2>4, <2>5
    <3> HIDE DEF fk, pk, tw, tx, kW
    <3>2. fk + pk <= tw + tx /\ tw + tx < (fk + pk) + (kW + W)
      BY <3>1
    <3>3. QED
      BY <3>1, <3>2
  <2>7. QED
    BY <2>1, <2>6
<1>13. n \in N
  <2> HIDE DEF N
  <2>1. \A k \in 0 .. n : k \in N
    BY <1>1, <1>11, <1>12, Upwards
  <2>2. QED
    BY <1>1, <2>1
<1>14. f[n] \in Int /\ f[n] * W <= total * W /\ total * W < f[n] * W + n * W
  <2>1. n \in 0 .. n
    BY <1>1
  <2>2. QED
    BY <1>3, <1>9, <1>10, <1>13, <2>1
<1>15. f[n] <= total
  <2>1. f[n] * W \in Int /\ total * W \in Int /\ f[n] * W < total * W + W
    BY <1>2, <1>14
  <2>2. QED
    BY <1>2, <1>14, <2>1, Between
<1>16. total <= f[n] + (n - 1)
  <2>0. f[n] \in Int /\ n - 1 \in Int /\ n \in Int /\ W \in Int
    BY <1>1, <1>2, <1>14
  <2>1. (f[n] + (n - 1)) * W = f[n] * W + n * W - W
    <3>1. (f[n] + (n - 1)) * W = f[n] * W + (n - 1) * W
      <4> DEFINE a == f[n]
                 b == n - 1
      <4>1. a \in Int /\ b \in Int /\ W \in Int
        BY <2>0
      <4> HIDE DEF a, b
      <4>2. (a + b) * W = a * W + b * W
        BY <4>1, Distributes
      <4>3. QED
        BY <4>2 DEF a, b
    <3>2. (n - 1) * W = n * W - W /\ n * W \in Int /\ f[n] * W \in Int
      BY <2>0, NextProduct, Product
    <3>3. QED
      BY <2>0, <3>1, <3>2
  <2>2. f[n] * W \in Int /\ n * W \in Int /\ total * W \in Int
    <3>1. total \in Int
      OBVIOUS
    <3>2. QED
      BY <2>0, <3>1, Product
  <2>3. total * W < (f[n] + (n - 1)) * W + W
    BY <1>14, <2>0, <2>1, <2>2
  <2>4. QED
    BY <1>1, <1>2, <1>14, <2>3, Between
<1>17. total - SumOf(parts) \in 0 .. n - 1
  BY <1>1, <1>10, <1>14, <1>15, <1>16
<1>18. \A i \in 1 .. n : parts[i] >= 0
  BY <1>6
<1>19. QED
  BY <1>3, <1>4, <1>17, <1>18 DEF W, parts

\* A division by the caller, checked.
LEMMA CalculateFeeAllocation ==
  ASSUME NEW op, op \notin HalfEven, NEW total \in Int, total <= MaxAmount,
         NEW amounts \in Seq(Int), NEW weights, NEW whole \in Int,
         \A i \in DOMAIN weights : Abs(amounts[i] * whole - total * weights[i]) <= whole
  PROVE  IsExact(DivisionOf(op, total, weights, whole, calculateFeeAllocation(total, amounts)))
<1>1. CASE calculateFeeAllocation(total, amounts) = Rejected
  BY <1>1, RejectedIsExact
<1>2. CASE calculateFeeAllocation(total, amounts) # Rejected
  <2>1. /\ amounts # <<>> /\ \A i \in DOMAIN amounts : amounts[i] \in 0 .. total
        /\ SumLedgerAmounts(Bigints(amounts)) = Ok(total)
        /\ calculateFeeAllocation(total, amounts) = Parts(amounts, 0)
    BY <1>2 DEF calculateFeeAllocation
  <2>2. SumOf(amounts) = total /\ SumOf(amounts) + 0 = total
    BY <2>1, CheckedSum
  <2>3. (\A i \in 1 .. Len(amounts) : amounts[i] >= 0) /\ 0 \in 0 .. Len(amounts)
    BY <2>1
  <2>4. IsExact(DivisionOf(op, total, weights, whole, Parts(amounts, 0)))
    BY <2>1, <2>2, <2>3, ExactWhen
  <2>5. QED
    BY <2>1, <2>4
<1>3. QED
  BY <1>1, <1>2

\* The division of each function is exact, one lemma for each.
LEMMA AllocatePayment ==
  ASSUME NEW total \in Int, total <= MaxAmount, NEW amounts \in Seq(Int)
  PROVE  IsExact(DivisionOf("allocatePayment", total, <<>>, 1, allocatePayment(total, amounts)))
<1>1. CASE allocatePayment(total, amounts) = Rejected
  BY <1>1, RejectedIsExact
<1>2. CASE allocatePayment(total, amounts) # Rejected
  <2>1. /\ amounts # <<>> /\ \A i \in DOMAIN amounts : amounts[i] \in 0 .. total
        /\ SumOf(amounts) = total /\ allocatePayment(total, amounts) = Parts(amounts, 0)
    BY <1>2 DEF allocatePayment
  <2>2. SumOf(amounts) + 0 = total
    BY <2>1
  <2>3. (\A i \in 1 .. Len(amounts) : amounts[i] >= 0) /\ 0 \in 0 .. Len(amounts)
    BY <2>1
  <2>4. \A i \in DOMAIN <<>> : Abs(amounts[i] * 1 - total * (<<>>)[i]) <= 1
    OBVIOUS
  <2>5. "allocatePayment" \notin HalfEven
    BY DEF HalfEven
  <2>6. IsExact(DivisionOf("allocatePayment", total, <<>>, 1, Parts(amounts, 0)))
    BY <2>1, <2>2, <2>3, <2>4, <2>5, ExactWhen
  <2>7. QED
    BY <2>1, <2>6
<1>3. QED
  BY <1>1, <1>2

\* Percentages: all but the last part are their truncated shares.
LEMMA CalculatePercentages ==
  ASSUME NEW total \in Int, total <= MaxAmount, NEW percentages \in Seq(Int)
  PROVE  IsExact(DivisionOf("calculatePercentageFeeAllocation", total,
           SubSeq(basisPoints(percentages), 1, Len(percentages) - 1), Bps,
           calculatePercentageFeeAllocation(total, percentages)))
<1> DEFINE bps == basisPoints(percentages)
           n == Len(percentages)
           weights == SubSeq(bps, 1, n - 1)
           amounts == Truncated(total, bps, Bps)
           dust == total - SumOf(amounts)
           given == IF dust > 0 THEN [amounts EXCEPT ![Len(amounts)] = @ + dust] ELSE amounts
           op == "calculatePercentageFeeAllocation"
<1>0. n \in Nat /\ \A i \in 1 .. n : percentages[i] \in Int
  OBVIOUS
<1>1. bps \in Seq(Int) /\ Len(bps) = n
  <2>1. bps = [i \in 1 .. n |-> (percentages[i] + 1) \div 2]
    BY DEF basisPoints
  <2>2. \A i \in 1 .. n : (percentages[i] + 1) \div 2 \in Int
    BY <1>0
  <2> HIDE DEF bps
  <2>3. QED
    BY <1>0, <2>1, <2>2
<1> HIDE DEF bps
<1>2. /\ amounts \in Seq(Int) /\ Len(amounts) = n
      /\ \A i \in 1 .. n : Abs(amounts[i] * Bps - total * bps[i]) < Bps
  BY <1>1, SplitsAssumption, TruncatedParts
<1> HIDE DEF amounts
<1>3. dust \in Int
  BY <1>2, SumType
<1> HIDE DEF dust
<1>4. CASE percentages = <<>> \/ SumOf(percentages) # 2 * Bps
  <2>1. calculatePercentageFeeAllocation(total, percentages) = Rejected
    BY <1>4 DEF calculatePercentageFeeAllocation
  <2>2. QED
    BY <2>1, RejectedIsExact
<1>5. CASE percentages # <<>> /\ SumOf(percentages) = 2 * Bps
  <2>1. calculatePercentageFeeAllocation(total, percentages) = calculateFeeAllocation(total, given)
    BY <1>5 DEF calculatePercentageFeeAllocation, dust, amounts, bps
  <2>2. n > 0
    BY <1>0, <1>5
  <2>3. given \in Seq(Int) /\ \A i \in 1 .. n - 1 : given[i] = amounts[i]
    BY <1>0, <1>2, <1>3, <2>2
  <2>4. DOMAIN weights = 1 .. n - 1 /\ \A i \in 1 .. n - 1 : weights[i] = bps[i]
    BY <1>0, <1>1, <2>2
  <2> HIDE DEF given, weights
  <2>5. ASSUME NEW i \in DOMAIN weights PROVE Abs(given[i] * Bps - total * weights[i]) <= Bps
    <3>1. i \in 1 .. n - 1 /\ i \in 1 .. n
      BY <1>0, <2>4
    <3>2. given[i] = amounts[i] /\ weights[i] = bps[i] /\ amounts[i] \in Int /\ bps[i] \in Int
      <4>1. given[i] = amounts[i] /\ weights[i] = bps[i]
        BY <2>3, <2>4, <3>1
      <4>2. amounts[i] \in Int
        BY <1>2, <3>1
      <4>3. bps[i] \in Int
        BY <1>1, <3>1
      <4>4. QED
        BY <4>1, <4>2, <4>3
    <3>3. Abs(amounts[i] * Bps - total * bps[i]) < Bps
      BY <1>2, <3>1
    <3>4. amounts[i] * Bps \in Int /\ total * bps[i] \in Int /\ Bps \in Int
      BY <3>2, SplitsAssumption
    <3>5. Abs(amounts[i] * Bps - total * bps[i]) \in Int
      <4> DEFINE a == amounts[i] * Bps
                 b == total * bps[i]
      <4>1. a \in Int /\ b \in Int
        BY <3>4
      <4> HIDE DEF a, b
      <4>2. Abs(a - b) \in Int
        BY <4>1 DEF Abs
      <4>3. QED
        BY <4>2 DEF a, b
    <3>6. Abs(amounts[i] * Bps - total * bps[i]) <= Bps
      BY <3>3, <3>4, <3>5
    <3>7. QED
      BY <3>2, <3>6
  <2>6. op \notin HalfEven /\ Bps \in Int
    BY SplitsAssumption DEF HalfEven
  <2>7. IsExact(DivisionOf(op, total, weights, Bps, calculateFeeAllocation(total, given)))
    BY <2>3, <2>5, <2>6, CalculateFeeAllocation
  <2>8. QED
    BY <2>1, <2>7 DEF weights, bps
<1>6. QED
  BY <1>4, <1>5

\* Two numbers as a sequence.
LEMMA PairFacts ==
  ASSUME NEW x \in Int, NEW y \in Int
  PROVE  /\ <<x, y>> \in Seq(Int) /\ <<x, y>> # <<>> /\ Len(<<x, y>>) = 2
         /\ <<x, y>>[1] = x /\ <<x, y>>[2] = y
         /\ DOMAIN <<x>> = {1} /\ <<x>>[1] = x
  OBVIOUS

\* An amount and what is left of it.
LEMMA PairIsExact ==
  ASSUME NEW op, NEW total \in Int, total <= MaxAmount, NEW rate \in Int, NEW whole \in Int,
         NEW part \in Int, total >= 0 => part \in 0 .. total,
         Abs(part * whole - total * rate) <= whole,
         op \in HalfEven => RoundedAs(total * rate, whole, "half-even", part)
  PROVE  IsExact(DivisionOf(op, total, <<rate>>, whole, Parts(<<part, total - part>>, 0)))
<1> DEFINE parts == <<part, total - part>>
           weights == <<rate>>
<1>1. /\ parts \in Seq(Int) /\ parts # <<>> /\ Len(parts) = 2
      /\ parts[1] = part /\ parts[2] = total - part
      /\ DOMAIN weights = {1} /\ weights[1] = rate
  BY PairFacts
<1>2. SumOf(parts) = total /\ SumOf(parts) + 0 = total
  <2>1. total - part \in Int
    OBVIOUS
  <2>2. SumOf(parts) = part + (total - part)
    BY <2>1, SumOfPair
  <2>3. QED
    BY <2>2
<1> HIDE DEF parts, weights
<1>3. total >= 0 => (\A i \in 1 .. Len(parts) : parts[i] >= 0) /\ 0 \in 0 .. Len(parts)
  BY <1>1
<1>4. \A i \in DOMAIN weights : Abs(parts[i] * whole - total * weights[i]) <= whole
  BY <1>1
<1>5. op \in HalfEven => RoundedAs(total * weights[1], whole, "half-even", parts[1])
  BY <1>1
<1>6. \A rest \in Int : rest = 0 => IsExact(DivisionOf(op, total, weights, whole, Parts(parts, rest)))
  <2> SUFFICES ASSUME NEW rest \in Int, rest = 0
               PROVE  IsExact(DivisionOf(op, total, weights, whole, Parts(parts, rest)))
    OBVIOUS
  <2>1. SumOf(parts) + rest = total
    BY <1>2
  <2>2. total >= 0 => (\A i \in 1 .. Len(parts) : parts[i] >= 0) /\ rest \in 0 .. Len(parts)
    BY <1>3
  <2>3. QED
    BY <1>1, <1>4, <1>5, <2>1, <2>2, ExactWhen
<1>7. QED
  BY <1>6 DEF parts, weights

\* The fee, and the net of which it is taken.
LEMMA CalculateFeeDeduction ==
  ASSUME NEW gross \in Int, gross <= MaxAmount, NEW rate \in Int, NEW scale \in Int
  PROVE  IsExact(DivisionOf("calculateFeeDeduction", gross, <<rate>>, scale,
                            calculateFeeDeduction(gross, rate, scale)))
<1> DEFINE n == gross * rate
           fee == Quotient(n, scale)
<1>1. CASE calculateFeeDeduction(gross, rate, scale) = Rejected
  BY <1>1, RejectedIsExact
<1>2. CASE calculateFeeDeduction(gross, rate, scale) # Rejected
  <2>1. /\ scale > 0 /\ gross >= 0 /\ rate >= 0 /\ fee <= gross
        /\ calculateFeeDeduction(gross, rate, scale) = Parts(<<fee, gross - fee>>, 0)
    BY <1>2 DEF calculateFeeDeduction
  <2>2. n \in Int /\ n >= 0
    BY <2>1
  <2> HIDE DEF n
  <2>3. fee \in Int /\ fee >= 0 /\ fee * scale <= n /\ n < fee * scale + scale
    BY <2>1, <2>2, QuotientFacts
  <2> HIDE DEF fee
  <2>4. Abs(fee * scale - n) <= scale
    <3> DEFINE x == fee * scale
    <3>1. x \in Int /\ x <= n /\ n < x + scale
      BY <2>3
    <3> HIDE DEF x
    <3>2. Abs(x - n) <= scale
      BY <2>2, <3>1 DEF Abs
    <3>3. QED
      BY <3>2 DEF x
  <2>5. "calculateFeeDeduction" \notin HalfEven /\ (gross >= 0 => fee \in 0 .. gross)
    BY <2>1, <2>3 DEF HalfEven
  <2>6. QED
    BY <2>1, <2>3, <2>4, <2>5, PairIsExact DEF n
<1>3. QED
  BY <1>1, <1>2

\* A part of at most the whole, rounded to the nearest, is within the amount.
LEMMA NearestIsWithin ==
  ASSUME NEW total \in Nat, NEW rate \in 0 .. Bps, NEW part \in Int,
         RoundedAs(total * rate, Bps, "half-even", part)
  PROVE  part \in 0 .. total /\ Abs(part * Bps - total * rate) <= Bps
<1> DEFINE n == total * rate
           x == part * Bps
<1>1. /\ Bps \in Nat \ {0} /\ Bps \in Int /\ rate \in Nat /\ rate <= Bps
  BY SplitsAssumption
<1>2. n \in Int /\ n >= 0 /\ n <= total * Bps /\ total * Bps \in Int /\ x \in Int
  <2>1. n \in Nat /\ total * Bps \in Int /\ x \in Int
    BY <1>1
  <2>2. rate * total <= Bps * total
    <3>1. CASE total = 0
      BY <1>1, <3>1
    <3>2. CASE total # 0
      <4>1. total \in Nat \ {0}
        BY <3>2
      <4>2. QED
        BY <1>1, <4>1, Times
    <3>3. QED
      BY <3>1, <3>2
  <2>3. rate * total = total * rate /\ Bps * total = total * Bps
    BY <1>1, Product
  <2>4. QED
    BY <2>1, <2>2, <2>3
<1>3. Abs(n - x) < Bps
  <2>1. ~ (Bps < 0) /\ Abs(Bps) = Bps
    BY <1>1 DEF Abs
  <2>2. QED
    BY <2>1 DEF RoundedAs
<1> HIDE DEF n, x
<1>4. x < n + Bps /\ n < x + Bps /\ Abs(x - n) <= Bps
  BY <1>1, <1>2, <1>3 DEF Abs
<1>5. part <= total
  <2>1. part * Bps < total * Bps + Bps
    BY <1>1, <1>2, <1>4 DEF x
  <2>2. QED
    BY <1>1, <2>1, Between
<1>6. 0 <= part
  <2>1. 0 * Bps < part * Bps + Bps
    <3>1. 0 < x + Bps /\ 0 * Bps = 0
      BY <1>1, <1>2, <1>4
    <3>2. QED
      BY <3>1 DEF x
  <2>2. QED
    BY <1>1, <2>1, Between
<1>7. QED
  BY <1>4, <1>5, <1>6 DEF n, x

\* A fee is rounded half to even, and the net is what is left.
LEMMA DeductHalfEvenIsExact ==
  ASSUME NEW op, NEW total \in 0 .. MaxAmount, NEW rate \in Int
  PROVE  IsExact(DivisionOf(op, total, <<rate>>, Bps, calculateFeeDeductionHalfEven(total, rate)))
<1> DEFINE fee == divRound(total * rate, Bps, "half-even")
<1>1. CASE rate \notin 0 .. Bps
  <2>1. calculateFeeDeductionHalfEven(total, rate) = Rejected
    BY <1>1 DEF calculateFeeDeductionHalfEven
  <2>2. QED
    BY <2>1, RejectedIsExact
<1>2. CASE rate \in 0 .. Bps
  <2>1. calculateFeeDeductionHalfEven(total, rate) = Parts(<<fee, total - fee>>, 0)
    BY <1>2 DEF calculateFeeDeductionHalfEven
  <2>2. total \in Nat /\ total \in Int /\ total <= MaxAmount /\ Bps \in Int \ {0}
    BY AmountsAssumption, SplitsAssumption
  <2>3. fee \in Int /\ RoundedAs(total * rate, Bps, "half-even", fee)
    <3>1. total * rate \in Int
      BY <2>2
    <3>2. "half-even" \in RoundingModes /\ normalizeRoundingMode("half-even") = "half-even"
      BY DEF RoundingModes, normalizeRoundingMode
    <3>3. QED
      BY <2>2, <3>1, <3>2, DivRoundIsRounded
  <2> HIDE DEF fee
  <2>4. fee \in 0 .. total /\ Abs(fee * Bps - total * rate) <= Bps
    BY <1>2, <2>2, <2>3, NearestIsWithin
  <2>5. QED
    BY <2>1, <2>2, <2>3, <2>4, PairIsExact
<1>3. QED
  BY <1>1, <1>2

\* The copies of half-even rounding round as divRound does.
LEMMA HalfEvenCopy ==
  ASSUME NEW n \in Nat, NEW d \in Nat \ {0}
  PROVE  LET q == n \div d
             twice == 2 * (n % d)
             rounded == IF twice > d \/ (twice = d /\ q % 2 # 0) THEN q + 1 ELSE q
         IN rounded = divRound(n, d, "half-even")
<1> DEFINE q == n \div d
           r == n % d
           x == q * d
<1>1. /\ q \in Nat /\ r \in Nat /\ r = n - x /\ r < d
  <2>1. q \in Nat /\ n % d \in 0 .. d - 1 /\ n = d * (n \div d) + (n % d)
    <3>1. n \div d \in Nat
      BY Division
    <3>2. n % d \in 0 .. d - 1
      OBVIOUS
    <3>3. n = d * (n \div d) + (n % d)
      OBVIOUS
    <3>4. QED
      BY <3>1, <3>2, <3>3
  <2>2. d * (n \div d) = x /\ x \in Int
    BY <2>1, NextProduct
  <2>3. QED
    BY <2>1, <2>2
<1>2. /\ ~ (d < 0) /\ Abs(d) = d /\ Quotient(n, d) = q /\ n >= 0
  BY DEF Abs, Quotient
<1>3. Remainder(n, d) = r /\ Abs(r) = r
  <2>1. d * q = x /\ x \in Int
    BY <1>1, NextProduct
  <2> HIDE DEF q, r, x
  <2>2. Remainder(n, d) = n - x
    BY <1>2, <2>1 DEF Remainder
  <2>3. QED
    BY <1>1, <2>2 DEF Abs
<1>4. normalizeRoundingMode("half-even") = "half-even"
  BY DEF normalizeRoundingMode
<1> HIDE DEF q, r, x
<1>5. divRound(n, d, "half-even") =
        IF 2 * r # 0 /\ (2 * r > d \/ (2 * r = d /\ q % 2 # 0)) THEN q + 1 ELSE q
  BY <1>2, <1>3, <1>4 DEF divRound
<1>6. 2 * r > d \/ 2 * r = d => 2 * r # 0
  BY <1>1
<1>7. QED
  BY <1>5, <1>6 DEF q, r

\* applyRefundRatio rounds with a comparison of its own, to the same result.
LEMMA RefundIsExact ==
  ASSUME NEW total \in 0 .. MaxAmount, NEW ratio \in Int
  PROVE  IsExact(DivisionOf("applyRefundRatio", total, <<ratio>>, Bps, applyRefundRatio(total, ratio)))
<1> DEFINE n == total * ratio
           q == n \div Bps
           twice == 2 * (n % Bps)
           refund == IF twice > Bps \/ (twice = Bps /\ q % 2 # 0) THEN q + 1 ELSE q
<1>1. CASE applyRefundRatio(total, ratio) = Rejected
  BY <1>1, RejectedIsExact
<1>2. CASE applyRefundRatio(total, ratio) # Rejected
  <2>1. ratio \in 0 .. Bps /\ applyRefundRatio(total, ratio) = Parts(<<refund, total - refund>>, 0)
    BY <1>2 DEF applyRefundRatio
  <2>2. n \in Nat /\ Bps \in Nat \ {0} /\ total \in Nat
    BY <2>1, AmountsAssumption, SplitsAssumption
  <2>3. refund = divRound(n, Bps, "half-even")
    <3> HIDE DEF n
    <3>1. QED
      BY <2>2, HalfEvenCopy
  <2> HIDE DEF refund
  <2>4. calculateFeeDeductionHalfEven(total, ratio) = applyRefundRatio(total, ratio)
    BY <2>1, <2>3 DEF calculateFeeDeductionHalfEven
  <2>5. QED
    BY <2>4, DeductHalfEvenIsExact
<1>3. QED
  BY <1>1, <1>2


\* A remainder is a number below the divisor, and what the quotient leaves.
LEMMA RemainderFacts ==
  ASSUME NEW n \in Nat, NEW d \in Nat \ {0}
  PROVE  /\ n % d \in Nat /\ n % d < d /\ n = (n \div d) * d + (n % d)
         /\ n < d => n \div d = 0 /\ n % d = n
<1>1. n \div d \in Nat /\ n % d \in 0 .. d - 1 /\ n = d * (n \div d) + (n % d)
  <2>1. n \div d \in Nat
    BY Division
  <2>2. n % d \in 0 .. d - 1
    OBVIOUS
  <2>3. n = d * (n \div d) + (n % d)
    OBVIOUS
  <2>4. QED
    BY <2>1, <2>2, <2>3
<1>2. d * (n \div d) = (n \div d) * d
  BY <1>1, NextProduct
<1>3. ASSUME n < d PROVE n \div d = 0
  <2>1. (n \div d) * d < 0 * d + d
    <3>1. (n \div d) * d <= n /\ 0 * d = 0
      BY Division
    <3>2. (n \div d) * d \in Int
      BY <1>1, NextProduct
    <3>3. QED
      BY <1>3, <3>1, <3>2
  <2>2. n \div d <= 0
    BY <1>1, <2>1, Between
  <2>3. QED
    BY <1>1, <2>2
<1>4. n < d => n % d = n
  <2>1. n < d => d * (n \div d) = 0
    <3>1. d * 0 = 0
      OBVIOUS
    <3>2. QED
      BY <1>3, <3>1
  <2>2. QED
    BY <1>1, <2>1
<1>5. QED
  BY <1>1, <1>2, <1>3, <1>4

\* The weights of shares are numbers, one for each share.
LEMMA ScaledType ==
  ASSUME NEW shares \in Seq(Nat)
  PROVE  /\ Scaled(shares) \in Seq(Nat) /\ Scaled(shares) \in Seq(Int)
         /\ Len(Scaled(shares)) = Len(shares) /\ SumOf(Scaled(shares)) \in Int
<1> DEFINE n == Len(shares)
<1>1. Scaled(shares) = [i \in 1 .. n |-> (shares[i] + 2) \div 4]
  BY DEF Scaled
<1>2. n \in Nat /\ \A i \in 1 .. n : (shares[i] + 2) \div 4 \in Nat
  OBVIOUS
<1> HIDE DEF n
<1>3. Scaled(shares) \in Seq(Nat) /\ Len(Scaled(shares)) = n
  BY <1>1, <1>2
<1>4. Scaled(shares) \in Seq(Int)
  BY <1>3
<1>5. QED
  BY <1>3, <1>4, SumType DEF n

\* What truncation leaves over is the rest.
LEMMA SharesAndRestIsExact ==
  ASSUME NEW op, op \notin HalfEven, NEW total \in Int, total <= MaxAmount,
         NEW shares \in Seq(Nat), AreShares(shares)
  PROVE  IsExact(DivisionOf(op, total, Scaled(shares), SumOf(Scaled(shares)), SharesAndRest(total, shares)))
<1> DEFINE w == Scaled(shares)
           W == SumOf(w)
           parts == Truncated(total, w, W)
           rest == total - SumOf(parts)
<1>1. w \in Seq(Nat) /\ w \in Seq(Int) /\ Len(w) = Len(shares) /\ Len(shares) \in Nat /\ W \in Int /\ W > 0
  BY ScaledType DEF AreShares
<1>2. Len(w) > 0
  <2>1. shares # <<>>
    BY DEF AreShares
  <2>2. QED
    BY <1>1, <2>1
<1>3. W \in Nat \ {0}
  BY <1>1
<1>4. SharesAndRest(total, shares) = Parts(parts, rest)
  BY DEF SharesAndRest
<1> HIDE DEF w
<1>5. /\ total >= 0 => (\A i \in 1 .. Len(parts) : parts[i] >= 0) /\ rest \in 0 .. Len(parts) - 1
  <2>1. total >= 0 => total \in Nat
    OBVIOUS
  <2>2. QED
    BY <1>1, <2>1, TruncatedShares
<1> HIDE DEF W
<1>6. /\ parts \in Seq(Int) /\ Len(parts) = Len(w)
      /\ \A i \in 1 .. Len(w) : Abs(parts[i] * W - total * w[i]) < W
  BY <1>1, <1>3, TruncatedParts
<1> HIDE DEF parts
<1>7. rest \in Int /\ SumOf(parts) + rest = total /\ parts # <<>> /\ Len(parts) \in Nat
  BY <1>2, <1>6, SumType
<1> HIDE DEF rest
<1>8. ASSUME NEW i \in DOMAIN w PROVE Abs(parts[i] * W - total * w[i]) <= W
  <2> DEFINE x == parts[i] * W
             y == total * w[i]
  <2>1. i \in 1 .. Len(w)
    BY <1>1
  <2>2. parts[i] \in Int /\ w[i] \in Int /\ W \in Int
    BY <1>1, <1>6, <2>1
  <2>3. x \in Int /\ y \in Int /\ Abs(x - y) < W
    BY <1>6, <2>1, <2>2
  <2> HIDE DEF x, y
  <2>4. Abs(x - y) <= W
    BY <1>3, <2>3 DEF Abs
  <2>5. QED
    BY <2>4 DEF x, y
<1>9. total >= 0 => (\A i \in 1 .. Len(parts) : parts[i] >= 0) /\ rest \in 0 .. Len(parts)
  BY <1>5, <1>7
<1>10. IsExact(DivisionOf(op, total, w, W, Parts(parts, rest)))
  BY <1>6, <1>7, <1>8, <1>9, ExactWhen
<1>11. QED
  BY <1>4, <1>10 DEF w, W

\* Shares are truncated, and what they leave over is the rest.
LEMMA CalculateFeeSharesIsExact ==
  ASSUME NEW total \in Int, total <= MaxAmount, NEW shares \in Seq(Nat)
  PROVE  /\ IsExact(DivisionOf("calculateFeeShares", total, Scaled(shares), SumOf(Scaled(shares)),
                               calculateFeeShares(total, shares)))
         /\ IsExact(DivisionOf("allocatePartialPayment", total, Scaled(shares), SumOf(Scaled(shares)),
                               allocatePartialPayment(total, shares)))
<1>1. "calculateFeeShares" \notin HalfEven /\ "allocatePartialPayment" \notin HalfEven
  BY DEF HalfEven
<1>2. CASE AreShares(shares)
  <2>1. /\ calculateFeeShares(total, shares) \in {SharesAndRest(total, shares), Rejected}
        /\ allocatePartialPayment(total, shares) = SharesAndRest(total, shares)
    BY <1>2 DEF calculateFeeShares, allocatePartialPayment
  <2>2. QED
    BY <1>1, <1>2, <2>1, SharesAndRestIsExact, RejectedIsExact
<1>3. CASE ~ AreShares(shares)
  <2>1. calculateFeeShares(total, shares) = Rejected /\ allocatePartialPayment(total, shares) = Rejected
    BY <1>3 DEF calculateFeeShares, allocatePartialPayment
  <2>2. QED
    BY <2>1, RejectedIsExact
<1>4. QED
  BY <1>2, <1>3

\* What truncation leaves over is the net amount.
LEMMA ShareDeductionsAreExact ==
  ASSUME NEW total \in Int, total <= MaxAmount, NEW shares \in Seq(Nat)
  PROVE  IsExact(DivisionOf("calculateFeeShareDeductions", total, Scaled(shares), SumOf(Scaled(shares)),
                            calculateFeeShareDeductions(total, shares)))
<1> DEFINE w == Scaled(shares)
           W == SumOf(w)
           parts == Truncated(total, w, W)
           net == total - SumOf(parts)
           all == Append(parts, net)
           op == "calculateFeeShareDeductions"
<1>1. CASE calculateFeeShareDeductions(total, shares) = Rejected
  BY <1>1, RejectedIsExact
<1>2. CASE calculateFeeShareDeductions(total, shares) # Rejected
  <2>1. calculateFeeShares(total, shares).ok
    BY <1>2 DEF calculateFeeShareDeductions
  <2>2. AreShares(shares) /\ total >= 0
    BY <2>1, OkOrRejected DEF calculateFeeShares
  <2>3. calculateFeeShares(total, shares).parts = parts
    BY <2>2 DEF calculateFeeShares, SharesAndRest, Parts
  <2>4. calculateFeeShareDeductions(total, shares) = Parts(parts \o <<net>>, 0)
    BY <1>2, <2>1, <2>3 DEF calculateFeeShareDeductions
  <2>5. w \in Seq(Nat) /\ w \in Seq(Int) /\ W \in Nat \ {0} /\ total \in Nat /\ Len(w) \in Nat
    BY <2>2, ScaledType DEF AreShares
  <2> HIDE DEF w
  <2>6. (\A i \in 1 .. Len(parts) : parts[i] >= 0) /\ net >= 0
    BY <2>5, TruncatedShares
  <2> HIDE DEF W
  <2>7. /\ parts \in Seq(Int) /\ Len(parts) = Len(w)
        /\ \A i \in 1 .. Len(w) : Abs(parts[i] * W - total * w[i]) < W
    BY <2>5, TruncatedParts
  <2> HIDE DEF parts
  <2>8. net \in Int /\ SumOf(parts) + net = total
    BY <2>7, SumType
  <2> HIDE DEF net
  <2>9. /\ parts \o <<net>> = all /\ all \in Seq(Int) /\ all # <<>> /\ Len(all) = Len(w) + 1
        /\ all[Len(w) + 1] = net /\ \A i \in 1 .. Len(w) : all[i] = parts[i]
    <3>1. parts \o <<net>> = all
      BY <2>7, <2>8, AppendIsConcat
    <3>2. /\ all \in Seq(Int) /\ all # <<>> /\ Len(all) = Len(w) + 1
          /\ all[Len(w) + 1] = net /\ \A i \in 1 .. Len(w) : all[i] = parts[i]
      <4>1. /\ all \in Seq(Int) /\ Len(all) = Len(parts) + 1 /\ all[Len(parts) + 1] = net
            /\ \A i \in 1 .. Len(parts) : all[i] = parts[i]
        BY <2>7, <2>8
      <4>2. all # <<>>
        <5> SUFFICES ASSUME all = <<>> PROVE FALSE
          OBVIOUS
        <5> HIDE DEF all
        <5>1. Len(all) = 0 /\ Len(parts) \in Nat
          BY <2>5, <2>7
        <5>2. QED
          BY <4>1, <5>1
      <4>3. QED
        BY <2>7, <4>1, <4>2
    <3>3. QED
      BY <3>1, <3>2
  <2>10. SumOf(all) = total
    BY <2>7, <2>8, SumOfAppend
  <2> HIDE DEF all
  <2>11. (\A i \in 1 .. Len(all) : all[i] >= 0) /\ 0 \in 0 .. Len(all)
    <3>1. ASSUME NEW i \in 1 .. Len(all) PROVE all[i] >= 0
      <4>1. i \in 1 .. Len(w) \/ i = Len(w) + 1
        BY <2>5, <2>9
      <4>2. QED
        BY <2>6, <2>7, <2>9, <4>1
    <3>2. QED
      BY <2>5, <2>9, <3>1
  <2>12. ASSUME NEW i \in DOMAIN w PROVE Abs(all[i] * W - total * w[i]) <= W
    <3> DEFINE x == parts[i] * W
               y == total * w[i]
    <3>1. i \in 1 .. Len(w)
      BY <2>5
    <3>2. parts[i] \in Int /\ w[i] \in Int /\ W \in Int /\ all[i] = parts[i]
      <4>1. parts[i] \in Int
        BY <2>7, <3>1
      <4>2. w[i] \in Int /\ W \in Int
        BY <2>5, <3>1
      <4>3. all[i] = parts[i]
        BY <2>9, <3>1
      <4>4. QED
        BY <4>1, <4>2, <4>3
    <3>3. x \in Int /\ y \in Int /\ Abs(x - y) < W
      BY <2>7, <3>1, <3>2
    <3> HIDE DEF x, y
    <3>4. Abs(x - y) <= W
      BY <2>5, <3>3 DEF Abs
    <3>5. QED
      BY <3>2, <3>4 DEF x, y
  <2>13. op \notin HalfEven
    BY DEF HalfEven
  <2>14. \A rest \in Int : rest = 0 => IsExact(DivisionOf(op, total, w, W, Parts(all, rest)))
    <3> SUFFICES ASSUME NEW rest \in Int, rest = 0
                 PROVE  IsExact(DivisionOf(op, total, w, W, Parts(all, rest)))
      OBVIOUS
    <3>1. SumOf(all) + rest = total
      BY <2>10
    <3>2. total >= 0 => (\A i \in 1 .. Len(all) : all[i] >= 0) /\ rest \in 0 .. Len(all)
      BY <2>11
    <3> HIDE DEF op
    <3>3. QED
      BY <2>9, <2>12, <2>13, <3>1, <3>2, ExactWhen
  <2>15. IsExact(DivisionOf(op, total, w, W, Parts(all, 0)))
    BY <2>14
  <2>16. calculateFeeShareDeductions(total, shares) = Parts(all, 0)
    BY <2>4, <2>9
  <2>17. QED
    BY <2>15, <2>16 DEF w, W
<1>3. QED
  BY <1>1, <1>2

\* Each leading part gets a unit of what truncation left over.
LEMMA SplitByWeightsIsExact ==
  ASSUME NEW total \in 0 .. MaxAmount, NEW weights \in Seq(Nat)
  PROVE  IsExact(DivisionOf("splitByWeights", total, weights, SumOf(weights), splitByWeights(total, weights)))
<1> DEFINE W == SumOf(weights)
           n == Len(weights)
           parts == Truncated(total, weights, W)
           dust == total - SumOf(parts)
           split == Handed(parts, dust)
           op == "splitByWeights"
<1>1. CASE splitByWeights(total, weights) = Rejected
  BY <1>1, RejectedIsExact
<1>2. CASE splitByWeights(total, weights) # Rejected
  <2>1. /\ weights # <<>> /\ W > 0 /\ SumOf(split) = total
        /\ splitByWeights(total, weights) = Parts(split, 0)
    BY <1>2 DEF splitByWeights
  <2>2. weights \in Seq(Int) /\ n \in Nat /\ n > 0 /\ \A i \in 1 .. n : weights[i] \in Nat
    BY <2>1
  <2>3. total \in Nat /\ total <= MaxAmount /\ W \in Nat \ {0}
    BY <2>1, <2>2, SumType, AmountsAssumption
  <2>4. /\ \A i \in 1 .. Len(parts) : parts[i] >= 0
        /\ dust \in 0 .. Len(parts) - 1
    BY <2>3, TruncatedShares
  <2>5. parts = [i \in 1 .. n |-> Quotient(total * weights[i], W)]
    BY DEF Truncated
  <2> HIDE DEF W
  <2>6. parts \in Seq(Int) /\ Len(parts) = n
    BY <2>2, <2>3, TruncatedParts
  <2>7. dust \in Nat /\ dust < n
    BY <2>2, <2>4, <2>6
  <2> HIDE DEF parts, dust, n
  <2>8. dust \div n = 0 /\ dust % n = dust
    BY <2>2, <2>7, RemainderFacts
  <2>9. split = [i \in 1 .. n |-> parts[i] + IF i <= dust THEN 1 ELSE 0]
    <3>1. split = [i \in 1 .. n |-> parts[i] + dust \div n + IF i <= dust % n THEN 1 ELSE 0]
      BY <2>2, <2>6 DEF Handed
    <3>2. \A i \in 1 .. n : parts[i] \in Int
      BY <2>6
    <3> HIDE DEF split
    <3>3. QED
      BY <2>8, <3>1, <3>2
  <2> HIDE DEF split
  <2>10. \A i \in 1 .. n : split[i] \in {parts[i], parts[i] + 1} /\ parts[i] \in Nat
    BY <2>2, <2>4, <2>6, <2>9
  <2>11. split \in Seq(Int) /\ Len(split) = n /\ split # <<>>
    <3>1. \A i \in 1 .. n : split[i] \in Int
      BY <2>10
    <3>2. split \in [1 .. n -> Int]
      BY <2>9, <3>1
    <3>3. split \in Seq(Int) /\ Len(split) = n
      BY <2>2, <3>2
    <3>4. QED
      BY <2>2, <3>3
  <2>12. ASSUME NEW i \in DOMAIN weights PROVE Abs(split[i] * W - total * weights[i]) <= W
    <3> DEFINE a == total * weights[i]
               q == Quotient(a, W)
               x == q * W
    <3>1. i \in 1 .. n /\ weights[i] \in Nat
      BY <2>2 DEF n
    <3>2. a \in Int /\ a >= 0
      BY <2>3, <3>1
    <3> HIDE DEF a
    <3>3. q \in Int /\ x <= a /\ a < x + W
      BY <2>3, <3>2, QuotientFacts
    <3>4. parts[i] = q
      BY <2>5, <3>1 DEF a
    <3> HIDE DEF q
    <3>5. x \in Int /\ W \in Int /\ (q + 1) * W = x + W
      BY <2>3, <3>3, NextProduct
    <3>6. split[i] * W \in {x, x + W}
      BY <2>10, <3>1, <3>4, <3>5
    <3> DEFINE y == split[i] * W
    <3> HIDE DEF x, y
    <3>7. y = x \/ y = x + W
      BY <3>6 DEF y
    <3>8. Abs(y - a) <= W
      BY <3>2, <3>3, <3>5, <3>7 DEF Abs
    <3>9. QED
      BY <3>8 DEF y, a
  <2>13. op \notin HalfEven
    BY DEF HalfEven
  <2>14. \A rest \in Int : rest = 0 => IsExact(DivisionOf(op, total, weights, W, Parts(split, rest)))
    <3> SUFFICES ASSUME NEW rest \in Int, rest = 0
                 PROVE  IsExact(DivisionOf(op, total, weights, W, Parts(split, rest)))
      OBVIOUS
    <3>1. SumOf(split) + rest = total
      BY <2>1, <2>3
    <3>2. total >= 0 => (\A i \in 1 .. Len(split) : split[i] >= 0) /\ rest \in 0 .. Len(split)
      <4>1. ASSUME NEW i \in 1 .. n PROVE split[i] >= 0
        <5>1. split[i] \in {parts[i], parts[i] + 1} /\ parts[i] \in Nat
          BY <2>10
        <5>2. QED
          BY <5>1
      <4>2. Len(split) = n /\ rest \in 0 .. n
        BY <2>2, <2>11
      <4>3. QED
        BY <4>1, <4>2
    <3> HIDE DEF op
    <3>3. QED
      <4>1. total \in Int /\ total <= MaxAmount /\ split \in Seq(Int) /\ split # <<>>
        BY <2>3, <2>11
      <4>2. QED
        BY <2>12, <2>13, <3>1, <3>2, <4>1, ExactWhen
  <2>15. IsExact(DivisionOf(op, total, weights, W, Parts(split, 0)))
    BY <2>14
  <2>16. QED
    BY <2>1, <2>15 DEF W
<1>3. QED
  BY <1>1, <1>2

\* Equal parts: k of them are k quotients, and a unit for each leading one.
LEMMA DivideWithRoundingIsExact ==
  ASSUME NEW total \in 0 .. MaxAmount, NEW divisor \in Nat
  PROVE  IsExact(DivisionOf("divideWithRounding", total, [i \in 1 .. divisor |-> 1], divisor,
                            divideWithRounding(total, divisor)))
<1> DEFINE weights == [i \in 1 .. divisor |-> 1]
           q == total \div divisor
           r == total % divisor
           parts == [i \in 1 .. divisor |-> q + IF i <= r THEN 1 ELSE 0]
           op == "divideWithRounding"
<1>1. CASE divisor = 0
  <2>1. divideWithRounding(total, divisor) = Rejected
    BY <1>1 DEF divideWithRounding
  <2>2. QED
    BY <2>1, RejectedIsExact
<1>2. CASE divisor # 0
  <2>1. divisor \in Nat \ {0} /\ total \in Nat /\ total <= MaxAmount
    BY <1>2, AmountsAssumption
  <2>2. divideWithRounding(total, divisor) = Parts(parts, 0)
    BY <2>1 DEF divideWithRounding
  <2>3. q \in Nat /\ r \in Nat /\ r < divisor /\ total = q * divisor + r
    BY <2>1, RemainderFacts, Division
  <2> HIDE DEF q, r
  <2>4. /\ parts \in Seq(Int) /\ Len(parts) = divisor
        /\ \A i \in 1 .. divisor : parts[i] = (q + IF i <= r THEN 1 ELSE 0) /\ parts[i] >= 0 /\ parts[i] \in Int
    <3>1. /\ \A i \in 1 .. divisor : parts[i] = (q + IF i <= r THEN 1 ELSE 0) /\ parts[i] >= 0 /\ parts[i] \in Int
      BY <2>3
    <3>2. parts \in Seq(Int) /\ Len(parts) = divisor
      BY <2>3
    <3>3. QED
      BY <3>1, <3>2
  <2> HIDE DEF parts
  <2>5. parts # <<>>
    BY <2>1, <2>4
  <2>6. PICK f : IsRunningSum(f, parts)
    BY <2>4, RunningSumExists
  <2>7. /\ f \in [0 .. divisor -> Int] /\ f[0] = 0 /\ SumOf(parts) = f[divisor]
        /\ \A k \in 1 .. divisor : f[k] = f[k - 1] + parts[k]
    BY <2>4, <2>6, SumOfIsTheLast DEF IsRunningSum
  <2> DEFINE N == {k \in 0 .. divisor : f[k] = q * k + IF k <= r THEN k ELSE r}
  <2>8. 0 \in N
    BY <2>1, <2>3, <2>7
  <2>9. ASSUME NEW k \in 0 .. divisor - 1, k \in N PROVE k + 1 \in N
    <3>1. /\ k + 1 \in 1 .. divisor /\ k + 1 \in 0 .. divisor /\ (k + 1) - 1 = k /\ k \in Int /\ q \in Int
      BY <2>1, <2>3
    <3>2. f[k] = q * k + IF k <= r THEN k ELSE r
      BY <2>9
    <3>3. f[k + 1] = f[k] + (q + IF k + 1 <= r THEN 1 ELSE 0)
      BY <2>4, <2>7, <3>1
    <3>4. q * (k + 1) = q * k + q /\ q * k \in Int
      BY <3>1, NextProduct
    <3>5. f[k + 1] = q * (k + 1) + IF k + 1 <= r THEN k + 1 ELSE r
      BY <2>3, <3>1, <3>2, <3>3, <3>4
    <3>6. QED
      BY <3>1, <3>5
  <2>10. f[divisor] = total
    <3> HIDE DEF N
    <3>1. \A k \in 0 .. divisor : k \in N
      BY <2>8, <2>9, Upwards
    <3>2. divisor \in N
      BY <2>1, <3>1
    <3>3. f[divisor] = q * divisor + IF divisor <= r THEN divisor ELSE r
      BY <3>2 DEF N
    <3>4. QED
      BY <2>1, <2>3, <3>3
  <2>11. ASSUME NEW i \in DOMAIN weights PROVE Abs(parts[i] * divisor - total * weights[i]) <= divisor
    <3> DEFINE x == q * divisor
               y == parts[i] * divisor
    <3>1. i \in 1 .. divisor /\ weights[i] = 1 /\ total * weights[i] = total
      BY <2>1
    <3>2. x \in Int /\ (q + 1) * divisor = x + divisor
      BY <2>3, NextProduct
    <3>3. y = x \/ y = x + divisor
      <4>1. parts[i] = q \/ parts[i] = q + 1
        BY <2>3, <2>4, <3>1
      <4>2. QED
        BY <3>2, <4>1
    <3> HIDE DEF y, x
    <3>4. Abs(y - total) <= divisor
      <4>1. total = x + r
        BY <2>3 DEF x
      <4>2. QED
        BY <2>1, <2>3, <3>2, <3>3, <4>1 DEF Abs
    <3>5. QED
      BY <3>1, <3>4 DEF y
  <2>12. op \notin HalfEven
    BY DEF HalfEven
  <2> HIDE DEF weights
  <2>13. \A rest \in Int : rest = 0 => IsExact(DivisionOf(op, total, weights, divisor, Parts(parts, rest)))
    <3> SUFFICES ASSUME NEW rest \in Int, rest = 0
                 PROVE  IsExact(DivisionOf(op, total, weights, divisor, Parts(parts, rest)))
      OBVIOUS
    <3>1. SumOf(parts) + rest = total
      BY <2>1, <2>7, <2>10
    <3>2. total >= 0 => (\A i \in 1 .. Len(parts) : parts[i] >= 0) /\ rest \in 0 .. Len(parts)
      BY <2>1, <2>4
    <3> HIDE DEF op
    <3>3. QED
      BY <2>1, <2>4, <2>5, <2>11, <2>12, <3>1, <3>2, ExactWhen
  <2>14. IsExact(DivisionOf(op, total, weights, divisor, Parts(parts, 0)))
    BY <2>13
  <2>15. QED
    BY <2>2, <2>14 DEF weights
<1>3. QED
  BY <1>1, <1>2

\* SeqOf has sequences only.
LEMMA SeqOfType ==
  ASSUME NEW T, NEW S \in SUBSET T, NEW n \in Nat, NEW s \in SeqOf(S, n)
  PROVE  s \in Seq(T)
<1>1. PICK m \in 0 .. n : s \in [1 .. m -> S]
  BY DEF SeqOf
<1>2. m \in Nat /\ s \in [1 .. m -> T]
  BY <1>1
<1>3. QED
  BY <1>2

\* What an input accepted as an amount is, and what any input is.
LEMMA InputFacts ==
  ASSUME NEW input \in Inputs
  PROVE  /\ input.value \in Int
         /\ IsLedgerAmount(input) => input.value \in 0 .. MaxAmount
         /\ IsInteger(input) => input.value <= MaxAmount
  BY AmountsAssumption DEF IsLedgerAmount, IsInteger, isAmountWithinRange

\* Every division answered is exact.
LEMMA AnswerIsExact ==
  ASSUME SplitNext
  PROVE  IsExact(division')
<1>1. IsExact(DivisionOf("none", 0, <<>>, 1, Rejected)) /\ \A op : IsExact(DivisionOf(op, 0, <<>>, 1, Rejected))
  BY RejectedIsExact
<1>2. CASE Allocate
  <2>1. PICK input \in Inputs, amounts \in SeqOf(GivenAmounts, MaxParts) :
          \/ AnswerDivision("calculateFeeAllocation", input, IsLedgerAmount, <<>>, 1,
               calculateFeeAllocation(input.value, amounts))
          \/ AnswerDivision("allocatePayment", input, IsLedgerAmount, <<>>, 1,
               allocatePayment(input.value, amounts))
    BY <1>2 DEF Allocate
  <2>2. amounts \in Seq(Int)
    BY SeqOfType, SplitsAssumption
  <2>3. CASE IsLedgerAmount(input)
    <3>1. input.value \in Int /\ input.value <= MaxAmount /\ 1 \in Int
      BY <2>3, InputFacts
    <3>2. \A i \in DOMAIN <<>> : Abs(amounts[i] * 1 - input.value * (<<>>)[i]) <= 1
      OBVIOUS
    <3>3. "calculateFeeAllocation" \notin HalfEven
      BY DEF HalfEven
    <3>4. IsExact(DivisionOf("calculateFeeAllocation", input.value, <<>>, 1,
                             calculateFeeAllocation(input.value, amounts)))
      BY <2>2, <3>1, <3>2, <3>3, CalculateFeeAllocation
    <3>5. IsExact(DivisionOf("allocatePayment", input.value, <<>>, 1, allocatePayment(input.value, amounts)))
      BY <2>2, <3>1, AllocatePayment
    <3>6. QED
      BY <2>1, <2>3, <3>4, <3>5 DEF AnswerDivision
  <2>4. CASE ~ IsLedgerAmount(input)
    BY <1>1, <2>1, <2>4 DEF AnswerDivision
  <2>5. QED
    BY <2>3, <2>4
<1>3. CASE AllocatePercentages
  <2>1. PICK input \in Inputs, percentages \in SeqOf(Percentages, MaxParts) :
          AnswerDivision("calculatePercentageFeeAllocation", input, IsLedgerAmount,
            SubSeq(basisPoints(percentages), 1, Len(percentages) - 1), Bps,
            calculatePercentageFeeAllocation(input.value, percentages))
    BY <1>3 DEF AllocatePercentages
  <2>2. percentages \in Seq(Int)
    BY SeqOfType, SplitsAssumption
  <2>3. CASE IsLedgerAmount(input)
    <3>1. input.value \in Int /\ input.value <= MaxAmount
      BY <2>3, InputFacts
    <3>2. QED
      BY <2>1, <2>2, <2>3, <3>1, CalculatePercentages DEF AnswerDivision
  <2>4. CASE ~ IsLedgerAmount(input)
    BY <1>1, <2>1, <2>4 DEF AnswerDivision
  <2>5. QED
    BY <2>3, <2>4
<1>4. CASE DeductFee
  <2>1. PICK input \in Inputs, rate \in Inputs, scale \in Inputs :
          AnswerDivision("calculateFeeDeduction", input, IsInteger, <<rate.value>>, scale.value,
            calculateFeeDeduction(input.value, rate.value, scale.value))
    BY <1>4 DEF DeductFee
  <2>2. rate.value \in Int /\ scale.value \in Int
    BY InputFacts
  <2>3. CASE IsInteger(input)
    <3>1. input.value \in Int /\ input.value <= MaxAmount
      BY <2>3, InputFacts
    <3>2. QED
      BY <2>1, <2>2, <2>3, <3>1, CalculateFeeDeduction DEF AnswerDivision
  <2>4. CASE ~ IsInteger(input)
    BY <1>1, <2>1, <2>4 DEF AnswerDivision
  <2>5. QED
    BY <2>3, <2>4
<1>5. CASE DeductHalfEven
  <2>1. PICK input \in Inputs, rate \in -1 .. Bps + 1 :
          \/ AnswerDivision("calculateFeeDeductionHalfEven", input, IsLedgerAmount, <<rate>>, Bps,
               calculateFeeDeductionHalfEven(input.value, rate))
          \/ AnswerDivision("applyFeeBasisPoints", input, IsLedgerAmount, <<rate>>, Bps,
               applyFeeBasisPoints(input.value, rate))
          \/ AnswerDivision("applyRefundRatio", input, IsLedgerAmount, <<rate>>, Bps,
               applyRefundRatio(input.value, rate))
    BY <1>5 DEF DeductHalfEven
  <2>2. rate \in Int
    BY SplitsAssumption
  <2>3. CASE IsLedgerAmount(input)
    <3>1. input.value \in 0 .. MaxAmount
      BY <2>3, InputFacts
    <3>2. \A op : IsExact(DivisionOf(op, input.value, <<rate>>, Bps, calculateFeeDeductionHalfEven(input.value, rate)))
      BY <2>2, <3>1, DeductHalfEvenIsExact
    <3>3. IsExact(DivisionOf("applyRefundRatio", input.value, <<rate>>, Bps, applyRefundRatio(input.value, rate)))
      BY <2>2, <3>1, RefundIsExact
    <3>4. QED
      BY <2>1, <2>3, <3>2, <3>3 DEF AnswerDivision, applyFeeBasisPoints
  <2>4. CASE ~ IsLedgerAmount(input)
    BY <1>1, <2>1, <2>4 DEF AnswerDivision
  <2>5. QED
    BY <2>3, <2>4
<1>6. CASE ShareOut
  <2>1. PICK input \in Inputs, shares \in SeqOf(Shares, MaxParts) :
          \/ AnswerDivision("calculateFeeShares", input, IsInteger, Scaled(shares), SumOf(Scaled(shares)),
               calculateFeeShares(input.value, shares))
          \/ AnswerDivision("calculateFeeShareDeductions", input, IsInteger, Scaled(shares), SumOf(Scaled(shares)),
               calculateFeeShareDeductions(input.value, shares))
          \/ AnswerDivision("allocatePartialPayment", input, IsInteger, Scaled(shares), SumOf(Scaled(shares)),
               allocatePartialPayment(input.value, shares))
          \/ AnswerDivision("splitByWeights", input, IsLedgerAmount, shares, SumOf(shares),
               splitByWeights(input.value, shares))
    BY <1>6 DEF ShareOut
  <2>2. shares \in Seq(Nat)
    BY SeqOfType, SplitsAssumption
  <2>3. IsInteger(input) =>
          /\ IsExact(DivisionOf("calculateFeeShares", input.value, Scaled(shares), SumOf(Scaled(shares)),
                                calculateFeeShares(input.value, shares)))
          /\ IsExact(DivisionOf("allocatePartialPayment", input.value, Scaled(shares), SumOf(Scaled(shares)),
                                allocatePartialPayment(input.value, shares)))
          /\ IsExact(DivisionOf("calculateFeeShareDeductions", input.value, Scaled(shares), SumOf(Scaled(shares)),
                                calculateFeeShareDeductions(input.value, shares)))
    BY <2>2, InputFacts, CalculateFeeSharesIsExact, ShareDeductionsAreExact
  <2>4. IsLedgerAmount(input) =>
          IsExact(DivisionOf("splitByWeights", input.value, shares, SumOf(shares), splitByWeights(input.value, shares)))
    BY <2>2, InputFacts, SplitByWeightsIsExact
  <2>5. QED
    BY <1>1, <2>1, <2>3, <2>4 DEF AnswerDivision
<1>7. CASE DivideEqually
  <2>1. PICK input \in Inputs, divisor \in 0 .. MaxParts :
          AnswerDivision("divideWithRounding", input, IsLedgerAmount, [i \in 1 .. divisor |-> 1], divisor,
            divideWithRounding(input.value, divisor))
    BY <1>7 DEF DivideEqually
  <2>2. divisor \in Nat
    BY SplitsAssumption
  <2>3. IsLedgerAmount(input) =>
          IsExact(DivisionOf("divideWithRounding", input.value, [i \in 1 .. divisor |-> 1], divisor,
                             divideWithRounding(input.value, divisor)))
    BY <2>2, InputFacts, DivideWithRoundingIsExact
  <2>4. QED
    BY <1>1, <2>1, <2>3 DEF AnswerDivision
<1>8. QED
  BY <1>2, <1>3, <1>4, <1>5, <1>6, <1>7 DEF SplitNext

\* Whatever the amount, the weights and the number of parts, a division that is
\* not refused gives out exactly the amount, each part to a unit of its share.
THEOREM SplitsExact == SplitSpec => []SplitsAreExact
<1>1. SplitsAreExact <=> IsExact(division)
  BY DEF SplitsAreExact, IsExact
<1>2. SplitInit => SplitsAreExact
  BY <1>1, RejectedIsExact DEF SplitInit, NoDivision
<1>3. SplitsAreExact /\ [SplitNext]_splitVars => SplitsAreExact'
  <2> SUFFICES ASSUME SplitsAreExact, [SplitNext]_splitVars PROVE SplitsAreExact'
    OBVIOUS
  <2>1. SplitsAreExact' <=> IsExact(division')
    BY DEF SplitsAreExact, IsExact
  <2>2. CASE SplitNext
    BY <2>1, <2>2, AnswerIsExact
  <2>3. CASE UNCHANGED splitVars
    BY <1>1, <2>1, <2>3 DEF splitVars
  <2>4. QED
    BY <2>2, <2>3
<1>4. QED
  BY <1>2, <1>3, PTL DEF SplitSpec

\* The types of one division.
IsTyped(d) == d.total \in Int /\ d.whole \in Int /\ (d.outcome.ok => d.outcome.rest \in Int)

\* A division is typed when its numbers are.
LEMMA TypedWhen ==
  ASSUME NEW op, NEW total \in Int, NEW weights, NEW whole \in Int, NEW outcome,
         outcome.ok => outcome.rest \in Int
  PROVE  IsTyped(DivisionOf(op, total, weights, whole, outcome))
  BY DEF IsTyped, DivisionOf

\* The rest is none where it is not what the shares leave over.
LEMMA RestIsNone ==
  ASSUME NEW total, NEW x, NEW y
  PROVE  /\ calculateFeeAllocation(total, x).ok => calculateFeeAllocation(total, x).rest \in Int
         /\ allocatePayment(total, x).ok => allocatePayment(total, x).rest \in Int
         /\ calculatePercentageFeeAllocation(total, x).ok => calculatePercentageFeeAllocation(total, x).rest \in Int
         /\ calculateFeeDeduction(total, x, y).ok => calculateFeeDeduction(total, x, y).rest \in Int
         /\ calculateFeeDeductionHalfEven(total, x).ok => calculateFeeDeductionHalfEven(total, x).rest \in Int
         /\ applyRefundRatio(total, x).ok => applyRefundRatio(total, x).rest \in Int
         /\ calculateFeeShareDeductions(total, x).ok => calculateFeeShareDeductions(total, x).rest \in Int
         /\ splitByWeights(total, x).ok => splitByWeights(total, x).rest \in Int
         /\ divideWithRounding(total, x).ok => divideWithRounding(total, x).rest \in Int
<1>1. ~ Rejected.ok /\ \A p : Parts(p, 0).rest \in Int
  BY DEF Rejected, Parts
<1>2. \A z : calculateFeeAllocation(total, z).ok => calculateFeeAllocation(total, z).rest \in Int
  BY <1>1 DEF calculateFeeAllocation
<1>3. calculatePercentageFeeAllocation(total, x).ok => calculatePercentageFeeAllocation(total, x).rest \in Int
  <2>1. calculatePercentageFeeAllocation(total, x) = Rejected
        \/ \E z : calculatePercentageFeeAllocation(total, x) = calculateFeeAllocation(total, z)
    BY Zenon DEF calculatePercentageFeeAllocation
  <2>2. QED
    BY <1>1, <1>2, <2>1
<1>4. /\ allocatePayment(total, x).ok => allocatePayment(total, x).rest \in Int
      /\ calculateFeeDeduction(total, x, y).ok => calculateFeeDeduction(total, x, y).rest \in Int
      /\ calculateFeeDeductionHalfEven(total, x).ok => calculateFeeDeductionHalfEven(total, x).rest \in Int
      /\ applyRefundRatio(total, x).ok => applyRefundRatio(total, x).rest \in Int
  BY <1>1 DEF allocatePayment, calculateFeeDeduction, calculateFeeDeductionHalfEven, applyRefundRatio
<1>5. /\ calculateFeeShareDeductions(total, x).ok => calculateFeeShareDeductions(total, x).rest \in Int
      /\ splitByWeights(total, x).ok => splitByWeights(total, x).rest \in Int
      /\ divideWithRounding(total, x).ok => divideWithRounding(total, x).rest \in Int
  BY <1>1 DEF calculateFeeShareDeductions, splitByWeights, divideWithRounding
<1>6. QED
  BY <1>2, <1>3, <1>4, <1>5

\* What shares leave over is a number.
LEMMA SharesRest ==
  ASSUME NEW total \in Int, NEW shares \in Seq(Nat)
  PROVE  /\ calculateFeeShares(total, shares).ok => calculateFeeShares(total, shares).rest \in Int
         /\ allocatePartialPayment(total, shares).ok => allocatePartialPayment(total, shares).rest \in Int
<1>1. ~ Rejected.ok
  BY DEF Rejected
<1>2. ASSUME AreShares(shares) PROVE SharesAndRest(total, shares).rest \in Int
  <2> DEFINE w == Scaled(shares)
             parts == Truncated(total, w, SumOf(w))
  <2>1. w \in Seq(Int) /\ SumOf(w) \in Nat \ {0}
    BY <1>2, ScaledType DEF AreShares
  <2> HIDE DEF w
  <2>2. parts \in Seq(Int)
    BY <2>1, TruncatedParts
  <2>3. SumOf(parts) \in Int
    BY <2>2, SumType
  <2>4. SharesAndRest(total, shares).rest = total - SumOf(parts)
    BY DEF SharesAndRest, Parts, w
  <2>5. QED
    BY <2>3, <2>4
<1>3. QED
  BY <1>1, <1>2 DEF calculateFeeShares, allocatePartialPayment

\* Every step of a division leaves it typed.
LEMMA AnswerIsTyped ==
  ASSUME SplitNext
  PROVE  IsTyped(division')
<1>1. \A op : IsTyped(DivisionOf(op, 0, <<>>, 1, Rejected))
  BY TypedWhen DEF Rejected
<1>2. Bps \in Int /\ 1 \in Int /\ \A input \in Inputs : input.value \in Int
  BY SplitsAssumption, InputFacts
<1>3. CASE Allocate
  <2>1. PICK input \in Inputs, amounts \in SeqOf(GivenAmounts, MaxParts) :
          \/ AnswerDivision("calculateFeeAllocation", input, IsLedgerAmount, <<>>, 1,
               calculateFeeAllocation(input.value, amounts))
          \/ AnswerDivision("allocatePayment", input, IsLedgerAmount, <<>>, 1,
               allocatePayment(input.value, amounts))
    BY <1>3 DEF Allocate
  <2>2. /\ IsTyped(DivisionOf("calculateFeeAllocation", input.value, <<>>, 1, calculateFeeAllocation(input.value, amounts)))
        /\ IsTyped(DivisionOf("allocatePayment", input.value, <<>>, 1, allocatePayment(input.value, amounts)))
    BY <1>2, RestIsNone, TypedWhen
  <2>3. QED
    BY <1>1, <2>1, <2>2 DEF AnswerDivision
<1>4. CASE AllocatePercentages
  <2>1. PICK input \in Inputs, percentages \in SeqOf(Percentages, MaxParts) :
          AnswerDivision("calculatePercentageFeeAllocation", input, IsLedgerAmount,
            SubSeq(basisPoints(percentages), 1, Len(percentages) - 1), Bps,
            calculatePercentageFeeAllocation(input.value, percentages))
    BY <1>4 DEF AllocatePercentages
  <2>2. \A w : IsTyped(DivisionOf("calculatePercentageFeeAllocation", input.value, w, Bps,
                                  calculatePercentageFeeAllocation(input.value, percentages)))
    BY <1>2, RestIsNone, TypedWhen
  <2>3. QED
    BY <1>1, <2>1, <2>2 DEF AnswerDivision
<1>5. CASE DeductFee
  <2>1. PICK input \in Inputs, rate \in Inputs, scale \in Inputs :
          AnswerDivision("calculateFeeDeduction", input, IsInteger, <<rate.value>>, scale.value,
            calculateFeeDeduction(input.value, rate.value, scale.value))
    BY <1>5 DEF DeductFee
  <2>2. IsTyped(DivisionOf("calculateFeeDeduction", input.value, <<rate.value>>, scale.value,
                           calculateFeeDeduction(input.value, rate.value, scale.value)))
    BY <1>2, RestIsNone, TypedWhen
  <2>3. QED
    BY <1>1, <2>1, <2>2 DEF AnswerDivision
<1>6. CASE DeductHalfEven
  <2>1. PICK input \in Inputs, rate \in -1 .. Bps + 1 :
          \/ AnswerDivision("calculateFeeDeductionHalfEven", input, IsLedgerAmount, <<rate>>, Bps,
               calculateFeeDeductionHalfEven(input.value, rate))
          \/ AnswerDivision("applyFeeBasisPoints", input, IsLedgerAmount, <<rate>>, Bps,
               applyFeeBasisPoints(input.value, rate))
          \/ AnswerDivision("applyRefundRatio", input, IsLedgerAmount, <<rate>>, Bps,
               applyRefundRatio(input.value, rate))
    BY <1>6 DEF DeductHalfEven
  <2>2. /\ \A op : IsTyped(DivisionOf(op, input.value, <<rate>>, Bps, calculateFeeDeductionHalfEven(input.value, rate)))
        /\ IsTyped(DivisionOf("applyRefundRatio", input.value, <<rate>>, Bps, applyRefundRatio(input.value, rate)))
    BY <1>2, RestIsNone, TypedWhen
  <2>3. QED
    BY <1>1, <2>1, <2>2 DEF AnswerDivision, applyFeeBasisPoints
<1>7. CASE ShareOut
  <2>1. PICK input \in Inputs, shares \in SeqOf(Shares, MaxParts) :
          \/ AnswerDivision("calculateFeeShares", input, IsInteger, Scaled(shares), SumOf(Scaled(shares)),
               calculateFeeShares(input.value, shares))
          \/ AnswerDivision("calculateFeeShareDeductions", input, IsInteger, Scaled(shares), SumOf(Scaled(shares)),
               calculateFeeShareDeductions(input.value, shares))
          \/ AnswerDivision("allocatePartialPayment", input, IsInteger, Scaled(shares), SumOf(Scaled(shares)),
               allocatePartialPayment(input.value, shares))
          \/ AnswerDivision("splitByWeights", input, IsLedgerAmount, shares, SumOf(shares),
               splitByWeights(input.value, shares))
    BY <1>7 DEF ShareOut
  <2>2. shares \in Seq(Nat) /\ shares \in Seq(Int)
    <3>1. shares \in Seq(Nat)
      BY SeqOfType, SplitsAssumption
    <3>2. QED
      BY <3>1
  <2>3. SumOf(shares) \in Int /\ SumOf(Scaled(shares)) \in Int
    BY <2>2, SumType, ScaledType
  <2>4. /\ IsTyped(DivisionOf("calculateFeeShares", input.value, Scaled(shares), SumOf(Scaled(shares)),
                              calculateFeeShares(input.value, shares)))
        /\ IsTyped(DivisionOf("allocatePartialPayment", input.value, Scaled(shares), SumOf(Scaled(shares)),
                              allocatePartialPayment(input.value, shares)))
    BY <1>2, <2>2, <2>3, SharesRest, TypedWhen
  <2>5. /\ IsTyped(DivisionOf("calculateFeeShareDeductions", input.value, Scaled(shares), SumOf(Scaled(shares)),
                              calculateFeeShareDeductions(input.value, shares)))
        /\ IsTyped(DivisionOf("splitByWeights", input.value, shares, SumOf(shares), splitByWeights(input.value, shares)))
    BY <1>2, <2>3, RestIsNone, TypedWhen
  <2>6. QED
    BY <1>1, <2>1, <2>4, <2>5 DEF AnswerDivision
<1>8. CASE DivideEqually
  <2>1. PICK input \in Inputs, divisor \in 0 .. MaxParts :
          AnswerDivision("divideWithRounding", input, IsLedgerAmount, [i \in 1 .. divisor |-> 1], divisor,
            divideWithRounding(input.value, divisor))
    BY <1>8 DEF DivideEqually
  <2>2. divisor \in Int
    BY SplitsAssumption
  <2>3. \A w : IsTyped(DivisionOf("divideWithRounding", input.value, w, divisor, divideWithRounding(input.value, divisor)))
    BY <1>2, <2>2, RestIsNone, TypedWhen
  <2>4. QED
    BY <1>1, <2>1, <2>3 DEF AnswerDivision
<1>9. QED
  BY <1>3, <1>4, <1>5, <1>6, <1>7, <1>8 DEF SplitNext

\* The total, the whole and the rest of every division are numbers.
THEOREM SplitTypes == SplitSpec => []SplitTypeOK
<1>1. SplitTypeOK <=> IsTyped(division)
  BY DEF SplitTypeOK, IsTyped
<1>2. SplitInit => SplitTypeOK
  BY <1>1, TypedWhen DEF SplitInit, NoDivision, Rejected
<1>3. SplitTypeOK /\ [SplitNext]_splitVars => SplitTypeOK'
  <2> SUFFICES ASSUME SplitTypeOK, [SplitNext]_splitVars PROVE SplitTypeOK'
    OBVIOUS
  <2>1. SplitTypeOK' <=> IsTyped(division')
    BY DEF SplitTypeOK, IsTyped
  <2>2. CASE SplitNext
    BY <2>1, <2>2, AnswerIsTyped
  <2>3. CASE UNCHANGED splitVars
    BY <1>1, <2>1, <2>3 DEF splitVars
  <2>4. QED
    BY <2>2, <2>3
<1>4. QED
  BY <1>2, <1>3, PTL DEF SplitSpec

(***************************************************************************)
(* TaxEstimator                                                            *)
(***************************************************************************)

\* The bound of band j, the part of the amount in it, and its rounding, of any call.
Least(x, y) == IF x < y THEN x ELSE y
BoundIn(gross, brackets, j) ==
  IF j = 0 THEN 0 ELSE IF brackets[j].upTo = NoBound THEN gross ELSE brackets[j].upTo
SliceIn(gross, brackets, i) ==
  Least(gross, BoundIn(gross, brackets, i)) - Least(gross, BoundIn(gross, brackets, i - 1))
PolicyIn(brackets, mode, i) == IF brackets[i].mode = "default" THEN mode ELSE brackets[i].mode

BracketType == [upTo : Nat \cup {NoBound}, rate : Nat, scale : Nat, mode : RoundingModes \cup {"default"}]

IsSliceTax(gross, brackets, mode, i, tax) ==
  RoundedAs(SliceIn(gross, brackets, i) * brackets[i].rate, brackets[i].scale,
            normalizeRoundingMode(PolicyIn(brackets, mode, i)), tax)

\* What EachSliceIsTaxed says of one estimate.
IsTaxed(e) ==
  e.outcome.ok =>
    /\ e.outcome.net + SumOf(e.outcome.taxes) = e.gross
    /\ \A i \in DOMAIN e.brackets : IsSliceTax(e.gross, e.brackets, e.mode, i, e.outcome.taxes[i])
    /\ e.op # "estimateBracketTax" =>
         IsConserved(e.gross, e.brackets[1].rate, e.brackets[1].scale, e.outcome)

\* The state of the loop after k brackets, as estimateBracketTax computes it.
IsTaxRun(so, gross, brackets, mode, k) ==
  so = [n \in 0 .. k |-> IF n = 0 THEN [remaining |-> gross, lower |-> 0, taxes |-> <<>>]
                         ELSE TaxSlice(so[n - 1], brackets[n], mode)]

\* The loop over the brackets has a run: what remains before each of them.
LEMMA TaxRunExists ==
  ASSUME NEW gross, NEW brackets, Len(brackets) \in Nat, NEW mode
  PROVE  \E so : IsTaxRun(so, gross, brackets, mode, Len(brackets))
<1> DEFINE n == Len(brackets)
           first == [remaining |-> gross, lower |-> 0, taxes |-> <<>>]
           Then(x, j) == TaxSlice(x, brackets[j], mode)
           N == {k \in 0 .. n : \E so : so = [j \in 0 .. k |-> IF j = 0 THEN first ELSE Then(so[j - 1], j)]}
<1> HIDE DEF first, Then, n
<1>1. n \in Nat
  BY DEF n
<1>2. 0 \in N
  <2> DEFINE so == [j \in 0 .. 0 |-> first]
  <2>1. \A j \in 0 .. 0 : so[j] = IF j = 0 THEN first ELSE Then(so[j - 1], j)
    OBVIOUS
  <2>2. so = [j \in 0 .. 0 |-> IF j = 0 THEN first ELSE Then(so[j - 1], j)]
    BY <2>1
  <2> HIDE DEF so
  <2>3. QED
    BY <1>1, <2>2
<1>3. ASSUME NEW k \in 0 .. n - 1, k \in N PROVE k + 1 \in N
  <2>1. PICK so : so = [j \in 0 .. k |-> IF j = 0 THEN first ELSE Then(so[j - 1], j)]
    BY <1>3
  <2> DEFINE g == [j \in 0 .. k + 1 |-> IF j = k + 1 THEN Then(so[k], k + 1) ELSE so[j]]
  <2>2. k \in Nat /\ k + 1 \in 0 .. n
    BY <1>1
  <2>3. ASSUME NEW j \in 0 .. k + 1 PROVE g[j] = IF j = 0 THEN first ELSE Then(g[j - 1], j)
    <3>1. CASE j = k + 1
      <4>1. j # 0 /\ j - 1 = k /\ k \in 0 .. k + 1 /\ k # k + 1
        BY <2>2, <3>1
      <4>2. g[k] = so[k] /\ g[j] = Then(so[k], k + 1)
        BY <3>1, <4>1
      <4>3. QED
        BY <3>1, <4>1, <4>2
    <3>2. CASE j # k + 1 /\ j # 0
      <4>1. j \in 0 .. k /\ j - 1 \in 0 .. k + 1 /\ j - 1 # k + 1
        BY <2>2, <3>2
      <4>2. g[j] = so[j] /\ g[j - 1] = so[j - 1]
        BY <3>2, <4>1
      <4>3. so[j] = Then(so[j - 1], j)
        BY <2>1, <3>2, <4>1
      <4>4. QED
        BY <3>2, <4>2, <4>3
    <3>3. CASE j = 0
      <4>1. j # k + 1 /\ 0 \in 0 .. k
        BY <2>2, <3>3
      <4>2. so[0] = first
        BY <2>1, <4>1
      <4>3. QED
        BY <3>3, <4>1, <4>2
    <3>4. QED
      BY <3>1, <3>2, <3>3
  <2>4. g = [j \in 0 .. k + 1 |-> g[j]]
    OBVIOUS
  <2> HIDE DEF g
  <2>5. g = [j \in 0 .. k + 1 |-> IF j = 0 THEN first ELSE Then(g[j - 1], j)]
    BY <2>3, <2>4
  <2>6. QED
    BY <2>2, <2>5
<1>4. n \in N
  <2> HIDE DEF N
  <2>1. \A k \in 0 .. n : k \in N
    BY <1>1, <1>2, <1>3, Upwards
  <2>2. QED
    BY <1>1, <2>1
<1>5. PICK so : so = [j \in 0 .. n |-> IF j = 0 THEN first ELSE Then(so[j - 1], j)]
  BY <1>4
<1>6. IsTaxRun(so, gross, brackets, mode, n)
  BY <1>5 DEF IsTaxRun, first, Then
<1>7. QED
  BY <1>6 DEF n

\* What the loop has done after k brackets: the amount up to the bound is taxed.
TaxedSoFar(s, gross, brackets, mode, k) ==
  /\ s \in [remaining : Int, lower : Int, taxes : Seq(Int)]
  /\ s.remaining = gross - Least(gross, BoundIn(gross, brackets, k))
  /\ s.remaining > 0 => s.lower = BoundIn(gross, brackets, k)
  /\ Len(s.taxes) = k
  /\ \A i \in 1 .. k : IsSliceTax(gross, brackets, mode, i, s.taxes[i])

\* Bounds are numbers that ascend, up to the amount where there is none.
LEMMA BoundsAscend ==
  ASSUME NEW gross \in Nat, NEW brackets \in Seq(BracketType), IsSchedule(brackets), NEW k \in 1 .. Len(brackets)
  PROVE  /\ BoundIn(gross, brackets, k) \in Nat /\ BoundIn(gross, brackets, k - 1) \in Nat
         /\ brackets[k].upTo = NoBound => BoundIn(gross, brackets, k) = gross
         /\ brackets[k].upTo # NoBound =>
              BoundIn(gross, brackets, k) = brackets[k].upTo /\ BoundIn(gross, brackets, k - 1) <= brackets[k].upTo
<1>1. \A j \in 1 .. Len(brackets) : brackets[j].upTo \in Nat \cup {NoBound}
  <2>1. \A j \in 1 .. Len(brackets) : brackets[j] \in BracketType
    OBVIOUS
  <2>2. \A b \in BracketType : b.upTo \in Nat \cup {NoBound}
    BY DEF BracketType
  <2>3. QED
    BY <2>1, <2>2
<1>2. Len(brackets) \in Nat /\ DOMAIN brackets = 1 .. Len(brackets) /\ k # 0
  OBVIOUS
<1>3. CASE k = 1
  <2>1. BoundIn(gross, brackets, k - 1) = 0
    BY <1>3 DEF BoundIn
  <2>2. QED
    BY <1>1, <1>2, <2>1 DEF BoundIn, NoBound
<1>4. CASE k # 1
  <2>1. k - 1 \in 1 .. Len(brackets) /\ k - 1 # Len(brackets) /\ k - 1 # 0
    BY <1>2, <1>4
  <2>2. brackets[k - 1].upTo # NoBound
    BY <1>2, <2>1 DEF IsSchedule
  <2>3. brackets[k].upTo # NoBound => brackets[k].upTo > brackets[k - 1].upTo
    BY <1>2, <1>4 DEF IsSchedule
  <2>4. BoundIn(gross, brackets, k - 1) = brackets[k - 1].upTo /\ brackets[k - 1].upTo \in Nat
    BY <1>1, <2>1, <2>2 DEF BoundIn
  <2>5. QED
    BY <1>1, <1>2, <2>3, <2>4 DEF BoundIn, NoBound
<1>5. QED
  BY <1>3, <1>4

\* A bracket taxes the part of the amount in its band.
LEMMA TaxSliceStep ==
  ASSUME NEW gross \in Nat, NEW brackets \in Seq(BracketType), IsSchedule(brackets),
         NEW mode \in RoundingModes, NEW k \in 1 .. Len(brackets),
         NEW s, TaxedSoFar(s, gross, brackets, mode, k - 1)
  PROVE  TaxedSoFar(TaxSlice(s, brackets[k], mode), gross, brackets, mode, k)
<1> DEFINE b == brackets[k]
           low == BoundIn(gross, brackets, k - 1)
           high == BoundIn(gross, brackets, k)
           policy == PolicyIn(brackets, mode, k)
           t == TaxSlice(s, b, mode)
<1>1. /\ low \in Nat /\ high \in Nat
      /\ b.upTo = NoBound => high = gross
      /\ b.upTo # NoBound => high = b.upTo /\ low <= b.upTo
  BY BoundsAscend
<1>2. b \in BracketType /\ b.rate \in Nat /\ b.scale \in Nat /\ b.scale > 0 /\ b.upTo \in Int
  <2>1. k \in DOMAIN brackets /\ b \in BracketType
    OBVIOUS
  <2>2. b.scale > 0
    BY <2>1 DEF IsSchedule
  <2>3. QED
    BY <2>1, <2>2 DEF BracketType, NoBound
<1>3. policy \in RoundingModes
  BY <1>2 DEF PolicyIn, BracketType
<1>4. /\ s \in [remaining : Int, lower : Int, taxes : Seq(Int)]
      /\ s.remaining = gross - Least(gross, low)
      /\ s.remaining > 0 => s.lower = low
      /\ Len(s.taxes) = k - 1
      /\ \A i \in 1 .. k - 1 : IsSliceTax(gross, brackets, mode, i, s.taxes[i])
  BY DEF TaxedSoFar
<1> HIDE DEF low, high
<1>5. \E tax \in Int :
        /\ IsSliceTax(gross, brackets, mode, k, tax) /\ t.taxes = Append(s.taxes, tax)
        /\ t \in [remaining : Int, lower : Int, taxes : Seq(Int)]
        /\ t.remaining = gross - Least(gross, high)
        /\ t.remaining > 0 => t.lower = high
  <2>1. CASE s.remaining <= 0
    <3>1. t = [s EXCEPT !.taxes = Append(@, 0)]
      BY <2>1 DEF TaxSlice
    <3>2. gross <= low
      BY <1>1, <1>4, <2>1 DEF Least
    <3>3. Least(gross, high) = gross /\ Least(gross, low) = gross
      BY <1>1, <3>2 DEF Least
    <3>4. s.remaining = 0 /\ SliceIn(gross, brackets, k) = 0
      BY <1>4, <3>3 DEF SliceIn, low, high
    <3>5. IsSliceTax(gross, brackets, mode, k, 0)
      <4>1. 0 * b.rate = 0 /\ 0 * b.scale = 0 /\ Abs(b.scale) = b.scale /\ Abs(0) = 0 /\ ~ (b.scale < 0)
        BY <1>2 DEF Abs
      <4>2. \A m : m # "half-up" => RoundedAs(0, b.scale, m, 0)
        BY <1>2, <4>1 DEF RoundedAs
      <4>3. \A m : RoundedAs(0, b.scale, m, 0)
        BY <1>2, <4>1 DEF RoundedAs
      <4>4. QED
        BY <3>4, <4>1, <4>3 DEF IsSliceTax
    <3>6. /\ t \in [remaining : Int, lower : Int, taxes : Seq(Int)]
          /\ t.taxes = Append(s.taxes, 0) /\ t.remaining = 0
      <4>1. Append(s.taxes, 0) \in Seq(Int)
        BY <1>4
      <4> HIDE DEF t
      <4>2. QED
        BY <1>4, <3>1, <3>4, <4>1
    <3>7. QED
      BY <3>3, <3>5, <3>6
  <2>2. CASE s.remaining > 0
    <3> DEFINE width == IF b.upTo = NoBound THEN s.remaining ELSE b.upTo - s.lower
               slice == IF s.remaining < width THEN s.remaining ELSE width
               tax == divRound(slice * b.rate, b.scale, policy)
    <3>1. t = [remaining |-> s.remaining - slice,
               lower |-> IF b.upTo = NoBound THEN s.lower ELSE b.upTo,
               taxes |-> Append(s.taxes, tax)]
      BY <2>2, <1>4 DEF TaxSlice, PolicyIn
    <3>2. low < gross /\ s.remaining = gross - low /\ s.lower = low /\ Least(gross, low) = low
      BY <1>1, <1>4, <2>2 DEF Least
    <3>3. slice = Least(gross, high) - low /\ slice \in Nat
      <4>1. CASE b.upTo = NoBound
        BY <1>1, <3>2, <4>1 DEF Least
      <4>2. CASE b.upTo # NoBound
        BY <1>1, <3>2, <4>2 DEF Least
      <4>3. QED
        BY <4>1, <4>2
    <3>4. SliceIn(gross, brackets, k) = slice
      BY <3>2, <3>3 DEF SliceIn, low, high
    <3> HIDE DEF slice
    <3>5. tax \in Int /\ IsSliceTax(gross, brackets, mode, k, tax)
      <4>1. slice * b.rate \in Int /\ b.scale \in Int \ {0}
        BY <1>2, <3>3
      <4>2. tax \in Int /\ RoundedAs(slice * b.rate, b.scale, normalizeRoundingMode(policy), tax)
        BY <1>3, <4>1, DivRoundIsRounded
      <4> HIDE DEF tax
      <4>3. QED
        BY <3>4, <4>2 DEF IsSliceTax
    <3> HIDE DEF tax
    <3>6. /\ t.remaining = s.remaining - slice /\ t.taxes = Append(s.taxes, tax)
          /\ t.lower = IF b.upTo = NoBound THEN s.lower ELSE b.upTo
          /\ t \in [remaining : Int, lower : Int, taxes : Seq(Int)]
      <4>1. /\ s.remaining - slice \in Int /\ (IF b.upTo = NoBound THEN s.lower ELSE b.upTo) \in Int
            /\ Append(s.taxes, tax) \in Seq(Int)
        BY <1>2, <1>4, <3>3, <3>5
      <4>2. QED
        BY <3>1, <4>1
    <3>7. t.remaining = gross - Least(gross, high)
      BY <1>1, <3>2, <3>3, <3>6 DEF Least
    <3>8. t.remaining > 0 => t.lower = high
      BY <1>1, <3>6, <3>7 DEF Least
    <3>9. QED
      BY <3>5, <3>6, <3>7, <3>8
  <2>3. QED
    BY <1>4, <2>1, <2>2
<1> HIDE DEF t
<1>6. PICK tax \in Int :
        /\ IsSliceTax(gross, brackets, mode, k, tax) /\ t.taxes = Append(s.taxes, tax)
        /\ t \in [remaining : Int, lower : Int, taxes : Seq(Int)]
        /\ t.remaining = gross - Least(gross, high)
        /\ t.remaining > 0 => t.lower = high
  BY <1>5
<1>7. s.taxes \in Seq(Int) /\ k \in Nat /\ k > 0
  BY <1>4
<1>8. Len(t.taxes) = k /\ t.taxes[k] = tax /\ \A i \in 1 .. k - 1 : t.taxes[i] = s.taxes[i]
  BY <1>4, <1>6, <1>7
<1>9. ASSUME NEW i \in 1 .. k PROVE IsSliceTax(gross, brackets, mode, i, t.taxes[i])
  <2>1. i \in 1 .. k - 1 \/ i = k
    BY <1>7
  <2>2. QED
    BY <1>4, <1>6, <1>8, <2>1
<1>10. QED
  BY <1>6, <1>8, <1>9 DEF TaxedSoFar, t, high

\* A schedule taxes each band.
LEMMA EstimateBracketTax ==
  ASSUME NEW gross \in Nat, NEW brackets \in Seq(BracketType), NEW mode \in RoundingModes
  PROVE  LET e == Estimate("estimateBracketTax", gross, brackets, mode, estimateBracketTax(gross, brackets, mode))
         IN IsTaxed(e) /\ (e.outcome.ok => e.outcome.net \in Nat)
<1> DEFINE n == Len(brackets)
           first == [remaining |-> gross, lower |-> 0, taxes |-> <<>>]
           IsIt(g) == g = [j \in 0 .. n |-> IF j = 0 THEN first ELSE TaxSlice(g[j - 1], brackets[j], mode)]
           so == CHOOSE g : IsIt(g)
           done == so[n]
           outcome == estimateBracketTax(gross, brackets, mode)
           e == Estimate("estimateBracketTax", gross, brackets, mode, outcome)
<1>1. n \in Nat
  OBVIOUS
<1>2. IsIt(so)
  <2>1. PICK g : IsTaxRun(g, gross, brackets, mode, n)
    BY <1>1, TaxRunExists
  <2>2. IsIt(g)
    BY <2>1 DEF IsTaxRun
  <2> HIDE DEF IsIt
  <2>3. QED
    BY <2>2, Zenon
<1>3. outcome = IF IsSchedule(brackets) /\ SumOf(done.taxes) <= gross
                THEN Taxes(done.taxes, gross - SumOf(done.taxes), 0) ELSE Rejected
  BY DEF estimateBracketTax
<1>4. \A j \in 0 .. n : so[j] = IF j = 0 THEN first ELSE TaxSlice(so[j - 1], brackets[j], mode)
  <2> HIDE DEF so, first
  <2>1. QED
    BY <1>2
<1> HIDE DEF so
<1>5. /\ e.op = "estimateBracketTax" /\ e.gross = gross /\ e.brackets = brackets /\ e.mode = mode
      /\ e.outcome = outcome
  BY DEF Estimate
<1> HIDE DEF e, outcome
<1>6. CASE ~ (IsSchedule(brackets) /\ SumOf(done.taxes) <= gross)
  <2>1. ~ outcome.ok
    BY <1>3, <1>6 DEF Rejected
  <2>2. IsTaxed(e) /\ (e.outcome.ok => e.outcome.net \in Nat)
    BY <1>5, <2>1 DEF IsTaxed
  <2>3. QED
    BY <2>2 DEF e, outcome
<1>7. CASE IsSchedule(brackets) /\ SumOf(done.taxes) <= gross
  <2> DEFINE N == {k \in 0 .. n : TaxedSoFar(so[k], gross, brackets, mode, k)}
  <2>1. 0 \in N
    <3>1. so[0] = first /\ 0 \in 0 .. n
      BY <1>1, <1>4
    <3>2. TaxedSoFar(first, gross, brackets, mode, 0)
      BY DEF TaxedSoFar, BoundIn, Least
    <3> HIDE DEF first
    <3>3. QED
      BY <3>1, <3>2
  <2>2. ASSUME NEW k \in 0 .. n - 1, k \in N PROVE k + 1 \in N
    <3>1. k + 1 \in 1 .. n /\ k + 1 \in 0 .. n /\ k + 1 # 0 /\ (k + 1) - 1 = k
      BY <1>1
    <3>2. so[k + 1] = TaxSlice(so[k], brackets[k + 1], mode)
      BY <1>4, <3>1
    <3>3. TaxedSoFar(so[(k + 1) - 1], gross, brackets, mode, (k + 1) - 1)
      BY <2>2, <3>1
    <3>4. TaxedSoFar(TaxSlice(so[(k + 1) - 1], brackets[k + 1], mode), gross, brackets, mode, k + 1)
      BY <1>7, <3>1, <3>3, TaxSliceStep
    <3>5. QED
      BY <3>1, <3>2, <3>4
  <2>3. TaxedSoFar(done, gross, brackets, mode, n)
    <3> HIDE DEF N
    <3>1. \A k \in 0 .. n : k \in N
      BY <1>1, <2>1, <2>2, Upwards
    <3>2. n \in N
      BY <1>1, <3>1
    <3>3. QED
      BY <3>2 DEF N
  <2>4. /\ done.taxes \in Seq(Int)
        /\ \A i \in 1 .. n : IsSliceTax(gross, brackets, mode, i, done.taxes[i])
    BY <2>3 DEF TaxedSoFar
  <2>5. SumOf(done.taxes) \in Int
    BY <2>4, SumType
  <2>6. outcome.taxes = done.taxes /\ outcome.net = gross - SumOf(done.taxes)
    BY <1>3, <1>7 DEF Taxes
  <2> HIDE DEF done
  <2>7. outcome.net + SumOf(outcome.taxes) = gross /\ outcome.net \in Nat
    BY <1>7, <2>5, <2>6
  <2>8. IsTaxed(e) /\ e.outcome.net \in Nat
    BY <1>5, <2>4, <2>6, <2>7 DEF IsTaxed
  <2>9. QED
    BY <2>8 DEF e, outcome
<1>8. QED
  BY <1>6, <1>7

\* A flat rate taxes the amount, and its remainder is what the quotient leaves.
LEMMA CalculateTaxDeduction ==
  ASSUME NEW op, op # "estimateBracketTax", NEW gross \in Nat, NEW rate \in Nat, NEW scale \in Nat,
         NEW mode \in RoundingModes
  PROVE  LET e == Estimate(op, gross, <<Bracket(NoBound, rate, scale, "default")>>, mode,
                           calculateTaxDeduction(gross, rate, scale, mode))
         IN IsTaxed(e) /\ (e.outcome.ok => e.outcome.net \in Nat)
<1> DEFINE n == gross * rate
           tax == divRound(n, scale, mode)
           brackets == <<Bracket(NoBound, rate, scale, "default")>>
           outcome == calculateTaxDeduction(gross, rate, scale, mode)
           e == Estimate(op, gross, brackets, mode, outcome)
<1>1. outcome = IF scale > 0 /\ rate <= scale /\ tax <= gross
                THEN Taxes(<<tax>>, gross - tax, n % scale) ELSE Rejected
  BY DEF calculateTaxDeduction
<1>2. /\ DOMAIN brackets = {1} /\ brackets[1].upTo = NoBound /\ brackets[1].rate = rate
      /\ brackets[1].scale = scale /\ brackets[1].mode = "default"
  BY DEF Bracket
<1>3. e.op = op /\ e.gross = gross /\ e.brackets = brackets /\ e.mode = mode /\ e.outcome = outcome
  BY DEF Estimate
<1> HIDE DEF e, outcome, brackets
<1>4. CASE ~ (scale > 0 /\ rate <= scale /\ tax <= gross)
  <2>1. ~ outcome.ok
    BY <1>1, <1>4 DEF Rejected
  <2>2. IsTaxed(e) /\ (e.outcome.ok => e.outcome.net \in Nat)
    BY <1>3, <2>1 DEF IsTaxed
  <2>3. QED
    BY <2>2 DEF e, outcome, brackets
<1>5. CASE scale > 0 /\ rate <= scale /\ tax <= gross
  <2>1. n \in Nat /\ scale \in Nat \ {0} /\ scale \in Int \ {0}
    BY <1>5
  <2>2. SliceIn(gross, brackets, 1) = gross
    <3>1. BoundIn(gross, brackets, 1) = gross /\ BoundIn(gross, brackets, 1 - 1) = 0
      BY <1>2 DEF BoundIn
    <3>2. QED
      BY <3>1 DEF SliceIn, Least
  <2>3. tax \in Int /\ RoundedAs(n, scale, normalizeRoundingMode(mode), tax)
    BY <2>1, DivRoundIsRounded
  <2>4. outcome.taxes = <<tax>> /\ outcome.net = gross - tax /\ outcome.rest = n % scale
    BY <1>1, <1>5 DEF Taxes
  <2>5. n = (n \div scale) * scale + (n % scale)
    BY <2>1, RemainderFacts
  <2> HIDE DEF tax
  <2>6. SumOf(outcome.taxes) = tax /\ outcome.taxes[1] = tax
    <3>1. SumOf(<<tax>>) = tax /\ <<tax>>[1] = tax
      BY <2>3, SumOfPair
    <3>2. QED
      BY <2>4, <3>1
  <2>7. IsSliceTax(gross, brackets, mode, 1, outcome.taxes[1])
    BY <1>2, <2>2, <2>3, <2>6 DEF IsSliceTax, PolicyIn
  <2>8. IsConserved(gross, brackets[1].rate, brackets[1].scale, outcome)
    BY <1>2, <2>3, <2>4, <2>5, <2>6 DEF IsConserved
  <2>9. outcome.net \in Nat /\ outcome.net + SumOf(outcome.taxes) = gross
    BY <1>5, <2>3, <2>4, <2>6
  <2>10. IsTaxed(e) /\ e.outcome.net \in Nat
    BY <1>2, <1>3, <2>7, <2>8, <2>9 DEF IsTaxed
  <2>11. QED
    BY <2>10 DEF e, outcome, brackets
<1>6. QED
  BY <1>4, <1>5

\* Every estimate answered is one of amounts, and taxed as it says.
LEMMA EstimateIsTaxed ==
  ASSUME TaxNext
  PROVE  /\ IsTaxed(estimate')
         /\ estimate'.gross \in Int /\ estimate'.mode \in RoundingModes
         /\ estimate'.outcome.ok => estimate'.outcome.net \in Nat
<1> DEFINE refused == [NoEstimate EXCEPT !.op = "refused"]
           IsGood(e) == /\ IsTaxed(e) /\ e.gross \in Int /\ e.mode \in RoundingModes
                        /\ e.outcome.ok => e.outcome.net \in Nat
<1>1. IsGood(refused)
  <2>1. refused.gross = 0 /\ refused.mode = "truncate" /\ ~ refused.outcome.ok
    BY DEF NoEstimate, Estimate, Rejected
  <2> HIDE DEF refused
  <2>2. QED
    BY <2>1 DEF IsTaxed, RoundingModes
<1>2. \A op, gross, brackets, mode, outcome :
        Estimate(op, gross, brackets, mode, outcome).gross = gross
        /\ Estimate(op, gross, brackets, mode, outcome).mode = mode
  BY DEF Estimate
<1>3. \A input \in Inputs : IsLedgerAmount(input) => input.value \in Nat
  BY InputFacts
<1>4. CASE DeductTax
  <2>1. PICK gross \in Inputs, rate \in Inputs, scale \in Inputs, mode \in RoundingModes :
          AnswerEstimate({gross, rate, scale},
            Estimate("calculateTaxDeduction", gross.value,
                     <<Bracket(NoBound, rate.value, scale.value, "default")>>, mode,
                     calculateTaxDeduction(gross.value, rate.value, scale.value, mode)))
    BY <1>4 DEF DeductTax
  <2> DEFINE e == Estimate("calculateTaxDeduction", gross.value,
                     <<Bracket(NoBound, rate.value, scale.value, "default")>>, mode,
                     calculateTaxDeduction(gross.value, rate.value, scale.value, mode))
  <2>2. CASE IsLedgerAmount(gross) /\ IsLedgerAmount(rate) /\ IsLedgerAmount(scale)
    <3>1. gross.value \in Nat /\ rate.value \in Nat /\ scale.value \in Nat
      BY <1>3, <2>2
    <3>2. IsTaxed(e) /\ (e.outcome.ok => e.outcome.net \in Nat)
      BY <3>1, CalculateTaxDeduction
    <3>3. e.gross \in Int /\ e.mode \in RoundingModes
      BY <1>2, <3>1
    <3>4. estimate' = e
      BY <2>1, <2>2 DEF AnswerEstimate
    <3> HIDE DEF e
    <3>5. QED
      BY <3>2, <3>3, <3>4
  <2>3. CASE ~ (IsLedgerAmount(gross) /\ IsLedgerAmount(rate) /\ IsLedgerAmount(scale))
    <3>1. estimate' = refused
      BY <2>1, <2>3 DEF AnswerEstimate
    <3> HIDE DEF refused
    <3>2. QED
      BY <1>1, <3>1
  <2>4. QED
    BY <2>2, <2>3
<1>5. CASE PreviewTax
  <2>1. PICK balance \in Inputs, rate \in Inputs :
          AnswerEstimate({balance, rate},
            Estimate("previewTaxWithholding", balance.value,
                     <<Bracket(NoBound, rate.value, BpsScale, "default")>>, "truncate",
                     previewTaxWithholding(balance.value, rate.value)))
    BY <1>5 DEF PreviewTax
  <2> DEFINE e == Estimate("previewTaxWithholding", balance.value,
                     <<Bracket(NoBound, rate.value, BpsScale, "default")>>, "truncate",
                     calculateTaxDeduction(balance.value, rate.value, BpsScale, "truncate"))
  <2>2. CASE IsLedgerAmount(balance) /\ IsLedgerAmount(rate)
    <3>1. balance.value \in Nat /\ rate.value \in Nat /\ BpsScale \in Nat /\ "truncate" \in RoundingModes
      BY <1>3, <2>2, TaxAssumption DEF RoundingModes
    <3>2. IsTaxed(e) /\ (e.outcome.ok => e.outcome.net \in Nat)
      BY <3>1, CalculateTaxDeduction
    <3>3. e.gross \in Int /\ e.mode \in RoundingModes
      BY <1>2, <3>1
    <3>4. estimate' = e
      BY <2>1, <2>2 DEF AnswerEstimate, previewTaxWithholding
    <3> HIDE DEF e
    <3>5. QED
      BY <3>2, <3>3, <3>4
  <2>3. CASE ~ (IsLedgerAmount(balance) /\ IsLedgerAmount(rate))
    <3>1. estimate' = refused
      BY <2>1, <2>3 DEF AnswerEstimate
    <3> HIDE DEF refused
    <3>2. QED
      BY <1>1, <3>1
  <2>4. QED
    BY <2>2, <2>3
<1>6. CASE EstimateBrackets
  <2>1. PICK gross \in Inputs, brackets \in SeqOf(Brackets, MaxBrackets), mode \in Policies :
          AnswerEstimate({gross}, Estimate("estimateBracketTax", gross.value, brackets, mode,
                                           estimateBracketTax(gross.value, brackets, mode)))
    BY <1>6 DEF EstimateBrackets
  <2> DEFINE e == Estimate("estimateBracketTax", gross.value, brackets, mode,
                           estimateBracketTax(gross.value, brackets, mode))
  <2>2. brackets \in Seq(BracketType) /\ mode \in RoundingModes
    <3>1. Brackets \in SUBSET BracketType /\ MaxBrackets \in Nat
      BY TaxAssumption DEF BracketType
    <3>2. QED
      BY <3>1, SeqOfType, TaxAssumption
  <2>3. CASE IsLedgerAmount(gross)
    <3>1. gross.value \in Nat
      BY <1>3, <2>3
    <3>2. IsTaxed(e) /\ (e.outcome.ok => e.outcome.net \in Nat)
      BY <2>2, <3>1, EstimateBracketTax
    <3>3. e.gross \in Int /\ e.mode \in RoundingModes
      BY <1>2, <2>2, <3>1
    <3>4. estimate' = e
      BY <2>1, <2>3 DEF AnswerEstimate
    <3> HIDE DEF e
    <3>5. QED
      BY <3>2, <3>3, <3>4
  <2>4. CASE ~ IsLedgerAmount(gross)
    <3>1. estimate' = refused
      BY <2>1, <2>4 DEF AnswerEstimate
    <3> HIDE DEF refused
    <3>2. QED
      BY <1>1, <3>1
  <2>5. QED
    BY <2>3, <2>4
<1>7. QED
  BY <1>4, <1>5, <1>6 DEF TaxNext

\* The estimate is right when it is made, and is made once.
LEMMA TaxInvariant == TaxSpec => [](EachSliceIsTaxed /\ TaxTypeOK)
<1> DEFINE IsGood(e) == /\ IsTaxed(e) /\ e.gross \in Int /\ e.mode \in RoundingModes
                        /\ e.outcome.ok => e.outcome.net \in Nat
<1>1. EachSliceIsTaxed /\ TaxTypeOK <=> IsGood(estimate)
  BY DEF EachSliceIsTaxed, TaxTypeOK, IsTaxed, IsSliceTax, PolicyIn, SliceIn, SliceOf, BoundIn, Least
<1>2. TaxInit => IsGood(estimate)
  <2>1. NoEstimate.gross = 0 /\ NoEstimate.mode = "truncate" /\ ~ NoEstimate.outcome.ok
    BY DEF NoEstimate, Estimate, Rejected
  <2>2. QED
    BY <2>1 DEF TaxInit, IsTaxed, RoundingModes
<1>3. IsGood(estimate) /\ [TaxNext]_taxVars => IsGood(estimate)'
  <2>1. CASE TaxNext
    BY <2>1, EstimateIsTaxed
  <2>2. CASE UNCHANGED taxVars
    BY <2>2 DEF taxVars
  <2>3. QED
    BY <2>1, <2>2
<1> HIDE DEF IsGood
<1>4. QED
  BY <1>1, <1>2, <1>3, PTL DEF TaxSpec

\* Whatever the amount, the rates and the brackets, each band is taxed at its
\* rate and nothing of the amount is lost.
THEOREM SlicesAreTaxed == TaxSpec => []EachSliceIsTaxed
  BY TaxInvariant, PTL

\* The amount of an estimate is a number, its net amount is not negative.
THEOREM TaxTypes == TaxSpec => []TaxTypeOK
  BY TaxInvariant, PTL

(***************************************************************************)
(* UnitConversions                                                         *)
(***************************************************************************)

Places == 0 .. MaxPlaces + MaxDecimals

\* The powers of ten exist.
LEMMA PowersExist ==
  /\ MaxPlaces + MaxDecimals \in Nat /\ Pow10 \in [Places -> Nat \ {0}] /\ Pow10[0] = 1
  /\ \A k \in Places : k # 0 => Pow10[k] = 10 * Pow10[k - 1]
<1> DEFINE n == MaxPlaces + MaxDecimals
           IsPowers(f, k) == /\ f \in [0 .. k -> Nat \ {0}] /\ f[0] = 1
                             /\ \A j \in 1 .. k : f[j] = 10 * f[j - 1]
           N == {k \in 0 .. n : \E f : IsPowers(f, k)}
           IsIt(f) == f = [k \in 0 .. n |-> IF k = 0 THEN 1 ELSE 10 * f[k - 1]]
<1>1. n \in Nat
  BY UnitsAssumption
<1>2. 0 \in N
  <2> DEFINE f == [k \in 0 .. 0 |-> 1]
  <2>1. IsPowers(f, 0)
    OBVIOUS
  <2> HIDE DEF f, IsPowers
  <2>2. QED
    BY <1>1, <2>1
<1>3. ASSUME NEW k \in 0 .. n - 1, k \in N PROVE k + 1 \in N
  <2> HIDE DEF n
  <2>1. PICK f : IsPowers(f, k)
    BY <1>3
  <2> DEFINE g == [j \in 0 .. k + 1 |-> IF j = k + 1 THEN 10 * f[k] ELSE f[j]]
  <2>2. k \in Nat /\ k + 1 \in 0 .. n
    BY <1>1
  <2>3. /\ f \in [0 .. k -> Nat \ {0}] /\ f[0] = 1 /\ \A j \in 1 .. k : f[j] = 10 * f[j - 1]
        /\ f[k] \in Nat \ {0} /\ 10 * f[k] \in Nat \ {0}
    BY <2>1, <2>2
  <2>4. g \in [0 .. k + 1 -> Nat \ {0}] /\ g[0] = 1
    <3>1. ASSUME NEW j \in 0 .. k + 1 PROVE g[j] \in Nat \ {0}
      <4>1. j = k + 1 \/ j \in 0 .. k
        BY <2>2
      <4>2. QED
        BY <2>3, <4>1
    <3>2. QED
      BY <2>2, <2>3, <3>1
  <2>5. ASSUME NEW j \in 1 .. k + 1 PROVE g[j] = 10 * g[j - 1]
    <3>1. CASE j = k + 1
      <4>1. j - 1 = k /\ k \in 0 .. k + 1 /\ k # k + 1
        BY <2>2, <3>1
      <4>2. g[j] = 10 * f[k] /\ g[j - 1] = f[k]
        BY <3>1, <4>1
      <4>3. QED
        BY <4>2
    <3>2. CASE j # k + 1
      <4>1. j \in 1 .. k /\ j - 1 \in 0 .. k + 1 /\ j - 1 # k + 1
        BY <2>2, <3>2
      <4>2. g[j] = f[j] /\ g[j - 1] = f[j - 1]
        BY <3>2, <4>1
      <4>3. QED
        BY <2>3, <4>1, <4>2
    <3>3. QED
      BY <3>1, <3>2
  <2> HIDE DEF g
  <2>6. IsPowers(g, k + 1)
    BY <2>4, <2>5
  <2> HIDE DEF IsPowers
  <2>7. QED
    BY <2>2, <2>6
<1>4. PICK f : IsPowers(f, n)
  <2> HIDE DEF N, n
  <2>1. \A k \in 0 .. n : k \in N
    BY <1>1, <1>2, <1>3, Upwards
  <2>2. n \in N
    BY <1>1, <2>1
  <2>3. QED
    BY <2>2 DEF N
<1>5. IsIt(f)
  <2>1. \A k \in 0 .. n : f[k] = IF k = 0 THEN 1 ELSE 10 * f[k - 1]
    BY <1>1, <1>4
  <2>2. QED
    BY <1>4, <2>1
<1>6. IsIt(Pow10)
  <2>1. Pow10 = CHOOSE g : IsIt(g)
    BY DEF Pow10
  <2> HIDE DEF IsIt
  <2>2. QED
    BY <1>5, <2>1, Zenon
<1>7. \A k \in 0 .. n : Pow10[k] = IF k = 0 THEN 1 ELSE 10 * Pow10[k - 1]
  BY <1>6
<1>8. \A k \in 0 .. n : Pow10[k] = f[k]
  <2> DEFINE M == {k \in 0 .. n : Pow10[k] = f[k]}
  <2> HIDE DEF n
  <2>1. 0 \in M
    BY <1>1, <1>4, <1>7
  <2>2. ASSUME NEW k \in 0 .. n - 1, k \in M PROVE k + 1 \in M
    <3>1. k + 1 \in 1 .. n /\ k + 1 \in 0 .. n /\ k + 1 # 0 /\ (k + 1) - 1 = k
      BY <1>1
    <3>2. Pow10[k + 1] = 10 * Pow10[k] /\ f[k + 1] = 10 * f[k]
      BY <1>4, <1>7, <3>1
    <3>3. QED
      BY <2>2, <3>1, <3>2
  <2> HIDE DEF M
  <2>3. \A k \in 0 .. n : k \in M
    BY <1>1, <2>1, <2>2, Upwards
  <2>4. QED
    BY <2>3 DEF M
<1>9. Pow10 = [k \in 0 .. n |-> Pow10[k]]
  BY <1>6
<1>10. QED
  BY <1>1, <1>4, <1>7, <1>8, <1>9 DEF Places

\* They multiply.
LEMMA PowersMultiply ==
  ASSUME NEW a \in Places, NEW b \in Places, a + b \in Places
  PROVE  /\ Pow10[a] \in Nat \ {0} /\ Pow10[b] \in Nat \ {0} /\ Pow10[a + b] \in Nat \ {0}
         /\ Pow10[a + b] = Pow10[a] * Pow10[b]
<1> DEFINE n == MaxPlaces + MaxDecimals
           N == {k \in 0 .. b : Pow10[a + k] = Pow10[a] * Pow10[k]}
<1>1. /\ n \in Nat /\ Pow10[0] = 1 /\ \A k \in 0 .. n : Pow10[k] \in Nat \ {0}
      /\ \A k \in 0 .. n : k # 0 => Pow10[k] = 10 * Pow10[k - 1]
  BY PowersExist DEF Places
<1>2. a \in 0 .. n /\ b \in 0 .. n /\ a + b \in 0 .. n
  BY DEF Places
<1> HIDE DEF n
<1>3. a \in Nat /\ b \in Nat
  BY <1>2
<1>4. 0 \in N
  <2>1. a + 0 = a /\ Pow10[a] * 1 = Pow10[a]
    BY <1>1, <1>2
  <2>2. QED
    BY <1>1, <1>3, <2>1
<1>5. ASSUME NEW k \in 0 .. b - 1, k \in N PROVE k + 1 \in N
  <2>1. /\ k + 1 \in 0 .. b /\ k + 1 # 0 /\ (k + 1) - 1 = k /\ k + 1 \in 0 .. n /\ k \in 0 .. n
        /\ a + (k + 1) \in 0 .. n /\ a + (k + 1) # 0 /\ (a + (k + 1)) - 1 = a + k
    BY <1>1, <1>2
  <2>2. Pow10[k + 1] = 10 * Pow10[k] /\ Pow10[a + (k + 1)] = 10 * Pow10[a + k]
    BY <1>1, <2>1
  <2>3. Pow10[a + k] = Pow10[a] * Pow10[k]
    BY <1>5
  <2> DEFINE x == Pow10[a]
             y == Pow10[k]
  <2>4. x \in Int /\ y \in Int
    BY <1>1, <1>2, <2>1
  <2> HIDE DEF x, y
  <2>5. 10 * (x * y) = x * (10 * y)
    BY <2>4
  <2>6. QED
    BY <2>1, <2>2, <2>3, <2>5 DEF x, y
<1>6. b \in N
  <2> HIDE DEF N
  <2>1. \A k \in 0 .. b : k \in N
    BY <1>3, <1>4, <1>5, Upwards
  <2>2. QED
    BY <1>3, <2>1
<1>7. QED
  BY <1>1, <1>2, <1>6

\* A quotient without remainder is rounded in every mode.
LEMMA ExactIsRounded ==
  ASSUME NEW n \in Int, NEW d \in Nat \ {0}, NEW q \in Int, q * d = n, NEW mode
  PROVE  RoundedAs(n, d, mode, q)
<1>1. ~ (d < 0) /\ Abs(d) = d /\ Abs(0) = 0 /\ n - n = 0 /\ d > 0 /\ Abs(n) \in Int
  BY DEF Abs
<1> DEFINE x == q * d
<1>2. x = n
  OBVIOUS
<1> HIDE DEF x
<1>3. /\ Abs(n - x) < d
      /\ mode = "exact" => Abs(n - x) = 0
      /\ mode = "truncate" => Abs(x) <= Abs(n)
      /\ mode = "floor" => x <= n
      /\ mode = "ceil" => x >= n
      /\ mode = "half-up" => 2 * Abs(n - x) <= d /\ (2 * Abs(n - x) = d => Abs(x) > Abs(n))
      /\ mode = "half-even" => 2 * Abs(n - x) <= d /\ (2 * Abs(n - x) = d => q % 2 = 0)
  BY <1>1, <1>2
<1>4. QED
  BY <1>1, <1>3 DEF RoundedAs, x

\* The size of a multiple is the multiple of the size.
LEMMA AbsTimes ==
  ASSUME NEW x \in Int, NEW c \in Nat \ {0}
  PROVE  Abs(x) \in Nat /\ x * c \in Int /\ Abs(x * c) = Abs(x) * c
<1>1. x >= 0 => x * c >= 0 * c
  BY Times
<1>2. x <= 0 => x * c <= 0 * c
  BY Times
<1>3. 0 * c = 0 /\ x * c \in Int /\ (-x) * c = -(x * c)
  OBVIOUS
<1> DEFINE y == x * c
           z == (-x) * c
<1>4. y \in Int /\ z = -y /\ (x >= 0 => y >= 0) /\ (x <= 0 => y <= 0)
  BY <1>1, <1>2, <1>3
<1>5. Abs(x) \in Nat /\ (x >= 0 => Abs(x) = x) /\ (x < 0 => Abs(x) = -x)
  BY DEF Abs
<1>6. Abs(x) * c = IF x >= 0 THEN y ELSE z
  BY <1>5
<1> HIDE DEF y, z
<1>7. Abs(y) = IF x >= 0 THEN y ELSE z
  BY <1>4 DEF Abs
<1>8. QED
  BY <1>3, <1>5, <1>6, <1>7 DEF y

\* Multiples compare as the numbers do.
LEMMA MultiplesCompare ==
  ASSUME NEW x \in Int, NEW y \in Int, NEW c \in Nat \ {0}
  PROVE  x * c \in Int /\ y * c \in Int /\ (x * c <= y * c <=> x <= y) /\ (x * c = y * c <=> x = y)
<1>1. x * c \in Int /\ y * c \in Int
  BY Product
<1>2. x <= y => x * c <= y * c
  BY Times
<1>3. ASSUME y < x PROVE y * c < x * c
  <2>1. (y + 1) * c <= x * c
    BY <1>3, Times
  <2>2. (y + 1) * c = y * c + c
    BY NextProduct
  <2>3. QED
    BY <1>1, <2>1, <2>2
<1>4. ASSUME x < y PROVE x * c < y * c
  <2>1. (x + 1) * c <= y * c
    BY <1>4, Times
  <2>2. (x + 1) * c = x * c + c
    BY NextProduct
  <2>3. QED
    BY <1>1, <2>1, <2>2
<1>5. QED
  BY <1>1, <1>2, <1>3, <1>4

\* A common factor of dividend and divisor makes no difference.
LEMMA ScaledRounding ==
  ASSUME NEW n \in Int, NEW d \in Nat \ {0}, NEW c \in Nat \ {0}, NEW q \in Int, NEW mode,
         RoundedAs(n, d, mode, q)
  PROVE  n * c \in Int /\ d * c \in Nat \ {0} /\ RoundedAs(n * c, d * c, mode, q)
<1> DEFINE x == q * d
           off == Abs(n - x)
           N == n * c
           D == d * c
           X == x * c
<1>1. x \in Int
  OBVIOUS
<1>2. q * D = X
  BY <1>1
<1>3. D \in Nat \ {0} /\ D > 0
  OBVIOUS
<1>4. ~ (d < 0) /\ Abs(d) = d /\ ~ (D < 0) /\ Abs(D) = D
  BY <1>3 DEF Abs
<1>5. /\ off < d
      /\ mode = "exact" => off = 0
      /\ mode = "truncate" => Abs(x) <= Abs(n)
      /\ mode = "floor" => x <= n
      /\ mode = "ceil" => x >= n
      /\ mode = "half-up" => 2 * off <= d /\ (2 * off = d => Abs(x) > Abs(n))
      /\ mode = "half-even" => 2 * off <= d /\ (2 * off = d => q % 2 = 0)
  BY <1>4 DEF RoundedAs
<1> HIDE DEF x
<1>6. off \in Nat /\ Abs(x) \in Nat /\ Abs(n) \in Nat /\ Abs(X) = Abs(x) * c /\ Abs(N) = Abs(n) * c
  <2>1. Abs(x) \in Nat /\ Abs(X) = Abs(x) * c
    BY <1>1, AbsTimes
  <2>2. Abs(n) \in Nat /\ Abs(N) = Abs(n) * c
    BY AbsTimes
  <2>3. n - x \in Int
    BY <1>1
  <2>4. off \in Nat
    BY <2>3, AbsTimes DEF off
  <2>5. QED
    BY <2>1, <2>2, <2>4
<1>7. Abs(N - X) = off * c
  <2>1. N - X = (n - x) * c
    BY <1>1, Distributes
  <2>2. n - x \in Int
    BY <1>1
  <2>3. Abs((n - x) * c) = Abs(n - x) * c
    BY <2>2, AbsTimes
  <2>4. QED
    BY <2>1, <2>3
<1> DEFINE Off == off * c
<1> HIDE DEF off
<1>8. /\ Off \in Int /\ N \in Int /\ X \in Int
      /\ Off < D
      /\ off = 0 => Off = 0
      /\ (x <= n => X <= N) /\ (x >= n => X >= N)
  <2>1. off \in Int /\ d \in Int
    BY <1>6
  <2>2. off * c \in Int /\ d * c \in Int /\ (off * c <= d * c <=> off <= d) /\ (off * c = d * c <=> off = d)
    BY <2>1, MultiplesCompare
  <2>3. Off < D
    BY <1>5, <2>1, <2>2
  <2>4. off = 0 => Off = 0
    OBVIOUS
  <2>5. N \in Int /\ X \in Int /\ (x <= n => X <= N) /\ (x >= n => X >= N)
    BY <1>1, MultiplesCompare
  <2>6. QED
    BY <2>2, <2>3, <2>4, <2>5
<1>9. 2 * off \in Int /\ 2 * Off = (2 * off) * c /\ (2 * Off <= D <=> 2 * off <= d) /\ (2 * Off = D <=> 2 * off = d)
  <2>1. 2 * off \in Int /\ d \in Int /\ 2 * Off = (2 * off) * c
    BY <1>6
  <2> DEFINE two == 2 * off
  <2> HIDE DEF two
  <2>2. (two * c <= d * c <=> two <= d) /\ (two * c = d * c <=> two = d)
    BY <2>1, MultiplesCompare DEF two
  <2>3. QED
    BY <2>1, <2>2 DEF two
<1>10. (Abs(x) <= Abs(n) => Abs(X) <= Abs(N)) /\ (Abs(x) > Abs(n) => Abs(X) > Abs(N))
  <2> DEFINE u == Abs(x)
             v == Abs(n)
  <2>1. u \in Int /\ v \in Int
    BY <1>6
  <2> HIDE DEF u, v
  <2>2. u * c \in Int /\ v * c \in Int /\ (u * c <= v * c <=> u <= v)
    BY <2>1, MultiplesCompare
  <2>3. Abs(X) = u * c /\ Abs(N) = v * c
    BY <1>6 DEF u, v
  <2>4. QED
    BY <2>1, <2>2, <2>3 DEF u, v
<1> HIDE DEF X, N, D, Off
<1>11. /\ Abs(N - X) = Off
       /\ mode = "exact" => Off = 0
       /\ mode = "truncate" => Abs(X) <= Abs(N)
       /\ mode = "floor" => X <= N
       /\ mode = "ceil" => X >= N
       /\ mode = "half-up" => 2 * Off <= D /\ (2 * Off = D => Abs(X) > Abs(N))
       /\ mode = "half-even" => 2 * Off <= D /\ (2 * Off = D => q % 2 = 0)
  BY <1>5, <1>7, <1>8, <1>9, <1>10 DEF Off
<1>12. RoundedAs(N, D, mode, q)
  BY <1>2, <1>4, <1>8, <1>11 DEF RoundedAs
<1>13. QED
  BY <1>3, <1>8, <1>12 DEF N, D

Unlimited == {"toTokenUnits", "convertMinorDecimals", "scaleWithRounding", "applyRoundedScale"}

\* What is to be shown of a conversion before it is answered.
IsResult(op, n, d, mode, outcome) ==
  outcome.ok =>
    /\ n \in Int /\ d \in Int \ {0} /\ outcome.value \in Int
    /\ RoundedAs(n, d, mode, outcome.value)
    /\ op \notin Unlimited => isAmountWithinRange(outcome.value)

IsConverted(c) == c.n \in Int /\ c.d \in Int \ {0} /\ IsResult(c.op, c.n, c.d, c.mode, c.outcome)

\* What is not answered, or is rejected, promises nothing.
LEMMA NoneIsConverted ==
  ASSUME NEW op
  PROVE  IsConverted([NoConversion EXCEPT !.op = op]) /\ IsConverted(NoConversion)
<1> DEFINE c == [NoConversion EXCEPT !.op = op]
<1>1. c.n = 0 /\ c.d = 1 /\ ~ c.outcome.ok /\ NoConversion.n = 0 /\ NoConversion.d = 1 /\ ~ NoConversion.outcome.ok
  BY DEF NoConversion, Conversion, Rejected
<1> HIDE DEF c
<1>2. IsConverted(c) /\ IsConverted(NoConversion)
  BY <1>1 DEF IsConverted, IsResult
<1>3. QED
  BY <1>2 DEF c

\* An answer is converted when its result is the quotient.
LEMMA AnswerIsConverted ==
  ASSUME NEW op, NEW n, NEW d, NEW mode, NEW outcome, outcome.ok \in BOOLEAN,
         IsResult(op, n, d, mode, outcome), AnswerConversion(op, n, d, mode, outcome)
  PROVE  IsConverted(conversion')
<1> DEFINE c == Conversion(op, n, d, mode, outcome)
<1>1. c.op = op /\ c.n = n /\ c.d = d /\ c.mode = mode /\ c.outcome = outcome
  BY DEF Conversion
<1>2. CASE outcome.ok
  <2>1. conversion' = c
    BY <1>2 DEF AnswerConversion
  <2> HIDE DEF c
  <2>2. QED
    BY <1>1, <1>2, <2>1 DEF IsConverted, IsResult
<1>3. CASE ~ outcome.ok
  BY <1>3, NoneIsConverted DEF AnswerConversion
<1>4. QED
  BY <1>2, <1>3

\* What the outcomes Ok, Rejected and InRange are.
LEMMA OkFacts ==
  /\ \A v : Ok(v).ok = TRUE /\ Ok(v).value = v
  /\ Rejected.ok = FALSE
  /\ \A v : InRange(v).ok \in BOOLEAN /\ (InRange(v).ok => InRange(v).value = v /\ isAmountWithinRange(v))
  BY DEF Ok, Rejected, InRange

\* The point moved to the right: the quotient is exact.
LEMMA MovedPoint ==
  ASSUME NEW digits \in Nat, NEW decimals \in 0 .. MaxDecimals, NEW places \in 0 .. MaxPlaces + MaxDecimals,
         places <= decimals, NEW mode
  PROVE  /\ digits * Pow10[decimals] \in Int /\ Pow10[places] \in Nat \ {0}
         /\ digits * Pow10[decimals - places] \in Nat
         /\ RoundedAs(digits * Pow10[decimals], Pow10[places], mode, digits * Pow10[decimals - places])
<1> DEFINE k == decimals - places
<1>1. k \in Places /\ places \in Places /\ k + places = decimals /\ decimals \in Places
  BY UnitsAssumption DEF Places
<1> DEFINE x == Pow10[k]
           y == Pow10[places]
           z == Pow10[decimals]
<1>2. x \in Nat \ {0} /\ y \in Nat \ {0} /\ z = x * y /\ z \in Nat \ {0}
  <2> HIDE DEF k
  <2>1. k + places \in Places
    BY <1>1
  <2>2. QED
    BY <1>1, <2>1, PowersMultiply
<1> HIDE DEF x, y, z
<1>3. digits * x \in Nat /\ digits * z \in Int /\ (digits * x) * y = digits * z
  BY <1>2
<1> DEFINE v == digits * x
           n == digits * z
<1>4. RoundedAs(n, y, mode, v)
  <2>1. v \in Int /\ n \in Int /\ v * y = n /\ y \in Nat \ {0}
    BY <1>2, <1>3
  <2> HIDE DEF v, n
  <2>2. QED
    BY <2>1, ExactIsRounded
<1>5. QED
  BY <1>2, <1>3, <1>4 DEF x, y, z

\* The power of zero places.
LEMMA PowerOfNone == 0 \in Places /\ Pow10[0] = 1
  BY PowersExist DEF Places

\* Cutting the zeros at the end of a fraction leaves its value as it was.
LEMMA TrimmedFacts ==
  ASSUME NEW digits \in Nat, NEW places \in 0 .. MaxDecimals
  PROVE  LET t == Trimmed(digits, places)
         IN /\ t.digits \in Nat /\ t.places \in 0 .. places
            /\ t.digits * Pow10[places - t.places] = digits
<1> DEFINE zeros == {k \in 0 .. places : digits % Pow10[k] = 0}
           IsMost(k) == k \in zeros /\ \A j \in zeros : j <= k
           most == CHOOSE k \in zeros : \A j \in zeros : j <= k
           t == Trimmed(digits, places)
<1>1. places \in Nat /\ \A k \in 0 .. places : k \in Places /\ Pow10[k] \in Nat \ {0}
  BY UnitsAssumption, PowersExist DEF Places
<1>2. 0 \in zeros
  BY <1>1, PowerOfNone
<1>3. IsMost(Max(zeros))
  <2>1. zeros \in SUBSET (0 .. places) /\ zeros # {}
    BY <1>2
  <2> HIDE DEF zeros
  <2>2. QED
    BY <1>1, <2>1, MaxProperty
<1>4. most \in zeros
  <2> HIDE DEF zeros
  <2>1. \E k \in zeros : \A j \in zeros : j <= k
    BY <1>3
  <2>2. QED
    BY <2>1, Zenon
<1> HIDE DEF most
<1>5. t = Text(digits \div Pow10[most], places - most)
  BY DEF Trimmed, most, zeros
<1>6. most \in 0 .. places /\ digits % Pow10[most] = 0
  BY <1>4
<1> HIDE DEF zeros, t
<1> DEFINE p == Pow10[most]
<1>7. p \in Nat \ {0}
  BY <1>1, <1>6
<1> HIDE DEF p
<1>8. digits \div p \in Nat /\ digits = (digits \div p) * p
  <2>1. digits \div p \in Nat /\ digits = (digits \div p) * p + (digits % p)
    BY <1>7, Division, RemainderFacts
  <2>2. digits % p = 0
    BY <1>6 DEF p
  <2>3. (digits \div p) * p \in Int
    BY <1>7, <2>1, Product
  <2>4. QED
    BY <2>1, <2>2, <2>3
<1>9. t.digits = digits \div p /\ t.places = places - most /\ places - t.places = most
  BY <1>1, <1>5, <1>6 DEF Text, p
<1>10. t.digits \in Nat /\ t.places \in 0 .. places /\ t.digits * Pow10[places - t.places] = digits
  <2>1. Pow10[places - t.places] = p
    BY <1>9 DEF p
  <2>2. QED
    BY <1>1, <1>6, <1>8, <1>9, <2>1
<1>11. QED
  BY <1>10 DEF t

\* A text of a fixed scale, or trimmed.
LEMMA WrittenFacts ==
  ASSUME NEW value \in Nat, NEW decimals \in 0 .. MaxDecimals, NEW text,
         text = Text(value, decimals) \/ text = Trimmed(value, decimals)
  PROVE  /\ text.digits \in Nat /\ text.digits >= 0 /\ text.places \in 0 .. decimals /\ text.places <= decimals
         /\ text.digits * Pow10[decimals - text.places] = value
<1>1. CASE text = Text(value, decimals)
  <2>1. text.digits = value /\ text.places = decimals /\ decimals - text.places = 0
    BY <1>1 DEF Text
  <2>2. decimals \in Nat /\ value * 1 = value
    BY UnitsAssumption
  <2>3. QED
    BY <2>1, <2>2, PowerOfNone
<1>2. CASE text = Trimmed(value, decimals)
  <2>1. text.digits \in Nat /\ text.places \in 0 .. decimals /\ text.digits * Pow10[decimals - text.places] = value
    BY <1>2, TrimmedFacts
  <2>2. decimals \in Nat
    BY UnitsAssumption
  <2>3. QED
    BY <2>1, <2>2
<1>3. QED
  BY <1>1, <1>2

\* The operations that read such a text give the value again.
LEMMA ReadBack ==
  ASSUME NEW value \in Nat, NEW decimals \in 0 .. MaxDecimals, NEW text,
         text = Text(value, decimals) \/ text = Trimmed(value, decimals)
  PROVE  /\ toRawUnits(text, decimals) = InRange(value)
         /\ toTokenUnits(text, decimals) = Ok(value)
         /\ toCentsExact(text, decimals, "round") = InRange(value)
<1>1. /\ text.digits \in Nat /\ text.digits >= 0 /\ text.places \in 0 .. decimals /\ text.places <= decimals
      /\ text.digits * Pow10[decimals - text.places] = value
  BY WrittenFacts
<1>2. IsDecimals(decimals)
  BY DEF IsDecimals
<1>3. toRawUnits(text, decimals) = InRange(value) /\ toTokenUnits(text, decimals) = Ok(value)
  BY <1>1, <1>2 DEF toRawUnits, toTokenUnits
<1>4. text.digits % Pow10[0] = 0
  BY <1>1, PowerOfNone
<1>5. ~ (text.places > decimals) /\ ~ (text.digits < 0) /\ ~ (0 > 0)
  <2>1. decimals \in Nat /\ text.places \in Int
    BY <1>1, UnitsAssumption
  <2>2. QED
    BY <1>1, <2>1
<1>6. toCentsExact(text, decimals, "round") = InRange(value)
  BY <1>1, <1>4, <1>5 DEF toCentsExact
<1>7. QED
  BY <1>3, <1>6

\* Half of the digits dropped are reached when the first of them is 5 or more.
LEMMA FirstDropped ==
  ASSUME NEW r \in Nat, NEW p \in Nat \ {0}
  PROVE  r \div p >= 5 <=> 2 * r >= 10 * p
<1> DEFINE first == r \div p
           x == first * p
<1>1. first \in Nat /\ x <= r /\ r < x + p
  BY Division
<1> HIDE DEF first
<1>2. x \in Int
  BY <1>1
<1>3. ASSUME first >= 5 PROVE 2 * r >= 10 * p
  <2>1. 5 * p <= x
    BY <1>1, <1>3, Times
  <2>2. QED
    BY <1>1, <1>2, <2>1
<1>4. ASSUME first < 5 PROVE 2 * r < 10 * p
  <2>1. first <= 4
    BY <1>1, <1>4
  <2>2. x <= 4 * p
    BY <1>1, <2>1, Times
  <2>3. QED
    BY <1>1, <1>2, <2>2
<1>5. QED
  BY <1>1, <1>3, <1>4 DEF first

\* A quotient taken up when the rounding says so is rounded as it says.
LEMMA TakenUp ==
  ASSUME NEW n \in Nat, NEW d \in Nat \ {0}, NEW up \in BOOLEAN, NEW mode \in {"floor", "ceil", "half-up"},
         mode = "floor" => ~ up, mode = "ceil" => up, mode = "half-up" => (up <=> 2 * (n % d) >= d)
  PROVE  LET q == IF n % d # 0 /\ up THEN n \div d + 1 ELSE n \div d
         IN q \in Nat /\ RoundedAs(n, d, mode, q)
<1> DEFINE r == n % d
           k == n \div d
           q == IF r # 0 /\ up THEN k + 1 ELSE k
           x == k * d
           y == q * d
<1>1. k \in Nat /\ r \in Nat /\ r < d /\ n = x + r
  BY Division, RemainderFacts
<1> HIDE DEF k, r
<1>2. x \in Nat /\ (k + 1) * d = x + d /\ ~ (d < 0) /\ Abs(d) = d
  BY <1>1, NextProduct DEF Abs
<1>3. q \in Nat /\ y = IF r # 0 /\ up THEN x + d ELSE x
  BY <1>1, <1>2
<1> HIDE DEF q, x, y
<1>4. Abs(n - y) = (IF r # 0 /\ up THEN d - r ELSE r) /\ Abs(y) = y /\ Abs(n) = n
  BY <1>1, <1>2, <1>3 DEF Abs
<1>5. mode = "half-up" => (up <=> 2 * r >= d)
  BY DEF r
<1>6. /\ Abs(n - y) < d
      /\ mode = "floor" => y <= n
      /\ mode = "ceil" => y >= n
      /\ mode = "half-up" => 2 * Abs(n - y) <= d /\ (2 * Abs(n - y) = d => Abs(y) > Abs(n))
  BY <1>1, <1>2, <1>3, <1>4, <1>5
<1>7. RoundedAs(n, d, mode, q)
  BY <1>2, <1>6 DEF RoundedAs, y
<1>8. QED
  BY <1>3, <1>7 DEF q, k, r

\* The digits and places of a text are numbers.
LEMMA TextFacts ==
  ASSUME NEW text \in Texts
  PROVE  /\ text.digits \in Int /\ text.places \in 0 .. MaxPlaces /\ text.places \in 0 .. MaxPlaces + MaxDecimals
         /\ MaxPlaces \in Nat /\ MaxDecimals \in Nat
<1>1. text.digits \in Digits /\ text.places \in 0 .. MaxPlaces
  BY DEF Texts
<1>2. text.digits \in Int
  BY <1>1, UnitsAssumption, Zenon
<1>3. MaxPlaces \in Nat /\ MaxDecimals \in Nat
  BY UnitsAssumption
<1>4. QED
  BY <1>1, <1>2, <1>3

\* Digits dropped behind the precision round the ones kept.
LEMMA ToCentsExactIsRounded ==
  ASSUME NEW text \in Texts, NEW decimals \in 0 .. MaxDecimals, NEW rounding \in {"round", "floor", "ceil"}
  PROVE  LET outcome == toCentsExact(text, decimals, rounding)
         IN /\ outcome.ok \in BOOLEAN
            /\ IsResult("toCentsExact", text.digits * Pow10[decimals], Pow10[text.places],
                        IF rounding = "round" THEN "half-up" ELSE rounding, outcome)
<1> DEFINE digits == text.digits
           places == text.places
           mode == IF rounding = "round" THEN "half-up" ELSE rounding
           outcome == toCentsExact(text, decimals, rounding)
           op == "toCentsExact"
<1>1. digits \in Int /\ places \in 0 .. MaxPlaces /\ places \in 0 .. MaxPlaces + MaxDecimals
      /\ MaxPlaces \in Nat /\ MaxDecimals \in Nat
  BY TextFacts
<1>2. CASE digits < 0
  <2>1. outcome = Rejected
    BY <1>2 DEF toCentsExact
  <2>2. QED
    BY <2>1, OkFacts DEF IsResult
<1>3. CASE digits >= 0 /\ places <= decimals
  <2> DEFINE v == digits * Pow10[decimals - places]
  <2>1. digits \in Nat /\ ~ (digits < 0) /\ ~ (places > decimals) /\ ~ (0 > 0)
    BY <1>1, <1>3
  <2>2. digits % Pow10[0] = 0
    BY <2>1, PowerOfNone
  <2>3. outcome = InRange(v)
    BY <2>1, <2>2 DEF toCentsExact
  <2>4. /\ digits * Pow10[decimals] \in Int /\ Pow10[places] \in Nat \ {0} /\ v \in Nat
        /\ RoundedAs(digits * Pow10[decimals], Pow10[places], mode, v)
    BY <1>1, <1>3, <2>1, MovedPoint
  <2> HIDE DEF v, outcome
  <2>5. outcome.ok \in BOOLEAN /\ IsResult(op, digits * Pow10[decimals], Pow10[places], mode, outcome)
    BY <2>3, <2>4, OkFacts DEF IsResult
  <2>6. QED
    BY <2>5 DEF outcome
<1>4. CASE digits >= 0 /\ places > decimals
  <2> DEFINE k == places - decimals
             D == Pow10[k]
             p == Pow10[k - 1]
             c == Pow10[decimals]
             r == digits % D
             up == rounding = "ceil" \/ (rounding = "round" /\ r \div p >= 5)
             q == IF r # 0 /\ up THEN digits \div D + 1 ELSE digits \div D
  <2>1. /\ k \in Places /\ k - 1 \in Places /\ decimals \in Places /\ k + decimals = places /\ places \in Places
        /\ k # 0 /\ k > 0 /\ digits \in Nat /\ ~ (digits < 0)
    BY <1>1, <1>4 DEF Places
  <2>2. outcome = InRange(q)
    BY <1>4, <2>1 DEF toCentsExact
  <2> HIDE DEF k
  <2>3. D \in Nat \ {0} /\ p \in Nat \ {0} /\ c \in Nat \ {0} /\ D = 10 * p
    BY <2>1, PowersExist
  <2>4. Pow10[places] = D * c
    <3>1. k + decimals \in Places
      BY <2>1
    <3>2. QED
      BY <2>1, <3>1, PowersMultiply
  <2> HIDE DEF D, p, c
  <2>5. r \in Nat
    BY <2>1, <2>3, RemainderFacts
  <2>6. /\ up \in BOOLEAN /\ mode \in {"floor", "ceil", "half-up"}
        /\ mode = "floor" => ~ up
        /\ mode = "ceil" => up
        /\ mode = "half-up" => (up <=> 2 * r >= D)
    <3>1. r \div p >= 5 <=> 2 * r >= D
      <4> HIDE DEF r
      <4>1. QED
        BY <2>3, <2>5, FirstDropped
    <3> HIDE DEF r
    <3>2. QED
      BY <3>1
  <2> HIDE DEF up, mode
  <2>7. q \in Nat /\ RoundedAs(digits, D, mode, q)
    BY <2>1, <2>3, <2>6, TakenUp
  <2> HIDE DEF q
  <2>8. digits * c \in Int /\ D * c \in Nat \ {0} /\ RoundedAs(digits * c, D * c, mode, q)
    BY <2>1, <2>3, <2>7, ScaledRounding
  <2> HIDE DEF outcome
  <2>9. outcome.ok \in BOOLEAN /\ IsResult(op, digits * Pow10[decimals], Pow10[places], mode, outcome)
    <3>1. outcome.ok \in BOOLEAN /\ IsResult(op, digits * c, D * c, mode, outcome)
      BY <2>2, <2>7, <2>8, OkFacts DEF IsResult
    <3>2. QED
      BY <2>4, <3>1 DEF c
  <2>10. QED
    BY <2>9 DEF outcome, mode
<1>5. QED
  BY <1>1, <1>2, <1>3, <1>4

\* A value itself is its quotient by 1.
LEMMA ItselfIsResult ==
  ASSUME NEW op, NEW value \in Int, isAmountWithinRange(value)
  PROVE  /\ InRange(value).ok \in BOOLEAN /\ Ok(value).ok \in BOOLEAN /\ Rejected.ok \in BOOLEAN
         /\ IsResult(op, value, 1, "exact", InRange(value)) /\ IsResult(op, value, 1, "exact", Ok(value))
         /\ IsResult(op, value, 1, "exact", Rejected)
<1>1. RoundedAs(value, 1, "exact", value)
  <2>1. 1 \in Nat \ {0} /\ value * 1 = value
    OBVIOUS
  <2>2. QED
    BY <2>1, ExactIsRounded
<1>2. 1 \in Int \ {0}
  OBVIOUS
<1>3. QED
  BY <1>1, <1>2, OkFacts DEF IsResult

\* The answers, one action at a time.
LEMMA ReadIsConverted ==
  ASSUME Read
  PROVE  IsConverted(conversion')
<1>1. PICK text \in Texts, decimals \in Precisions :
        \/ AnswerConversion("toRawUnits", text.digits * Pow10[decimals], Pow10[text.places], "exact",
             toRawUnits(text, decimals))
        \/ /\ decimals = CentsDecimals
           /\ AnswerConversion("dollarsToCents", text.digits * Pow10[decimals], Pow10[text.places], "exact",
                dollarsToCents(text))
        \/ /\ IsDecimals(decimals)
           /\ AnswerConversion("toCents", text.digits * Pow10[decimals], Pow10[text.places], "exact",
                toCents(text, decimals))
        \/ /\ IsDecimals(decimals)
           /\ AnswerConversion("toTokenUnits", text.digits * Pow10[decimals], Pow10[text.places], "exact",
                toTokenUnits(text, decimals))
  BY DEF Read
<1> DEFINE n == text.digits * Pow10[decimals]
           d == Pow10[text.places]
           v == text.digits * Pow10[decimals - text.places]
<1>2. text.digits \in Int /\ text.places \in 0 .. MaxPlaces + MaxDecimals
  BY TextFacts
<1>3. \A o : o \in {InRange(v), Rejected} => o.ok \in BOOLEAN
  BY OkFacts
<1>4. text.digits >= 0 /\ IsDecimals(decimals) /\ text.places <= decimals =>
        n \in Int /\ d \in Int \ {0} /\ v \in Int /\ RoundedAs(n, d, "exact", v)
  <2> SUFFICES ASSUME text.digits >= 0, decimals \in 0 .. MaxDecimals, text.places <= decimals
               PROVE  n \in Int /\ d \in Int \ {0} /\ v \in Int /\ RoundedAs(n, d, "exact", v)
    BY DEF IsDecimals
  <2>1. text.digits \in Nat
    BY <1>2
  <2>2. n \in Int /\ d \in Nat \ {0} /\ v \in Nat /\ RoundedAs(n, d, "exact", v)
    BY <1>2, <2>1, MovedPoint
  <2> HIDE DEF n, d, v
  <2>3. QED
    BY <2>2
<1>5. /\ toRawUnits(text, decimals) =
           IF text.digits >= 0 /\ IsDecimals(decimals) /\ text.places <= decimals THEN InRange(v) ELSE Rejected
      /\ IsDecimals(decimals) => toCents(text, decimals) = toRawUnits(text, decimals)
      /\ decimals = CentsDecimals => dollarsToCents(text) = toRawUnits(text, decimals)
      /\ IsDecimals(decimals) =>
           toTokenUnits(text, decimals) =
             IF text.digits >= 0 /\ IsDecimals(decimals) /\ text.places <= decimals THEN Ok(v) ELSE Rejected
  BY DEF toRawUnits, toCents, dollarsToCents, toTokenUnits
<1> HIDE DEF n, d, v
<1>6. \A op : toRawUnits(text, decimals).ok \in BOOLEAN /\ IsResult(op, n, d, "exact", toRawUnits(text, decimals))
  BY <1>4, <1>5, OkFacts DEF IsResult
<1>7. IsDecimals(decimals) => /\ toTokenUnits(text, decimals).ok \in BOOLEAN
                              /\ IsResult("toTokenUnits", n, d, "exact", toTokenUnits(text, decimals))
  BY <1>4, <1>5, OkFacts DEF IsResult, Unlimited
<1>8. \/ \E op : AnswerConversion(op, n, d, "exact", toRawUnits(text, decimals))
      \/ IsDecimals(decimals) /\ AnswerConversion("toTokenUnits", n, d, "exact", toTokenUnits(text, decimals))
  BY <1>1, <1>5 DEF n, d
<1>9. CASE \E op : AnswerConversion(op, n, d, "exact", toRawUnits(text, decimals))
  BY <1>6, <1>9, AnswerIsConverted
<1>10. CASE IsDecimals(decimals) /\ AnswerConversion("toTokenUnits", n, d, "exact", toTokenUnits(text, decimals))
  BY <1>7, <1>10, AnswerIsConverted
<1>11. QED
  BY <1>8, <1>9, <1>10

\* toCentsExact in its rounding modes.
LEMMA ReadRoundingIsConverted ==
  ASSUME ReadRounding
  PROVE  IsConverted(conversion')
<1>1. PICK text \in Texts, decimals \in 0 .. MaxDecimals :
        \/ AnswerConversion("toCentsExact", text.digits * Pow10[decimals], Pow10[text.places], "half-up",
             toCentsExact(text, decimals, "round"))
        \/ \E mode \in {"floor", "ceil"} :
             AnswerConversion("toCentsExact", text.digits * Pow10[decimals], Pow10[text.places], mode,
               toCentsExact(text, decimals, mode))
  BY DEF ReadRounding
<1> DEFINE n == text.digits * Pow10[decimals]
           d == Pow10[text.places]
<1>2. \E rounding \in {"round", "floor", "ceil"} :
        AnswerConversion("toCentsExact", n, d, IF rounding = "round" THEN "half-up" ELSE rounding,
                         toCentsExact(text, decimals, rounding))
  BY <1>1
<1>3. PICK rounding \in {"round", "floor", "ceil"} :
        AnswerConversion("toCentsExact", n, d, IF rounding = "round" THEN "half-up" ELSE rounding,
                         toCentsExact(text, decimals, rounding))
  BY <1>2
<1>4. /\ toCentsExact(text, decimals, rounding).ok \in BOOLEAN
      /\ IsResult("toCentsExact", n, d, IF rounding = "round" THEN "half-up" ELSE rounding,
                  toCentsExact(text, decimals, rounding))
  BY ToCentsExactIsRounded
<1> HIDE DEF n, d
<1>5. QED
  BY <1>3, <1>4, AnswerIsConverted

\* What is written as a text is read back as it was.
LEMMA WriteIsConverted ==
  ASSUME Write
  PROVE  IsConverted(conversion')
<1>1. PICK input \in Inputs, decimals \in Precisions, fixedScale \in BOOLEAN :
        /\ IsLedgerAmount(input)
        /\ LET text == toHumanUnits(input.value, decimals, fixedScale)
           IN \/ AnswerConversion("toHumanUnits", input.value, 1, "exact",
                   IF text.ok THEN toRawUnits(text.value, decimals) ELSE Rejected)
              \/ AnswerConversion("centsToDollars", input.value, 1, "exact",
                   dollarsToCents(centsToDollars(input.value)))
              \/ /\ IsDecimals(decimals)
                 /\ \/ AnswerConversion("fromCentsExact", input.value, 1, "exact",
                         toCentsExact(fromCentsExact(input.value, decimals), decimals, "round"))
                    \/ AnswerConversion("formatWithDecimals", input.value, 1, "exact",
                         toTokenUnits(formatWithDecimals(input.value, decimals, fixedScale), decimals))
  BY DEF Write
<1> DEFINE value == input.value
<1>2. value \in Nat /\ value \in Int /\ isAmountWithinRange(value)
  BY <1>1 DEF IsLedgerAmount, IsInteger, isAmountWithinRange
<1>3. \A text : IsDecimals(decimals) /\ (text = Text(value, decimals) \/ text = Trimmed(value, decimals)) =>
        /\ toRawUnits(text, decimals) = InRange(value)
        /\ toTokenUnits(text, decimals) = Ok(value)
        /\ toCentsExact(text, decimals, "round") = InRange(value)
  <2> HIDE DEF value
  <2>1. QED
    BY <1>2, ReadBack DEF IsDecimals
<1> DEFINE text == toHumanUnits(value, decimals, fixedScale)
           back == IF text.ok THEN toRawUnits(text.value, decimals) ELSE Rejected
<1>4. back \in {InRange(value), Rejected}
  <2>1. CASE IsDecimals(decimals)
    <3>1. text.ok /\ (text.value = Text(value, decimals) \/ text.value = Trimmed(value, decimals))
      BY <2>1, OkFacts DEF toHumanUnits
    <3> HIDE DEF text
    <3>2. QED
      BY <1>3, <2>1, <3>1
  <2>2. CASE ~ IsDecimals(decimals)
    BY <2>2, OkFacts DEF toHumanUnits
  <2>3. QED
    BY <2>1, <2>2
<1>5. dollarsToCents(centsToDollars(value)) = InRange(value)
  <2>1. CentsDecimals \in 0 .. MaxDecimals
    BY UnitsAssumption
  <2> HIDE DEF value
  <2>2. QED
    BY <1>2, <2>1, ReadBack DEF dollarsToCents, centsToDollars
<1>6. IsDecimals(decimals) => toCentsExact(fromCentsExact(value, decimals), decimals, "round") = InRange(value)
  BY <1>3 DEF fromCentsExact
<1>7. IsDecimals(decimals) => toTokenUnits(formatWithDecimals(value, decimals, fixedScale), decimals) = Ok(value)
  <2>1. ~ (value < 0) /\ Abs(value) = value
    BY <1>2 DEF Abs
  <2>2. \/ formatWithDecimals(value, decimals, fixedScale) = Text(value, decimals)
        \/ formatWithDecimals(value, decimals, fixedScale) = Trimmed(value, decimals)
    BY <2>1 DEF formatWithDecimals
  <2>3. QED
    BY <1>3, <2>2
<1> HIDE DEF back
<1>8. \E op : \E o \in {InRange(value), Ok(value), Rejected} : AnswerConversion(op, value, 1, "exact", o)
  <2>1. CASE AnswerConversion("toHumanUnits", value, 1, "exact", back)
    BY <1>4, <2>1
  <2>2. CASE AnswerConversion("centsToDollars", value, 1, "exact", dollarsToCents(centsToDollars(value)))
    BY <1>5, <2>2
  <2>3. CASE /\ IsDecimals(decimals)
             /\ AnswerConversion("fromCentsExact", value, 1, "exact",
                                 toCentsExact(fromCentsExact(value, decimals), decimals, "round"))
    BY <1>6, <2>3
  <2>4. CASE /\ IsDecimals(decimals)
             /\ AnswerConversion("formatWithDecimals", value, 1, "exact",
                                 toTokenUnits(formatWithDecimals(value, decimals, fixedScale), decimals))
    BY <1>7, <2>4
  <2>5. QED
    BY <1>1, <2>1, <2>2, <2>3, <2>4 DEF back
<1>9. QED
  BY <1>2, <1>8, ItselfIsResult, AnswerIsConverted

\* What is written to a column of the database is read back as it was.
LEMMA WriteColumnIsConverted ==
  ASSUME WriteColumn
  PROVE  IsConverted(conversion')
<1>1. PICK input \in Inputs, decimals \in 0 .. MaxDecimals :
        /\ IsInteger(input)
        /\ AnswerConversion("formatDecimalForDb", input.value, 1, "exact",
             parseDecimalDbValue(formatDecimalForDb(input.value, decimals), decimals))
  BY DEF WriteColumn
<1> DEFINE value == input.value
           text == formatDecimalForDb(value, decimals)
<1>2. value \in Int /\ isAmountWithinRange(value)
  BY <1>1, InputFacts DEF IsInteger
<1>3. text.digits = value /\ text.places = decimals
  <2>1. value < 0 => Abs(value) = -value /\ -(-value) = value
    BY <1>2 DEF Abs
  <2>2. ~ (value < 0) => Abs(value) = value
    BY <1>2 DEF Abs
  <2>3. QED
    BY <1>2, <2>1, <2>2 DEF formatDecimalForDb, Text
<1> HIDE DEF text
<1>4. parseDecimalDbValue(text, decimals) = Ok(value)
  BY <1>3 DEF parseDecimalDbValue
<1>5. QED
  BY <1>1, <1>2, <1>4, ItselfIsResult, AnswerIsConverted DEF text

\* A row holds an amount in base units, and both texts are read back as it.
LEMMA WriteRowIsConverted ==
  ASSUME WriteRow
  PROVE  IsConverted(conversion')
<1>1. PICK text \in Texts, scale \in Precisions, inputType \in {"auto", "raw", "human"}, precision \in {2, 3} :
        LET row == formatForDbStorage(text, scale, inputType, precision)
        IN \/ AnswerConversion("formatForDbStorage", IF row.ok THEN row.value.raw ELSE 0, 1, "exact",
                IF row.ok THEN parseDecimalDbValue(row.value.formatted, scale) ELSE Rejected)
           \/ AnswerConversion("formatForDbStorage", IF row.ok THEN row.value.raw ELSE 0, 1, "exact",
                IF row.ok THEN toRawUnits(row.value.trimmed, scale) ELSE Rejected)
  BY DEF WriteRow
<1> DEFINE row == formatForDbStorage(text, scale, inputType, precision)
           human == inputType = "human" \/ (inputType = "auto" /\ text.places > 0)
           raw == IF human THEN toRawUnits(text, scale)
                  ELSE IF text.places > 0 \/ text.digits < 0 THEN Rejected ELSE InRange(text.digits)
           r == raw.value
           n == IF row.ok THEN row.value.raw ELSE 0
           op == "formatForDbStorage"
           cells == [raw |-> r, formatted |-> toHumanUnits(r, scale, TRUE).value,
                     trimmed |-> toHumanUnits(r, scale, FALSE).value]
<1>2. row = IF IsDecimals(scale) /\ raw.ok /\ r < Pow10[precision] THEN Ok(cells) ELSE Rejected
  BY DEF formatForDbStorage
<1> HIDE DEF row
<1>3. CASE row.ok
  <2>1. /\ IsDecimals(scale) /\ raw.ok /\ row.value.raw = r
        /\ row.value.formatted = toHumanUnits(r, scale, TRUE).value
        /\ row.value.trimmed = toHumanUnits(r, scale, FALSE).value
    <3>1. /\ cells.raw = r /\ cells.formatted = toHumanUnits(r, scale, TRUE).value
          /\ cells.trimmed = toHumanUnits(r, scale, FALSE).value
      OBVIOUS
    <3> HIDE DEF cells, raw, r
    <3>2. IsDecimals(scale) /\ raw.ok /\ row = Ok(cells)
      BY <1>2, <1>3, OkFacts
    <3>3. row.value = cells
      BY <3>2, OkFacts
    <3>4. QED
      BY <3>1, <3>2, <3>3
  <2>2. scale \in 0 .. MaxDecimals
    BY <2>1 DEF IsDecimals
  <2>3. r \in Nat /\ isAmountWithinRange(r)
    <3>1. CASE human
      <4>1. raw = toRawUnits(text, scale)
        BY <3>1
      <4>2. /\ text.digits >= 0 /\ text.places <= scale
            /\ raw = InRange(text.digits * Pow10[scale - text.places])
        BY <2>1, <4>1, OkFacts DEF toRawUnits
      <4>3. text.digits * Pow10[scale - text.places] \in Nat
        <5>1. text.digits \in Nat /\ text.places \in 0 .. MaxPlaces + MaxDecimals
          BY <4>2, TextFacts
        <5>2. QED
          BY <2>2, <4>2, <5>1, MovedPoint
      <4> HIDE DEF raw
      <4>4. QED
        BY <2>1, <4>2, <4>3, OkFacts
    <3>2. CASE ~ human
      <4>1. text.digits >= 0 /\ raw = InRange(text.digits) /\ text.digits \in Nat
        BY <2>1, <3>2, OkFacts, TextFacts
      <4> HIDE DEF raw
      <4>2. QED
        BY <2>1, <4>1, OkFacts
    <3>3. QED
      BY <3>1, <3>2
  <2> HIDE DEF r
  <2>4. row.value.formatted = Text(r, scale) /\ row.value.trimmed = Trimmed(r, scale)
    BY <2>1, OkFacts DEF toHumanUnits
  <2>5. parseDecimalDbValue(row.value.formatted, scale) = Ok(r)
    BY <2>4 DEF parseDecimalDbValue, Text
  <2>6. toRawUnits(row.value.trimmed, scale) = InRange(r)
    BY <2>2, <2>3, <2>4, ReadBack
  <2>7. AnswerConversion(op, r, 1, "exact", Ok(r)) \/ AnswerConversion(op, r, 1, "exact", InRange(r))
    BY <1>1, <1>3, <2>1, <2>5, <2>6 DEF row
  <2>8. QED
    BY <2>3, <2>7, ItselfIsResult, AnswerIsConverted
<1>4. CASE ~ row.ok
  <2>1. AnswerConversion(op, 0, 1, "exact", Rejected)
    BY <1>1, <1>4 DEF row
  <2>2. Rejected.ok \in BOOLEAN /\ IsResult(op, 0, 1, "exact", Rejected)
    BY OkFacts DEF IsResult
  <2>3. QED
    BY <2>1, <2>2, AnswerIsConverted
<1>5. QED
  BY <1>3, <1>4

\* What divRound gives is rounded as the mode says, half-even as it was before.
LEMMA DivRoundIsResult ==
  ASSUME NEW op, NEW n \in Int, NEW d \in Int \ {0}, NEW mode \in RoundingModes
  PROVE  /\ IsResult(op, n, d, normalizeRoundingMode(mode), InRange(divRound(n, d, mode)))
         /\ op \in Unlimited => IsResult(op, n, d, normalizeRoundingMode(mode), Ok(divRound(n, d, mode)))
<1> DEFINE q == divRound(n, d, mode)
<1>1. q \in Int /\ RoundedAs(n, d, normalizeRoundingMode(mode), q)
  BY DivRoundIsRounded
<1> HIDE DEF q
<1>2. /\ IsResult(op, n, d, normalizeRoundingMode(mode), InRange(q))
      /\ op \in Unlimited => IsResult(op, n, d, normalizeRoundingMode(mode), Ok(q))
  BY <1>1, OkFacts DEF IsResult
<1>3. QED
  BY <1>2 DEF q

LEMMA HalfEvenIsAMode == "half-even" \in RoundingModes /\ normalizeRoundingMode("half-even") = "half-even"
  BY DEF RoundingModes, normalizeRoundingMode

\* A change of decimals rounds half to even, once.
LEMMA RescaleIsConverted ==
  ASSUME Rescale
  PROVE  IsConverted(conversion')
<1>1. PICK input \in Inputs, from \in Precisions, to \in Precisions :
        /\ IsLedgerAmount(input)
        /\ AnswerConversion("convertMinorDecimals", input.value * Pow10[to], Pow10[from], "half-even",
             convertMinorDecimals(input.value, from, to))
  BY DEF Rescale
<1> DEFINE value == input.value
           op == "convertMinorDecimals"
           outcome == convertMinorDecimals(value, from, to)
<1>2. value \in Nat /\ op \in Unlimited
  BY <1>1, InputFacts DEF Unlimited
<1> HIDE DEF value
<1>3. CASE ~ (IsDecimals(from) /\ IsDecimals(to))
  <2>1. outcome = Rejected
    BY <1>3 DEF convertMinorDecimals
  <2>2. outcome.ok \in BOOLEAN /\ \A n, d : IsResult(op, n, d, "half-even", outcome)
    BY <2>1, OkFacts DEF IsResult
  <2>3. QED
    BY <1>1, <2>2, AnswerIsConverted DEF value
<1>4. CASE IsDecimals(from) /\ IsDecimals(to) /\ to >= from
  <2>1. /\ from \in 0 .. MaxDecimals /\ to \in 0 .. MaxDecimals /\ from <= to
        /\ from \in 0 .. MaxPlaces + MaxDecimals
    BY <1>4, UnitsAssumption DEF IsDecimals
  <2> DEFINE v == value * Pow10[to - from]
  <2>2. outcome = Ok(v)
    BY <1>4 DEF convertMinorDecimals
  <2>3. /\ value * Pow10[to] \in Int /\ Pow10[from] \in Nat \ {0} /\ v \in Nat
        /\ RoundedAs(value * Pow10[to], Pow10[from], "half-even", v)
    BY <1>2, <2>1, MovedPoint
  <2> HIDE DEF v, outcome
  <2>4. outcome.ok \in BOOLEAN /\ IsResult(op, value * Pow10[to], Pow10[from], "half-even", outcome)
    <3> DEFINE n == value * Pow10[to]
               d == Pow10[from]
    <3>1. n \in Int /\ d \in Int \ {0} /\ v \in Int /\ RoundedAs(n, d, "half-even", v)
      BY <2>3
    <3>2. outcome.ok = TRUE /\ outcome.value = v
      BY <2>2, OkFacts
    <3> HIDE DEF n, d, op
    <3>3. outcome.ok \in BOOLEAN /\ IsResult(op, n, d, "half-even", outcome)
      BY <1>2, <3>1, <3>2 DEF IsResult
    <3>4. QED
      BY <3>3 DEF n, d
  <2>5. QED
    BY <1>1, <2>4, AnswerIsConverted DEF value, outcome
<1>5. CASE IsDecimals(from) /\ IsDecimals(to) /\ ~ (to >= from)
  <2> DEFINE k == from - to
             c == Pow10[to]
             D == Pow10[k]
             q == divRound(value, D, "half-even")
  <2>1. outcome = Ok(q)
    BY <1>5 DEF convertMinorDecimals
  <2>2. k \in Places /\ to \in Places /\ k + to \in Places /\ k + to = from
    BY <1>5, UnitsAssumption DEF IsDecimals, Places
  <2> HIDE DEF k
  <2>3. D \in Nat \ {0} /\ c \in Nat \ {0} /\ Pow10[from] = D * c
    BY <2>2, PowersMultiply
  <2> HIDE DEF c, D
  <2>4. q \in Int /\ RoundedAs(value, D, "half-even", q)
    <3>1. value \in Int /\ D \in Int \ {0}
      BY <1>2, <2>3
    <3>2. QED
      BY <3>1, HalfEvenIsAMode, DivRoundIsRounded
  <2> HIDE DEF q
  <2>5. value * c \in Int /\ D * c \in Nat \ {0} /\ RoundedAs(value * c, D * c, "half-even", q)
    <3>1. value \in Int
      BY <1>2
    <3>2. QED
      BY <2>3, <2>4, <3>1, ScaledRounding
  <2> HIDE DEF outcome
  <2>6. outcome.ok \in BOOLEAN /\ IsResult(op, value * c, D * c, "half-even", outcome)
    <3> DEFINE n == value * c
               d == D * c
    <3>1. n \in Int /\ d \in Int \ {0} /\ q \in Int /\ RoundedAs(n, d, "half-even", q)
      BY <2>4, <2>5
    <3>2. outcome.ok = TRUE /\ outcome.value = q
      BY <2>1, OkFacts
    <3> HIDE DEF n, d, op
    <3>3. outcome.ok \in BOOLEAN /\ IsResult(op, n, d, "half-even", outcome)
      BY <1>2, <3>1, <3>2 DEF IsResult
    <3>4. QED
      BY <3>3 DEF n, d
  <2>7. AnswerConversion(op, value * c, D * c, "half-even", outcome)
    BY <1>1, <2>3 DEF value, c, outcome
  <2>8. QED
    BY <2>6, <2>7, AnswerIsConverted
<1>6. QED
  BY <1>3, <1>4, <1>5

\* A product is divided once, by the mode that was asked for.
LEMMA MultiplyIsConverted ==
  ASSUME Multiply
  PROVE  IsConverted(conversion')
<1>1. PICK amount \in Inputs, multiplier \in Inputs, divisor \in Inputs :
        \/ \E mode \in RoundingModes \ {"floor"} :
             AnswerConversion("applyStablecoinCentsMultiplier", amount.value * multiplier.value, divisor.value,
               normalizeRoundingMode(mode),
               applyStablecoinCentsMultiplier(amount.value, multiplier.value, divisor.value, mode))
        \/ AnswerConversion("scaleWithRounding", amount.value * multiplier.value, divisor.value, "half-even",
             scaleWithRounding(amount.value, multiplier.value, divisor.value))
  BY DEF Multiply
<1> DEFINE n == amount.value * multiplier.value
           d == divisor.value
<1>2. n \in Int /\ d \in Int
  <2>1. amount.value \in Int /\ multiplier.value \in Int /\ d \in Int
    BY InputFacts
  <2>2. QED
    BY <2>1, Product
<1> HIDE DEF n, d
<1>3. CASE \E mode \in RoundingModes \ {"floor"} :
             AnswerConversion("applyStablecoinCentsMultiplier", n, d, normalizeRoundingMode(mode),
               applyStablecoinCentsMultiplier(amount.value, multiplier.value, d, mode))
  <2>1. PICK mode \in RoundingModes :
             AnswerConversion("applyStablecoinCentsMultiplier", n, d, normalizeRoundingMode(mode),
               applyStablecoinCentsMultiplier(amount.value, multiplier.value, d, mode))
    BY <1>3
  <2> DEFINE outcome == applyStablecoinCentsMultiplier(amount.value, multiplier.value, d, mode)
             op == "applyStablecoinCentsMultiplier"
  <2>2. outcome = IF d # 0 /\ isAmountWithinRange(n) THEN InRange(divRound(n, d, mode)) ELSE Rejected
    BY DEF applyStablecoinCentsMultiplier, n
  <2>3. d # 0 => IsResult(op, n, d, normalizeRoundingMode(mode), InRange(divRound(n, d, mode)))
    BY <1>2, DivRoundIsResult
  <2>4. IsResult(op, n, d, normalizeRoundingMode(mode), Rejected)
    BY OkFacts DEF IsResult
  <2>5. outcome.ok \in BOOLEAN /\ IsResult(op, n, d, normalizeRoundingMode(mode), outcome)
    BY <2>2, <2>3, <2>4, OkFacts
  <2>6. QED
    BY <2>1, <2>5, AnswerIsConverted
<1>4. CASE AnswerConversion("scaleWithRounding", n, d, "half-even",
                            scaleWithRounding(amount.value, multiplier.value, d))
  <2> DEFINE outcome == scaleWithRounding(amount.value, multiplier.value, d)
             op == "scaleWithRounding"
  <2>1. outcome = IF d = 0 THEN Rejected ELSE Ok(divRound(n, d, "half-even"))
    BY DEF scaleWithRounding, n
  <2>2. d # 0 => IsResult(op, n, d, "half-even", Ok(divRound(n, d, "half-even")))
    <3>1. op \in Unlimited
      BY DEF Unlimited
    <3> HIDE DEF op
    <3>2. QED
      BY <1>2, <3>1, HalfEvenIsAMode, DivRoundIsResult
  <2>3. IsResult(op, n, d, "half-even", Rejected)
    BY OkFacts DEF IsResult
  <2>4. outcome.ok \in BOOLEAN /\ IsResult(op, n, d, "half-even", outcome)
    BY <2>1, <2>2, <2>3, OkFacts
  <2>5. QED
    BY <1>4, <2>4, AnswerIsConverted
<1>5. QED
  BY <1>1, <1>3, <1>4 DEF n, d

\* Rates multiply and divide within the range of amounts.
LEMMA ApplyRateIsConverted ==
  ASSUME ApplyRate
  PROVE  IsConverted(conversion')
<1>1. PICK amount \in Inputs, rate \in Inputs, scale \in Inputs :
        /\ IsLedgerAmount(amount) /\ IsLedgerAmount(rate) /\ IsLedgerAmount(scale)
        /\ \/ AnswerConversion("applyConversionRate", amount.value * rate.value, 1, "exact",
                applyConversionRate(amount.value, rate.value))
           \/ AnswerConversion("estimateInterestYield", amount.value * rate.value, 1, "exact",
                estimateInterestYield(amount.value, rate.value))
           \/ AnswerConversion("applyRoundedScale", amount.value * rate.value, scale.value, "half-even",
                applyRoundedScale(amount.value, rate.value, scale.value))
  BY DEF ApplyRate
<1> DEFINE n == amount.value * rate.value
           d == scale.value
<1>2. n \in Nat /\ d \in Nat
  <2>1. amount.value \in Nat /\ rate.value \in Nat /\ d \in Nat
    BY <1>1, InputFacts
  <2>2. QED
    BY <2>1
<1>3. applyRoundedScale(amount.value, rate.value, d) = roundHalfEven(n, d)
  BY DEF applyRoundedScale
<1> HIDE DEF n, d
<1>4. \A op : InRange(n).ok \in BOOLEAN /\ IsResult(op, n, 1, "exact", InRange(n))
  <2>1. RoundedAs(n, 1, "exact", n)
    <3>1. 1 \in Nat \ {0} /\ n * 1 = n /\ n \in Int
      BY <1>2
    <3>2. QED
      BY <3>1, ExactIsRounded
  <2>2. QED
    BY <1>2, <2>1, OkFacts DEF IsResult
<1>5. CASE \E op : AnswerConversion(op, n, 1, "exact", InRange(n))
  BY <1>4, <1>5, AnswerIsConverted
<1>6. CASE AnswerConversion("applyRoundedScale", n, d, "half-even", roundHalfEven(n, d))
  <2> DEFINE op == "applyRoundedScale"
             outcome == roundHalfEven(n, d)
  <2>1. ~ (n < 0) /\ (d <= 0 <=> d = 0)
    BY <1>2
  <2>2. d # 0 => outcome = Ok(divRound(n, d, "half-even"))
    <3> SUFFICES ASSUME d # 0 PROVE outcome = Ok(divRound(n, d, "half-even"))
      OBVIOUS
    <3> DEFINE q == n \div d
               twice == 2 * (n % d)
               rounded == IF twice > d \/ (twice = d /\ q % 2 # 0) THEN q + 1 ELSE q
    <3>1. rounded = divRound(n, d, "half-even")
      <4>1. d \in Nat \ {0}
        BY <1>2
      <4>2. QED
        BY <1>2, <4>1, HalfEvenCopy
    <3>2. outcome = Ok(rounded)
      BY <2>1 DEF roundHalfEven
    <3> HIDE DEF rounded
    <3>3. QED
      BY <3>1, <3>2
  <2>3. d = 0 => outcome = Rejected
    BY DEF roundHalfEven
  <2>4. d # 0 => IsResult(op, n, d, "half-even", Ok(divRound(n, d, "half-even")))
    <3>1. op \in Unlimited
      BY DEF Unlimited
    <3> HIDE DEF op
    <3>2. n \in Int /\ (d # 0 => d \in Int \ {0})
      BY <1>2
    <3>3. QED
      BY <3>1, <3>2, HalfEvenIsAMode, DivRoundIsResult
  <2>5. IsResult(op, n, d, "half-even", Rejected)
    BY OkFacts DEF IsResult
  <2> HIDE DEF outcome
  <2>6. outcome.ok \in BOOLEAN /\ IsResult(op, n, d, "half-even", outcome)
    BY <2>2, <2>3, <2>4, <2>5, OkFacts
  <2>7. QED
    BY <1>6, <2>6, AnswerIsConverted DEF outcome
<1>7. QED
  BY <1>1, <1>3, <1>5, <1>6 DEF n, d, applyConversionRate, estimateInterestYield

\* Whatever the digits, the decimals and the rates, a conversion that is not
\* refused is the exact quotient or its rounding, and an i128 where that is checked.
LEMMA UnitInvariant == UnitSpec => []IsConverted(conversion)
<1>1. UnitInit => IsConverted(conversion)
  BY NoneIsConverted DEF UnitInit
<1>2. IsConverted(conversion) /\ [UnitNext]_unitVars => IsConverted(conversion)'
  <2>1. CASE UnitNext
    BY <2>1, ReadIsConverted, ReadRoundingIsConverted, WriteIsConverted, WriteColumnIsConverted,
       WriteRowIsConverted, RescaleIsConverted, MultiplyIsConverted, ApplyRateIsConverted DEF UnitNext
  <2>2. CASE UNCHANGED unitVars
    BY <2>2 DEF unitVars
  <2>3. QED
    BY <2>1, <2>2
<1>3. QED
  BY <1>1, <1>2, PTL DEF UnitSpec

\* A conversion that is not refused is the exact quotient, rounded only where and
\* as it is said to be, and what was written is read back as it was.
THEOREM ConversionsExact == UnitSpec => []ConversionsAreExact
<1>1. IsConverted(conversion) => ConversionsAreExact
  BY DEF IsConverted, IsResult, ConversionsAreExact, Unlimited
<1>2. QED
  BY <1>1, UnitInvariant, PTL

\* No conversion is shown as a quotient by zero, and each result is a number.
THEOREM UnitTypes == UnitSpec => []UnitTypeOK
<1>1. IsConverted(conversion) => UnitTypeOK
  BY DEF IsConverted, IsResult, UnitTypeOK
<1>2. QED
  BY <1>1, UnitInvariant, PTL
=============================================================================
