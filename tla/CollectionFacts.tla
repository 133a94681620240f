--------------------------- MODULE CollectionFacts ---------------------------
(***************************************************************************)
(* What the proofs keep needing about finite sets of numbers, sums and     *)
(* quotients.  The library defines Min and Max by CHOOSE; that the         *)
(* element exists follows from the well-foundedness of < on Nat, for a     *)
(* maximum through the distances to an upper bound.  A page is then the    *)
(* beginning of what it is taken from.  A sum is defined by recursion over *)
(* a finite set; what it adds up to follows from an induction over sets    *)
(* that is stated with a set of sets in place of a predicate.              *)
(***************************************************************************)
EXTENDS Collections, TLAPS, FiniteSetTheorems, WellFoundedInduction

\* A non-empty set of naturals has a minimum, and Min is it.
LEMMA MinProperty ==
  ASSUME NEW S \in SUBSET Nat, S # {}
  PROVE  Min(S) \in S /\ \A x \in S : Min(S) <= x
<1> DEFINE R == OpToRel(<, Nat)
<1>1. IsWellFoundedOn(R, Nat)
  BY NatLessThanWellFounded, Zenon
<1>2. \E m \in S : \A y \in S : <<y, m>> \notin R
  <2> HIDE DEF R
  <2> QED BY <1>1, WFMin, Zenon
<1>3. PICK m \in S : \A y \in S : <<y, m>> \notin R
  BY <1>2
<1>4. \A y \in S : ~ (y < m)
  BY <1>3, Zenon DEF OpToRel
<1>5. \A y \in S : m <= y
  BY <1>4
<1>6. QED
  BY <1>5 DEF Min

\* A non-empty set of naturals below a bound has a maximum, and Max is it.
LEMMA MaxProperty ==
  ASSUME NEW n \in Nat, NEW S \in SUBSET (0 .. n), S # {}
  PROVE  Max(S) \in S /\ \A x \in S : x <= Max(S)
<1> DEFINE T == {n - x : x \in S}
<1>1. T \in SUBSET Nat
  OBVIOUS
<1>2. T # {}
  OBVIOUS
<1>3. Min(T) \in T /\ \A t \in T : Min(T) <= t
  BY <1>1, <1>2, MinProperty, Zenon
<1>4. PICK m \in S : Min(T) = n - m
  BY <1>3, Zenon
<1>5. \A x \in S : n - m <= n - x
  BY <1>3, <1>4, Zenon
<1>6. \A x \in S : m >= x
  BY <1>5
<1>7. QED
  BY <1>6 DEF Max

\* A page holds nothing but what matches the request.
LEMMA FirstNFacts ==
  ASSUME NEW S, NEW n
  PROVE  FirstN(S, n) \subseteq S
  BY DEF FirstN

\* A page is the beginning of what matches: it holds what lies before its last event,
\* and everything when it is not full.
LEMMA FirstNBegins ==
  ASSUME NEW last \in Nat, NEW S \in SUBSET (0 .. last), NEW n \in Nat
  PROVE  /\ \A i \in S \ FirstN(S, n), j \in FirstN(S, n) : j < i
         /\ Cardinality(FirstN(S, n)) < n => FirstN(S, n) = S
<1> DEFINE below(i) == {j \in S : j < i}
<1>0. 0 .. last \subseteq Nat /\ IsFiniteSet(0 .. last)
  BY FS_Interval
<1>1. \A i \in S : IsFiniteSet(below(i)) /\ Cardinality(below(i)) \in Nat
  <2>1. \A i \in S : below(i) \in SUBSET (0 .. last)
    OBVIOUS
  <2> HIDE DEF below
  <2>2. QED
    BY <1>0, <2>1, FS_Subset, FS_CardinalityType
<1>2. \A i \in S : i \in FirstN(S, n) <=> Cardinality(below(i)) < n
  BY DEF FirstN
<1>3. FirstN(S, n) \subseteq S
  BY FirstNFacts
<1>4. ASSUME NEW i \in S \ FirstN(S, n), NEW j \in FirstN(S, n) PROVE j < i
  <2>0. i \in Nat /\ j \in Nat /\ S \subseteq Nat
    BY <1>0, <1>3
  <2>1. SUFFICES ASSUME i <= j PROVE FALSE
    BY <2>0
  <2>2. below(i) \subseteq below(j)
    <3>1. \A x \in S : x < i => x < j
      BY <2>0, <2>1
    <3>2. QED
      BY <3>1
  <2> HIDE DEF below
  <2>3. Cardinality(below(i)) <= Cardinality(below(j))
    BY <1>1, <1>3, <2>2, FS_Subset
  <2>4. i \in S /\ j \in S /\ Cardinality(below(i)) \in Nat /\ Cardinality(below(j)) \in Nat
    BY <1>1, <1>3
  <2>5. Cardinality(below(j)) < n /\ ~ (Cardinality(below(i)) < n)
    BY <1>2, <2>4
  <2>6. QED
    BY <2>3, <2>4, <2>5
<1>5. ASSUME Cardinality(FirstN(S, n)) < n, FirstN(S, n) # S PROVE FALSE
  <2> DEFINE rest == S \ FirstN(S, n)
  <2>1. rest \in SUBSET Nat /\ rest # {}
    BY <1>0, <1>3, <1>5
  <2>2. Min(rest) \in rest /\ \A x \in rest : Min(rest) <= x
    <3> HIDE DEF rest
    <3> QED BY <2>1, MinProperty
  <2>3. PICK m \in rest : \A x \in rest : m <= x
    BY <2>2
  <2>4. below(m) = FirstN(S, n)
    <3>1. S \subseteq Nat
      BY <1>0
    <3>2. \A x \in S : x < m => x \in FirstN(S, n)
      BY <2>3, <3>1
    <3>3. \A x \in FirstN(S, n) : x \in S /\ x < m
      BY <1>3, <1>4, <2>3
    <3>4. QED
      BY <3>2, <3>3
  <2>5. QED
    BY <1>2, <1>5, <2>3, <2>4
<1>6. QED
  BY <1>4, <1>5

\* A page has no more than its limit.
LEMMA FirstNSize ==
  ASSUME NEW last \in Nat, NEW S \in SUBSET (0 .. last), NEW n \in Nat
  PROVE  Cardinality(FirstN(S, n)) <= n
<1> DEFINE page == FirstN(S, n)
<1>1. /\ IsFiniteSet(S) /\ page \subseteq S /\ IsFiniteSet(page)
      /\ page \in SUBSET (0 .. last)
  <2>1. page \subseteq S
    BY FirstNFacts
  <2>2. IsFiniteSet(0 .. last)
    BY FS_Interval
  <2>3. IsFiniteSet(S)
    BY <2>2, FS_Subset
  <2> HIDE DEF page
  <2>4. QED
    BY <2>1, <2>3, FS_Subset
<1>2. CASE page = {}
  BY <1>2, FS_EmptySet
<1>3. CASE page # {}
  <2> DEFINE m     == Max(page)
             below == {j \in S : j < m}
  <2>1. m \in page /\ \A x \in page : x <= m
    <3> HIDE DEF page
    <3>1. QED
      BY <1>1, <1>3, MaxProperty
  <2>2. Cardinality(below) < n
    BY <2>1 DEF FirstN
  <2>3. IsFiniteSet(below) /\ Cardinality(below) \in Nat
    <3>1. below \subseteq S
      OBVIOUS
    <3> HIDE DEF below
    <3>2. QED
      BY <1>1, <3>1, FS_Subset, FS_CardinalityType
  <2>4. page \subseteq below \cup {m}
    <3> SUFFICES ASSUME NEW x \in page, x # m PROVE x \in below
      OBVIOUS
    <3>1. x \in S /\ x \in Nat /\ m \in Nat /\ x <= m
      BY <1>1, <2>1
    <3> HIDE DEF page, m
    <3>2. QED
      BY <3>1
  <2> HIDE DEF page, m, below
  <2>5. /\ IsFiniteSet(below \cup {m})
        /\ Cardinality(below \cup {m}) \in {Cardinality(below), Cardinality(below) + 1}
    BY <2>3, FS_AddElement
  <2>6. Cardinality(page) <= Cardinality(below \cup {m})
    BY <2>4, <2>5, FS_Subset
  <2>7. Cardinality(page) \in Nat
    BY <1>1, FS_CardinalityType
  <2>8. QED
    BY <2>2, <2>3, <2>5, <2>6, <2>7 DEF page
<1>4. QED
  BY <1>2, <1>3

\* A listing has every element of its set once.
LEMMA ListingFacts ==
  ASSUME NEW S, IsFiniteSet(S), S \subseteq Nat, NEW f \in Listings(S)
  PROVE  /\ Cardinality(S) \in Nat /\ f \in [1 .. Cardinality(S) -> S]
         /\ \A a, b \in 1 .. Cardinality(S) : f[a] = f[b] => a = b
         /\ \A x \in S : \E a \in 1 .. Cardinality(S) : f[a] = x
<1> DEFINE k == Cardinality(S)
<1>1. k \in Nat
  BY FS_CardinalityType
<1>2. f \in [1 .. k -> S] /\ \A a, b \in 1 .. k : a < b => f[a] < f[b]
  BY DEF Listings
<1>3. ASSUME NEW a \in 1 .. k, NEW b \in 1 .. k, f[a] = f[b] PROVE a = b
  <2>1. f[a] \in Nat /\ f[b] \in Nat
    BY <1>2
  <2>2. a \in Nat /\ b \in Nat
    BY <1>1
  <2>3. ~ (a < b) /\ ~ (b < a)
    BY <1>2, <1>3, <2>1
  <2>4. QED
    BY <2>2, <2>3
<1>4. ASSUME NEW x \in S, \A a \in 1 .. k : f[a] # x PROVE FALSE
  <2>1. f \in [1 .. k -> S \ {x}]
    BY <1>2, <1>4
  <2>2. IsFiniteSet(S \ {x}) /\ Cardinality(S \ {x}) = k - 1
    BY FS_RemoveElement
  <2>3. IsFiniteSet(1 .. k) /\ Cardinality(1 .. k) = k
    BY <1>1, FS_CountingElements, FS_Interval
  <2>4. Cardinality(S \ {x}) < Cardinality(1 .. k)
    BY <1>1, <2>2, <2>3
  <2> DEFINE A == 1 .. k
             B == S \ {x}
  <2>a. IsFiniteSet(A) /\ IsFiniteSet(B) /\ Cardinality(B) < Cardinality(A) /\ f \in [A -> B]
    BY <2>1, <2>2, <2>3, <2>4
  <2> HIDE DEF A, B
  <2>b. \E a, b \in A : a # b /\ f[a] = f[b]
    BY <2>a, FS_PigeonHole
  <2>5. \E a, b \in 1 .. k : a # b /\ f[a] = f[b]
    BY <2>b DEF A
  <2>6. QED
    BY <1>3, <2>5
<1>5. QED
  BY <1>1, <1>2, <1>3, <1>4

\* A set of numbers that has 0 and with every number the next one has them all.
LEMMA Induction ==
  ASSUME NEW N \in SUBSET Nat, 0 \in N, \A n \in N : n + 1 \in N
  PROVE  N = Nat
<1> SUFFICES ASSUME Nat \ N # {} PROVE FALSE
  OBVIOUS
<1>1. PICK m \in Nat \ N : \A x \in Nat \ N : m <= x
  <2>1. Nat \ N \in SUBSET Nat
    OBVIOUS
  <2>2. QED
    BY <2>1, MinProperty
<1>2. m # 0 /\ m - 1 \in Nat /\ (m - 1) + 1 = m /\ ~ (m <= m - 1)
  BY <1>1
<1>3. m - 1 \in N
  BY <1>1, <1>2
<1>4. QED
  BY <1>1, <1>2, <1>3

\* Induction over the parts of a finite set: when a part belongs to F as soon as the
\* parts with one element less do, the whole set does.
LEMMA SetInduction ==
  ASSUME NEW S, IsFiniteSet(S), NEW F,
         \A R \in SUBSET S : (\A x \in R : R \ {x} \in F) => R \in F
  PROVE  S \in F
<1> DEFINE N == {n \in Nat : \A R \in SUBSET S : Cardinality(R) = n => R \in F}
<1>0. \A R \in SUBSET S : IsFiniteSet(R) /\ Cardinality(R) \in Nat /\ (Cardinality(R) = 0 => R = {})
  BY FS_Subset, FS_CardinalityType, FS_EmptySet
<1>1. 0 \in N
  BY <1>0
<1>2. ASSUME NEW n \in N PROVE n + 1 \in N
  <2> SUFFICES ASSUME NEW R \in SUBSET S, Cardinality(R) = n + 1 PROVE R \in F
    OBVIOUS
  <2>1. n \in Nat /\ (n + 1) - 1 = n
    OBVIOUS
  <2>2. ASSUME NEW x \in R PROVE R \ {x} \in F
    <3>1. Cardinality(R \ {x}) = n
      BY <1>0, <2>1, FS_RemoveElement
    <3>2. QED
      BY <3>1
  <2>3. QED
    BY <2>2
<1>3. N = Nat
  <2>1. N \in SUBSET Nat
    OBVIOUS
  <2> HIDE DEF N
  <2>2. QED
    BY <1>1, <1>2, <2>1, Induction
<1>4. Cardinality(S) \in N
  BY <1>3, FS_CardinalityType
<1>5. QED
  BY <1>4

\* The sums over the parts of a set.
IsSum(g, f, S) ==
  /\ g \in [SUBSET S -> Int]
  /\ \A R \in SUBSET S : g[R] = IF R = {} THEN 0 ELSE f[The(R)] + g[R \ {The(R)}]

\* Those of a finite set exist.
LEMMA SumsExist ==
  ASSUME NEW S, IsFiniteSet(S), NEW f, \A x \in S : f[x] \in Int
  PROVE  \E g : IsSum(g, f, S)
<1> DEFINE Small(n)   == {R \in SUBSET S : Cardinality(R) <= n}
           Sums(n)    == {g \in [Small(n) -> Int] :
                            \A R \in Small(n) : g[R] = IF R = {} THEN 0 ELSE f[The(R)] + g[R \ {The(R)}]}
           N          == {n \in Nat : Sums(n) # {}}
<1>0. \A R \in SUBSET S : IsFiniteSet(R) /\ Cardinality(R) \in Nat /\ (Cardinality(R) = 0 => R = {})
  BY FS_Subset, FS_CardinalityType, FS_EmptySet
<1>1. \A R \in SUBSET S : R # {} => The(R) \in R /\ f[The(R)] \in Int
  BY DEF The
<1>2. 0 \in N
  <2> DEFINE g == [R \in Small(0) |-> 0]
  <2>1. \A R \in Small(0) : R = {}
    BY <1>0
  <2>2. g \in Sums(0)
    BY <2>1
  <2>3. QED
    BY <2>2
<1>3. ASSUME NEW n \in N PROVE n + 1 \in N
  <2>0. n \in Nat
    OBVIOUS
  <2>1. PICK g \in Sums(n) : TRUE
    OBVIOUS
  <2> DEFINE h == [R \in Small(n + 1) |-> IF R = {} THEN 0 ELSE f[The(R)] + g[R \ {The(R)}]]
  <2>2. \A R \in Small(n + 1) : R # {} => R \ {The(R)} \in Small(n) /\ R \ {The(R)} \in Small(n + 1)
    <3> SUFFICES ASSUME NEW R \in Small(n + 1), R # {}
                 PROVE  R \ {The(R)} \in Small(n) /\ R \ {The(R)} \in Small(n + 1)
      OBVIOUS
    <3>1. R \in SUBSET S /\ The(R) \in R /\ R \ {The(R)} \in SUBSET S
      BY <1>1
    <3>2. Cardinality(R \ {The(R)}) = Cardinality(R) - 1
      BY <1>0, <3>1, FS_RemoveElement
    <3>3. Cardinality(R) \in Nat /\ Cardinality(R) <= n + 1
      BY <1>0, <3>1
    <3>4. Cardinality(R) - 1 <= n /\ Cardinality(R) - 1 <= n + 1
      BY <2>0, <3>3
    <3>5. QED
      BY <3>1, <3>2, <3>4
  <2>3. g \in [Small(n) -> Int] /\ \A R \in Small(n) : g[R] = IF R = {} THEN 0 ELSE f[The(R)] + g[R \ {The(R)}]
    BY <2>1
  <2>4. \A R \in Small(n + 1) : R \in SUBSET S
    OBVIOUS
  <2>5. \A R \in Small(n) : R \in Small(n + 1)
    BY <1>0, <2>0
  <2> HIDE DEF Small
  <2>6. h \in [Small(n + 1) -> Int]
    BY <1>1, <2>2, <2>3, <2>4
  <2>7. \A R \in Small(n) : h[R] = g[R]
    BY <2>3, <2>5
  <2>8. \A R \in Small(n + 1) : h[R] = IF R = {} THEN 0 ELSE f[The(R)] + h[R \ {The(R)}]
    BY <2>2, <2>7
  <2> HIDE DEF h
  <2>9. h \in Sums(n + 1)
    BY <2>6, <2>8
  <2>10. QED
    BY <2>0, <2>9
<1>4. N = Nat
  <2>1. N \in SUBSET Nat
    OBVIOUS
  <2> HIDE DEF N
  <2>2. QED
    BY <1>2, <1>3, <2>1, Induction
<1>5. Cardinality(S) \in N
  BY <1>4, FS_CardinalityType
<1>6. Small(Cardinality(S)) = SUBSET S
  BY FS_Subset
<1>7. PICK g \in Sums(Cardinality(S)) : TRUE
  BY <1>5
<1>8. IsSum(g, f, S)
  BY <1>6, <1>7 DEF IsSum
<1>9. QED
  BY <1>8, Zenon

\* What Total chooses a function for.
SumEquation(g, f, S) ==
  g = [R \in SUBSET S |-> IF R = {} THEN 0 ELSE f[The(R)] + g[R \ {The(R)}]]

\* A sum of a finite set is the value of one of them.
LEMMA TotalIsASum ==
  ASSUME NEW S, IsFiniteSet(S), NEW f, \A x \in S : f[x] \in Int
  PROVE  \E g : IsSum(g, f, S) /\ Total(f, S) = g[S]
<1>1. PICK h : IsSum(h, f, S)
  BY SumsExist, Zenon
<1> DEFINE g == CHOOSE k : SumEquation(k, f, S)
<1>2. SumEquation(h, f, S)
  <2>1. h = [R \in SUBSET S |-> h[R]]
    BY <1>1 DEF IsSum
  <2>2. QED
    BY <1>1, <2>1, Zenon DEF SumEquation, IsSum
<1>3. SumEquation(g, f, S)
  BY <1>2, Zenon
<1>4. Total(f, S) = g[S]
  BY Zenon DEF Total, SumEquation
<1> HIDE DEF g
<1>5. ASSUME NEW k, SumEquation(k, f, S)
      PROVE  \A R \in SUBSET S : k[R] = IF R = {} THEN 0 ELSE f[The(R)] + k[R \ {The(R)}]
  BY <1>5, Zenon DEF SumEquation
<1>6. g \in [SUBSET S -> Int]
  <2> DEFINE F == {R \in SUBSET S : g[R] \in Int}
  <2>1. \A R \in SUBSET S : R # {} => The(R) \in R /\ f[The(R)] \in Int
    BY DEF The
  <2>2. \A Q \in SUBSET S : Q \in F
    <3> SUFFICES ASSUME NEW Q \in SUBSET S PROVE Q \in F
      OBVIOUS
    <3>1. ASSUME NEW R \in SUBSET Q, \A x \in R : R \ {x} \in F PROVE R \in F
      <4>1. R \in SUBSET S /\ g[R] = IF R = {} THEN 0 ELSE f[The(R)] + g[R \ {The(R)}]
        BY <1>3, <1>5
      <4>2. R # {} => g[R \ {The(R)}] \in Int
        BY <2>1, <3>1, <4>1
      <4>3. QED
        BY <2>1, <4>1, <4>2
    <3>2. IsFiniteSet(Q)
      BY FS_Subset
    <3> HIDE DEF F
    <3>3. QED
      BY <3>1, <3>2, SetInduction
  <2>3. g = [R \in SUBSET S |-> g[R]]
    BY <1>3, Zenon DEF SumEquation
  <2>4. QED
    BY <2>2, <2>3
<1>7. IsSum(g, f, S)
  BY <1>3, <1>5, <1>6 DEF IsSum
<1>8. QED
  BY <1>4, <1>7, Zenon

\* Two of them agree where both are defined.
LEMMA SumsAgree ==
  ASSUME NEW S, NEW T \in SUBSET S, IsFiniteSet(T), NEW f, NEW g, NEW h,
         IsSum(g, f, S), IsSum(h, f, T)
  PROVE  g[T] = h[T]
<1> DEFINE F == {R \in SUBSET T : g[R] = h[R]}
<1>0. \A R \in SUBSET T : R # {} => /\ g[R] = f[The(R)] + g[R \ {The(R)}]
                                  /\ h[R] = f[The(R)] + h[R \ {The(R)}]
  BY DEF IsSum
<1>1. ASSUME NEW R \in SUBSET T, \A x \in R : R \ {x} \in F PROVE R \in F
  <2>1. CASE R = {}
    <3>1. g[R] = 0 /\ h[R] = 0
      BY <2>1 DEF IsSum
    <3>2. QED
      BY <3>1
  <2>2. CASE R # {}
    <3>1. The(R) \in R
      BY <2>2 DEF The
    <3>2. g[R \ {The(R)}] = h[R \ {The(R)}]
      BY <1>1, <3>1
    <3>3. g[R] = f[The(R)] + g[R \ {The(R)}] /\ h[R] = f[The(R)] + h[R \ {The(R)}]
      BY <1>0, <2>2
    <3>4. g[R] = h[R]
      BY <3>2, <3>3, Zenon
    <3>5. QED
      BY <3>4
  <2>3. QED
    BY <2>1, <2>2
<1>2. T \in F
  <2> HIDE DEF F
  <2>1. QED
    BY <1>1, SetInduction
<1>3. QED
  BY <1>2

\* A sum is a number, and that of nothing is 0.
LEMMA TotalType ==
  ASSUME NEW S, IsFiniteSet(S), NEW f, \A x \in S : f[x] \in Int
  PROVE  Total(f, S) \in Int /\ (S = {} => Total(f, S) = 0)
<1>1. PICK g : IsSum(g, f, S) /\ Total(f, S) = g[S]
  BY TotalIsASum, Zenon
<1>2. QED
  BY <1>1 DEF IsSum

\* A sum is its definition's: the first element and the rest.
LEMMA TotalOfTheRest ==
  ASSUME NEW S, IsFiniteSet(S), NEW f, \A x \in S : f[x] \in Int, S # {}
  PROVE  The(S) \in S /\ Total(f, S) = f[The(S)] + Total(f, S \ {The(S)})
<1>1. The(S) \in S
  BY DEF The
<1> DEFINE T == S \ {The(S)}
<1>2. IsFiniteSet(T) /\ T \in SUBSET S /\ \A x \in T : f[x] \in Int
  BY FS_Subset
<1>3. PICK g : IsSum(g, f, S) /\ Total(f, S) = g[S]
  BY TotalIsASum, Zenon
<1>4. Total(f, S) = f[The(S)] + g[T]
  BY <1>3 DEF IsSum
<1> HIDE DEF T
<1>5. PICK h : IsSum(h, f, T) /\ Total(f, T) = h[T]
  BY <1>2, TotalIsASum, Zenon
<1>6. g[T] = h[T]
  <2>1. IsSum(g, f, S) /\ IsSum(h, f, T) /\ T \in SUBSET S /\ IsFiniteSet(T)
    BY <1>2, <1>3, <1>5
  <2>2. QED
    BY <2>1, SumsAgree
<1>7. QED
  BY <1>1, <1>4, <1>5, <1>6 DEF T

\* Any element can be taken first.
LEMMA TotalStep ==
  ASSUME NEW S, IsFiniteSet(S), NEW f, \A x \in S : f[x] \in Int, NEW e \in S
  PROVE  Total(f, S) = f[e] + Total(f, S \ {e})
<1> DEFINE F == {R \in SUBSET S : \A x \in R : Total(f, R) = f[x] + Total(f, R \ {x})}
<1>0. \A R \in SUBSET S : IsFiniteSet(R) /\ \A x \in R : f[x] \in Int
  BY FS_Subset
<1>1. \A R \in SUBSET S : Total(f, R) \in Int
  BY <1>0, TotalType
<1>2. ASSUME NEW R \in SUBSET S, \A x \in R : R \ {x} \in F, NEW x \in R
      PROVE  Total(f, R) = f[x] + Total(f, R \ {x})
  <2> DEFINE c == The(R)
  <2>1. c \in R /\ Total(f, R) = f[c] + Total(f, R \ {c})
    BY <1>0, TotalOfTheRest
  <2> HIDE DEF c
  <2>2. CASE x = c
    BY <2>1, <2>2
  <2>3. CASE x # c
    <3>1. x \in R \ {c} /\ c \in R \ {x} /\ (R \ {c}) \ {x} = (R \ {x}) \ {c}
      BY <2>1, <2>3
    <3>2. Total(f, R \ {c}) = f[x] + Total(f, (R \ {c}) \ {x})
      BY <1>2, <2>1, <3>1
    <3>3. Total(f, R \ {x}) = f[c] + Total(f, (R \ {c}) \ {x})
      BY <1>2, <3>1
    <3>4. f[x] \in Int /\ f[c] \in Int /\ Total(f, (R \ {c}) \ {x}) \in Int
      BY <1>1, <2>1
    <3>5. QED
      BY <2>1, <3>2, <3>3, <3>4
  <2>4. QED
    BY <2>2, <2>3
<1>3. S \in F
  <2>1. ASSUME NEW R \in SUBSET S, \A x \in R : R \ {x} \in F PROVE R \in F
    BY <1>2, <2>1
  <2> HIDE DEF F
  <2>2. QED
    BY <2>1, SetInduction
<1>4. QED
  BY <1>3

\* A sum depends on the values alone.
LEMMA TotalCongruence ==
  ASSUME NEW S, IsFiniteSet(S), NEW f, NEW g, \A x \in S : f[x] \in Int /\ g[x] = f[x]
  PROVE  Total(g, S) = Total(f, S)
<1> DEFINE F == {R \in SUBSET S : Total(g, R) = Total(f, R)}
<1>0. \A R \in SUBSET S : /\ IsFiniteSet(R)
                          /\ \A x \in R : f[x] \in Int
                          /\ \A x \in R : g[x] \in Int
  BY FS_Subset
<1>1. ASSUME NEW R \in SUBSET S, \A x \in R : R \ {x} \in F PROVE R \in F
  <2>1. CASE R = {}
    <3>1. Total(g, R) = 0 /\ Total(f, R) = 0
      BY <1>0, <2>1, TotalType
    <3>2. QED
      BY <3>1
  <2>2. CASE R # {}
    <3>1. PICK x \in R : TRUE
      BY <2>2
    <3>2. Total(f, R) = f[x] + Total(f, R \ {x})
      BY <1>0, TotalStep
    <3>3. Total(g, R) = g[x] + Total(g, R \ {x})
      BY <1>0, TotalStep
    <3>4. Total(g, R \ {x}) = Total(f, R \ {x}) /\ g[x] = f[x]
      BY <1>1
    <3>5. QED
      BY <3>2, <3>3, <3>4
  <2>3. QED
    BY <2>1, <2>2
<1>2. S \in F
  <2> HIDE DEF F
  <2>1. QED
    BY <1>1, SetInduction
<1>3. QED
  BY <1>2

\* What is not in a part adds nothing when its values are 0.
LEMMA TotalOfPart ==
  ASSUME NEW S, IsFiniteSet(S), NEW f, \A x \in S : f[x] \in Int,
         NEW T \in SUBSET S, \A x \in S \ T : f[x] = 0
  PROVE  Total(f, S) = Total(f, T)
<1> DEFINE F == {R \in SUBSET S : Total(f, R) = Total(f, R \cap T)}
<1>0. \A R \in SUBSET S : IsFiniteSet(R) /\ \A x \in R : f[x] \in Int
  BY FS_Subset
<1>1. ASSUME NEW R \in SUBSET S, \A x \in R : R \ {x} \in F PROVE R \in F
  <2>1. CASE R \subseteq T
    <3>1. R \cap T = R
      BY <2>1
    <3>2. QED
      BY <3>1
  <2>2. CASE ~ (R \subseteq T)
    <3>1. PICK x \in R : x \notin T
      BY <2>2
    <3>2. Total(f, R) = f[x] + Total(f, R \ {x})
      BY <1>0, TotalStep
    <3>3. f[x] = 0 /\ (R \ {x}) \cap T = R \cap T
      BY <3>1
    <3>4. Total(f, R \ {x}) = Total(f, R \cap T)
      BY <1>1, <3>3
    <3>5. R \ {x} \in SUBSET S /\ Total(f, R \ {x}) \in Int
      BY <1>0, TotalType
    <3>6. Total(f, R) = Total(f, R \cap T)
      BY <3>2, <3>3, <3>4, <3>5
    <3>7. QED
      BY <3>6
  <2>3. QED
    BY <2>1, <2>2
<1>2. S \in F
  <2> HIDE DEF F
  <2>1. QED
    BY <1>1, SetInduction
<1>3. S \cap T = T
  OBVIOUS
<1>4. QED
  BY <1>2, <1>3

\* A value that grows makes the sum grow as much.
LEMMA TotalGrows ==
  ASSUME NEW S, IsFiniteSet(S), NEW f, NEW g, \A x \in S : f[x] \in Int,
         NEW e \in S, NEW d \in Int, g[e] = f[e] + d, \A x \in S \ {e} : g[x] = f[x]
  PROVE  Total(g, S) = Total(f, S) + d
<1> DEFINE T == S \ {e}
<1>1. IsFiniteSet(T) /\ (\A x \in T : f[x] \in Int /\ g[x] = f[x]) /\ \A x \in S : g[x] \in Int
  BY FS_Subset
<1>2. Total(f, S) = f[e] + Total(f, T)
  BY TotalStep
<1>3. Total(g, S) = g[e] + Total(g, T)
  BY <1>1, TotalStep
<1> HIDE DEF T
<1>4. Total(g, T) = Total(f, T)
  BY <1>1, TotalCongruence
<1>5. Total(f, T) \in Int
  BY <1>1, TotalType
<1>6. QED
  BY <1>2, <1>3, <1>4, <1>5

\* Elements counted class by class are counted once.
LEMMA CountingByClasses ==
  ASSUME NEW S, IsFiniteSet(S), NEW K, IsFiniteSet(K), NEW c, \A x \in S : c[x] \in K
  PROVE  Total([k \in K |-> Cardinality({x \in S : c[x] = k})], K) = Cardinality(S)
<1> DEFINE counts(R) == [k \in K |-> Cardinality({x \in R : c[x] = k})]
           F == {R \in SUBSET S : Total(counts(R), K) = Cardinality(R)}
<1>0. \A R \in SUBSET S : IsFiniteSet(R) /\ Cardinality(R) \in Nat
  BY FS_Subset, FS_CardinalityType
<1>1. ASSUME NEW R \in SUBSET S PROVE \A k \in K : counts(R)[k] \in Nat
  <2>1. \A k \in K : {x \in R : c[x] = k} \in SUBSET S
    OBVIOUS
  <2>2. QED
    BY <1>0, <2>1
<1>2. ASSUME NEW R \in SUBSET S, \A x \in R : R \ {x} \in F PROVE R \in F
  <2>1. CASE R = {}
    <3>1. \A k \in K : {x \in R : c[x] = k} = {}
      BY <2>1
    <3>2. \A k \in K : counts(R)[k] = 0
      BY <3>1, FS_EmptySet
    <3>3. Total(counts(R), K) = Total(counts(R), {})
      <4>1. \A k \in K : counts(R)[k] \in Int
        BY <3>2
      <4>2. {} \in SUBSET K /\ \A k \in K \ {} : counts(R)[k] = 0
        BY <3>2
      <4> HIDE DEF counts
      <4>3. QED
        BY <4>1, <4>2, TotalOfPart
    <3>4. Total(counts(R), {}) = 0
      <4>1. IsFiniteSet({}) /\ \A k \in {} : counts(R)[k] \in Int
        BY FS_EmptySet
      <4> HIDE DEF counts
      <4>2. QED
        BY <4>1, TotalType
    <3>5. Cardinality(R) = 0
      BY <2>1, FS_EmptySet
    <3>6. QED
      BY <3>3, <3>4, <3>5
  <2>2. CASE R # {}
    <3>1. PICK e \in R : TRUE
      BY <2>2
    <3> DEFINE Q == R \ {e}
    <3>2. Total(counts(Q), K) = Cardinality(Q)
      BY <1>2
    <3>3. Cardinality(R) = Cardinality(Q) + 1
      <4>1. IsFiniteSet(R) /\ Cardinality(R) \in Nat
        BY <1>0
      <4>2. Cardinality(Q) = Cardinality(R) - 1
        BY <4>1, FS_RemoveElement
      <4>3. QED
        BY <4>1, <4>2
    <3>4. \A k \in K \ {c[e]} : counts(R)[k] = counts(Q)[k]
      <4>1. \A k \in K \ {c[e]} : {x \in R : c[x] = k} = {x \in Q : c[x] = k}
        OBVIOUS
      <4>2. QED
        BY <4>1
    <3>5. c[e] \in K /\ counts(R)[c[e]] = counts(Q)[c[e]] + 1
      <4> DEFINE mine == {x \in R : c[x] = c[e]}
      <4>1. {x \in Q : c[x] = c[e]} = mine \ {e} /\ e \in mine /\ mine \in SUBSET S
        OBVIOUS
      <4>2. IsFiniteSet(mine) /\ Cardinality(mine) \in Nat
        BY <1>0, <4>1
      <4>3. counts(R)[c[e]] = Cardinality(mine) /\ counts(Q)[c[e]] = Cardinality(mine \ {e})
        BY <4>1
      <4> HIDE DEF mine
      <4>4. Cardinality(mine \ {e}) = Cardinality(mine) - 1
        BY <4>1, <4>2, FS_RemoveElement
      <4>5. QED
        BY <4>2, <4>3, <4>4
    <3>6. Q \in SUBSET S /\ \A k \in K : counts(Q)[k] \in Int
      <4>1. Q \in SUBSET S
        OBVIOUS
      <4>2. QED
        BY <1>1, <4>1
    <3>7. Total(counts(R), K) = Total(counts(Q), K) + 1
      <4> HIDE DEF counts, Q
      <4>1. QED
        BY <3>4, <3>5, <3>6, TotalGrows
    <3>8. QED
      BY <3>2, <3>3, <3>7
  <2>3. QED
    BY <2>1, <2>2
<1>3. S \in F
  <2> HIDE DEF F
  <2>1. QED
    BY <1>2, SetInduction
<1>4. QED
  BY <1>3

\* What is less stays less when both are multiplied.
LEMMA Times == ASSUME NEW a \in Int, NEW b \in Int, NEW p \in Nat \ {0}, a <= b PROVE a * p <= b * p
  OBVIOUS

\* A quotient is the number of times the divisor fits.
LEMMA Division ==
  ASSUME NEW n \in Nat, NEW p \in Nat \ {0}
  PROVE  /\ n \div p \in Nat
         /\ (n \div p) * p <= n
         /\ n < (n \div p) * p + p
  OBVIOUS

\* More holds the divisor as often, or more often.
LEMMA DivisionGrows ==
  ASSUME NEW m \in Nat, NEW n \in Nat, m <= n, NEW p \in Nat \ {0}
  PROVE  m \div p <= n \div p
<1> DEFINE a == m \div p
           b == n \div p
<1>1. a \in Nat /\ b \in Nat /\ a * p <= m /\ n < b * p + p
  BY Division
<1> HIDE DEF a, b
<1>2. SUFFICES ASSUME b + 1 <= a PROVE FALSE
  BY <1>1 DEF a, b
<1>3. (b + 1) * p <= a * p
  BY <1>1, <1>2, Times
<1>4. (b + 1) * p = b * p + p
  BY <1>1
<1>5. a * p \in Int /\ b * p \in Int
  BY <1>1
<1>6. QED
  BY <1>1, <1>3, <1>4, <1>5

\* Pages of p numbers, the last one cut at the end, cover what lies from s to t.
LEMMA PagesCover ==
  ASSUME NEW s \in Int, NEW t \in Int, s <= t, NEW p \in Nat \ {0}
  PROVE  /\ (t - s) \div p \in Nat
         /\ \A l \in s .. t : \E k \in 1 .. (t - s) \div p + 1 :
              /\ s + (k - 1) * p <= l
              /\ l <= IF s + (k - 1) * p + p - 1 < t THEN s + (k - 1) * p + p - 1 ELSE t
<1> DEFINE n == (t - s) \div p
<1>1. n \in Nat
  BY Division
<1>2. ASSUME NEW l \in s .. t
      PROVE  \E k \in 1 .. n + 1 : /\ s + (k - 1) * p <= l
                                   /\ l <= IF s + (k - 1) * p + p - 1 < t THEN s + (k - 1) * p + p - 1 ELSE t
  <2> DEFINE q == (l - s) \div p
  <2>1. l - s \in Nat /\ t - s \in Nat /\ l - s <= t - s
    OBVIOUS
  <2>2. q \in Nat /\ q * p <= l - s /\ l - s < q * p + p /\ q <= n
    BY <2>1, Division, DivisionGrows
  <2> HIDE DEF n, q
  <2>3. PICK k \in 1 .. n + 1 : k = q + 1
    BY <1>1, <2>2
  <2>4. k - 1 = q /\ q * p \in Int
    BY <2>2, <2>3
  <2>5. s + (k - 1) * p <= l /\ l <= IF s + (k - 1) * p + p - 1 < t THEN s + (k - 1) * p + p - 1 ELSE t
    BY <2>2, <2>4
  <2>6. QED
    BY <2>5
<1>3. QED
  BY <1>1, <1>2
=============================================================================
