----------------------------- MODULE Collections ----------------------------
(***************************************************************************)
(* What queries and loops over rows come to: the first rows of a result    *)
(* (LIMIT), a set of positions in order (ORDER BY, or a loop that passes   *)
(* some of them over), and sums.                                           *)
(***************************************************************************)
EXTENDS Integers, Sequences, FiniteSets, FiniteSetsExt

\* The first n of a set of positions.
FirstN(S, n) == {i \in S : Cardinality({j \in S : j < i}) < n}

\* The sequences that list a set of positions in order: there is one.
Listings(S) ==
  {f \in [1 .. Cardinality(S) -> S] : \A a, b \in DOMAIN f : a < b => f[a] < f[b]}

\* The element of a set that has one (LIMIT 1).
The(S) == CHOOSE x \in S : TRUE

\* The sum of the values a function has on a finite set.
Total(f, S) ==
  LET sum[R \in SUBSET S] == IF R = {} THEN 0 ELSE f[The(R)] + sum[R \ {The(R)}]
  IN  sum[S]
=============================================================================
