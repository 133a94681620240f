------------------------------ MODULE MCServer ------------------------------
(***************************************************************************)
(* The server process for TLC: what its parts are given.                   *)
(***************************************************************************)
EXTENDS Server

\* Amounts on both sides of zero and of the bounds, where numbers are exact and not.
AmountInputs ==
  {Input("bigint", v) : v \in {-1, 127, 128}} \cup {Input("text", v) : v \in {0, 1, 3, 10, 25}}
    \cup {Input("number", 100), Input("malformed", 1)}

\* Three bounds, and two brackets without one, the last with a rate of over 100%.
TaxBrackets ==
  {Bracket(2, 1, 4, "default"), Bracket(5, 1, 2, "half-up"), Bracket(10, 3, 4, "default"),
   Bracket(NoBound, 1, 10, "ceil"), Bracket(NoBound, 5, 4, "default")}
GivenParts == {-1, 0, 1, 24}
TextDigits == {-1, 0, 1, 5, 15, 25, 50, 99, 100, 149, 1250}

TwoNodes == <<"a", "b">>

\* Three batches that overlap, one with a key twice, none in the order of the keys.
RankOfKeys  == [k1 |-> 1, k2 |-> 2, k3 |-> 3]
KeysOfBatch == [c1 |-> <<"k2", "k1">>, c2 |-> <<"k1", "k2", "k1">>, c3 |-> <<"k3", "k2">>]
=============================================================================
