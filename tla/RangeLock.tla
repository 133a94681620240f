------------------------------ MODULE RangeLock -----------------------------
(***************************************************************************)
(* What withOverlappingRangeLock promises (src/src/indexer/                *)
(* ledger-range-tracker.ts): a client may enter with a range while no      *)
(* client inside holds a ledger of it, and leaves once.  RangeTracker      *)
(* implements this specification.                                          *)
(***************************************************************************)
EXTENDS LedgerRanges

CONSTANTS Clients, MaxLedger

VARIABLE holding   \* client -> the range it holds, or NoRange

Inside == {c \in Clients : holding[c] # NoRange}

Init == holding = [c \in Clients |-> NoRange]

Disjoint(r, s) == \A ledger \in 1 .. MaxLedger : ~ (InRange(ledger, r) /\ InRange(ledger, s))

Enter(c) ==
  /\ c \notin Inside
  /\ \E start, end \in 1 .. MaxLedger :
       LET r == [start |-> start, end |-> end] IN
         /\ start <= end
         /\ \A d \in Inside : Disjoint(r, holding[d])
         /\ holding' = [holding EXCEPT ![c] = r]

Leave(c) ==
  /\ c \in Inside
  /\ holding' = [holding EXCEPT ![c] = NoRange]

\* (holding' # holding holds in both; it lets TLC pass over steps that change nothing.)
Next ==
  /\ holding' # holding
  /\ \E c \in Clients : Enter(c) \/ Leave(c)

Spec == Init /\ [][Next]_holding
=============================================================================
