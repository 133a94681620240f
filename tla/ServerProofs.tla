---------------------------- MODULE ServerProofs ----------------------------
(***************************************************************************)
(* Proofs about Server, for all values of its constants.  What is proved   *)
(* of the routes' caches and of the arithmetic in modules of their own is  *)
(* carried over to the composition.  The parts that exist only as          *)
(* instances are proved here: the locks of inserts, RPC failover, startup  *)
(* and shutdown, the maintenance.                                          *)
(***************************************************************************)
EXTENDS Server, RouteProofs, MoneyProofs

\* A step of the composition is one of each part, or leaves it alone.
LEMMA PartSteps ==
  [ServerNext]_serverVars =>
    /\ [Next]_vars /\ [SubmitNext]_submitVars /\ [XdrNext]_xdrVars
    /\ [F!Next]_fVars /\ [K!Next]_kVars /\ [L!Next]_lVars /\ [V!Next]_vVars
    /\ [SplitNext]_splitVars /\ [TaxNext]_taxVars /\ [UnitNext]_unitVars
    /\ UNCHANGED mode
  BY DEF ServerNext, serverVars, Alone

(***************************************************************************)
(* The locks of inserts                                                    *)
(*                                                                         *)
(* Neither half of LocksAreSafe is inductive.  The invariant says who is   *)
(* on a chain: those that hold its key, of which there is one at most,     *)
(* the first, and those that wait for it.  And it says what the order of   *)
(* the keys gives: an insert holds lower keys than it still has to take.   *)
(* In a circle, the insert that waits for the highest key would then wait  *)
(* for one that waits for a higher key, or for one before it on the chain. *)
(***************************************************************************)

\* c is on the chain of k.
OnChain(k, c) == \E i \in DOMAIN kChain[k] : kChain[k][i] = c

LocksInv ==
  /\ K!TypeOK
  /\ \A k \in K!Keys, c \in Inserts :
       OnChain(k, c) <=> k \in kHeld[c] \/ (kWaiting[c] /\ k = K!NextKey(c))
  /\ \A c \in Inserts : \A k \in kHeld[c] : kChain[k] # <<>> /\ kChain[k][1] = c
  /\ \A c \in Inserts :
       /\ kStage[c] \in {"idle", "done"} => kHeld[c] = {}
       /\ kWaiting[c] => kStage[c] = "locking" /\ K!Missing(c) # {}
       /\ kStage[c] = "locking" => \A j \in kHeld[c], k \in K!Missing(c) : KeyRank[j] < KeyRank[k]

\* The key with the lowest place is one of the keys, and so is the one with the highest.
LEMMA LowestKey ==
  ASSUME NEW S \in SUBSET K!Keys, S # {}
  PROVE  \E k \in S : \A j \in S : KeyRank[k] <= KeyRank[j]
<1> DEFINE ranks == {KeyRank[k] : k \in S}
<1>1. ranks \in SUBSET Nat /\ ranks # {}
  <2>1. \A k \in S : KeyRank[k] \in Nat
    BY LocksAssumption DEF K!Keys
  <2>2. QED
    BY <2>1
<1>2. Min(ranks) \in ranks /\ \A x \in ranks : Min(ranks) <= x
  BY <1>1, MinProperty
<1>3. QED
  BY <1>2

\* The highest place of some keys is taken by one of them.
LEMMA HighestKey ==
  ASSUME NEW S \in SUBSET K!Keys, S # {}
  PROVE  \E k \in S : \A j \in S : KeyRank[j] <= KeyRank[k]
<1> DEFINE n == Cardinality(K!Keys)
           ranks == {KeyRank[k] : k \in S}
<1>1. n \in Nat
  BY LocksAssumption, FS_CardinalityType DEF K!Keys
<1>2. \A j \in S : KeyRank[j] \in 1 .. n
  BY LocksAssumption DEF K!Keys
<1>3. ranks \in SUBSET (0 .. n) /\ ranks # {}
  BY <1>2
<1>4. Max(ranks) \in ranks /\ \A x \in ranks : x <= Max(ranks)
  BY <1>1, <1>3, MaxProperty
<1>5. QED
  BY <1>4

\* The next key is the lowest of those that are missing.
LEMMA NextKeyFacts ==
  ASSUME NEW c \in Inserts, K!Missing(c) # {}
  PROVE  /\ K!NextKey(c) \in K!Missing(c) /\ K!NextKey(c) \in K!Keys
         /\ \A j \in K!Missing(c) : KeyRank[K!NextKey(c)] <= KeyRank[j]
<1>1. K!Missing(c) \in SUBSET K!Keys
  BY LocksAssumption DEF K!Missing, K!KeySet, K!ToSet, K!Keys
<1>2. QED
  BY <1>1, LowestKey DEF K!NextKey

\* The key that is given back is one that is held.
LEMMA LastKeyFacts ==
  ASSUME NEW c \in Inserts, kHeld[c] \in SUBSET K!Keys, kHeld[c] # {}
  PROVE  K!LastKey(c) \in kHeld[c]
BY HighestKey DEF K!LastKey

\* Nothing is locked at the start.
LEMMA LocksInit == ServerInit => LocksInv
<1> SUFFICES ASSUME K!Init PROVE LocksInv
  BY DEF ServerInit
<1> USE DEF K!Init
<1>1. \A k \in K!Keys : kChain[k] = <<>>
  OBVIOUS
<1>2. K!TypeOK
  BY <1>1 DEF K!TypeOK, K!IsInjective
<1>3. \A k \in K!Keys, c \in Inserts : ~ OnChain(k, c)
  BY <1>1 DEF OnChain
<1>4. QED
  BY <1>2, <1>3 DEF LocksInv

\* An insert takes its place in the chain of a key it does not hold.
LEMMA JoinKeeps ==
  ASSUME LocksInv, NEW c \in Inserts, K!Join(c)
  PROVE  LocksInv'
<1> SUFFICES ASSUME NEW key, key = K!NextKey(c) PROVE LocksInv'
  OBVIOUS
<1> USE DEF LocksInv
<1>1. /\ kStage[c] = "locking" /\ ~ kWaiting[c] /\ K!Missing(c) # {}
      /\ kChain' = [kChain EXCEPT ![key] = Append(@, c)]
      /\ kWaiting' = [kWaiting EXCEPT ![c] = TRUE]
      /\ kHeld' = kHeld /\ kStage' = kStage
  BY DEF K!Join
<1>2. key \in K!Keys /\ key \notin kHeld[c]
  BY <1>1, NextKeyFacts DEF K!Missing
<1>3. \A d \in Inserts : K!Missing(d)' = K!Missing(d) /\ K!NextKey(d)' = K!NextKey(d)
  BY <1>1 DEF K!Missing, K!NextKey
<1>4. kChain[key] \in Seq(Inserts) /\ ~ OnChain(key, c)
  BY <1>1, <1>2 DEF K!TypeOK
<1>5. /\ kChain'[key] = Append(kChain[key], c)
      /\ \A k \in K!Keys \ {key} : kChain'[k] = kChain[k]
  BY <1>1, <1>2 DEF K!TypeOK
<1>6. \A d \in Inserts : OnChain(key, d)' <=> OnChain(key, d) \/ d = c
  <2> DEFINE new == Append(kChain[key], c)
             n   == Len(kChain[key])
  <2>1. /\ n \in Nat /\ DOMAIN kChain[key] = 1 .. n /\ DOMAIN new = 1 .. n + 1
        /\ new[n + 1] = c /\ \A i \in 1 .. n : new[i] = kChain[key][i]
    BY <1>4
  <2> HIDE DEF new, n
  <2>2. \A d : (\E i \in DOMAIN new : new[i] = d) <=> (\E i \in DOMAIN kChain[key] : kChain[key][i] = d) \/ d = c
    BY <2>1
  <2>3. QED
    BY <1>5, <2>2 DEF OnChain, new
<1>7. \A k \in K!Keys \ {key}, d \in Inserts : OnChain(k, d)' <=> OnChain(k, d)
  BY <1>5 DEF OnChain
<1>8. K!TypeOK'
  <2>1. K!IsInjective(Append(kChain[key], c))
    BY <1>2, <1>4 DEF OnChain, K!TypeOK, K!IsInjective
  <2>2. \A k \in K!Keys : K!IsInjective(kChain'[k])
    <3> TAKE k \in K!Keys
    <3>1. K!IsInjective(kChain[k])
      BY DEF K!TypeOK
    <3>2. CASE k = key
      BY <1>5, <2>1, <3>2
    <3>3. CASE k # key
      BY <1>5, <3>1, <3>3
    <3>4. QED
      BY <3>2, <3>3
  <2>3. kChain' \in [K!Keys -> Seq(Inserts)]
    <3>1. Append(kChain[key], c) \in Seq(Inserts)
      BY <1>4
    <3>2. QED
      BY <1>1, <3>1 DEF K!TypeOK
  <2>4. QED
    BY <1>1, <2>2, <2>3 DEF K!TypeOK, K!KeySet
<1>9. \A k \in K!Keys, d \in Inserts :
        OnChain(k, d)' <=> k \in kHeld'[d] \/ (kWaiting'[d] /\ k = K!NextKey(d)')
  <2> SUFFICES ASSUME NEW k \in K!Keys, NEW d \in Inserts
               PROVE OnChain(k, d)' <=> k \in kHeld[d] \/ (kWaiting'[d] /\ k = K!NextKey(d))
    BY <1>1, <1>3
  <2>1. kWaiting'[d] <=> kWaiting[d] \/ d = c
    BY <1>1 DEF K!TypeOK
  <2>2. OnChain(k, d) <=> k \in kHeld[d] \/ (kWaiting[d] /\ k = K!NextKey(d))
    OBVIOUS
  <2>3. CASE k = key
    <3>1. OnChain(k, d)' <=> OnChain(k, d) \/ d = c
      BY <1>6, <2>3
    <3>2. CASE d = c
      BY <2>1, <2>3, <3>1, <3>2
    <3>3. CASE d # c
      BY <2>1, <2>2, <3>1, <3>3
    <3>4. QED
      BY <3>2, <3>3
  <2>4. CASE k # key
    BY <1>7, <2>1, <2>2, <2>4
  <2>5. QED
    BY <2>3, <2>4
<1>10. \A d \in Inserts : \A k \in kHeld'[d] : kChain'[k] # <<>> /\ kChain'[k][1] = d
  <2> SUFFICES ASSUME NEW d \in Inserts, NEW k \in kHeld[d]
               PROVE kChain'[k] # <<>> /\ kChain'[k][1] = d
    BY <1>1
  <2>1. k \in K!Keys /\ kChain[k] # <<>> /\ kChain[k][1] = d
    BY DEF K!TypeOK
  <2>2. CASE k = key
    BY <1>4, <1>5, <2>1, <2>2
  <2>3. QED
    BY <1>5, <2>1, <2>2
<1>11. \A d \in Inserts :
        /\ kStage'[d] \in {"idle", "done"} => kHeld'[d] = {}
        /\ kWaiting'[d] => kStage'[d] = "locking" /\ K!Missing(d)' # {}
        /\ kStage'[d] = "locking" =>
             \A j \in kHeld'[d], k \in K!Missing(d)' : KeyRank[j] < KeyRank[k]
  BY <1>1, <1>3 DEF K!TypeOK
<1>12. QED
  BY <1>8, <1>9, <1>10, <1>11

\* The first of a chain takes its key, the lowest it did not hold.
LEMMA AcquireKeeps ==
  ASSUME LocksInv, NEW c \in Inserts, K!Acquire(c)
  PROVE  LocksInv'
<1> SUFFICES ASSUME NEW key, key = K!NextKey(c) PROVE LocksInv'
  OBVIOUS
<1> USE DEF LocksInv
<1>1. /\ kWaiting[c] /\ kChain' = kChain /\ kStage' = kStage
      /\ kHeld' = [kHeld EXCEPT ![c] = @ \cup {key}]
      /\ kWaiting' = [kWaiting EXCEPT ![c] = FALSE]
      /\ Head(kChain[key]) = c
  BY DEF K!Acquire
<1>2. /\ kStage[c] = "locking" /\ K!Missing(c) # {}
      /\ key \in K!Keys /\ key \in K!Missing(c)
      /\ \A j \in K!Missing(c) : KeyRank[key] <= KeyRank[j]
  BY <1>1, NextKeyFacts
<1>3. \A d \in Inserts \ {c} : /\ kHeld'[d] = kHeld[d] /\ kWaiting'[d] = kWaiting[d]
                               /\ K!Missing(d)' = K!Missing(d) /\ K!NextKey(d)' = K!NextKey(d)
  BY <1>1 DEF K!TypeOK, K!Missing, K!NextKey, K!KeySet
<1>4. kHeld'[c] = kHeld[c] \cup {key} /\ ~ kWaiting'[c] /\ K!Missing(c)' = K!Missing(c) \ {key}
  BY <1>1 DEF K!TypeOK, K!Missing, K!KeySet
<1>5. \A k, d : OnChain(k, d)' <=> OnChain(k, d)
  BY <1>1 DEF OnChain
<1>6. K!TypeOK'
  BY <1>1, <1>2 DEF K!TypeOK, K!Missing, K!KeySet
<1>7. \A k \in K!Keys, d \in Inserts :
        OnChain(k, d)' <=> k \in kHeld'[d] \/ (kWaiting'[d] /\ k = K!NextKey(d)')
  <2> TAKE k \in K!Keys, d \in Inserts
  <2>1. OnChain(k, d) <=> k \in kHeld[d] \/ (kWaiting[d] /\ k = K!NextKey(d))
    OBVIOUS
  <2>2. CASE d = c
    BY <1>1, <1>4, <1>5, <2>1, <2>2
  <2>3. CASE d # c
    BY <1>3, <1>5, <2>1, <2>3
  <2>4. QED
    BY <2>2, <2>3
<1>8. \A d \in Inserts : \A k \in kHeld'[d] : kChain'[k] # <<>> /\ kChain'[k][1] = d
  <2>1. kChain[key] # <<>> /\ kChain[key][1] = c
    <3>1. OnChain(key, c)
      BY <1>1, <1>2
    <3>2. kChain[key] \in Seq(Inserts)
      BY <1>2 DEF K!TypeOK
    <3>3. QED
      BY <1>1, <3>1, <3>2 DEF OnChain
  <2>2. QED
    BY <1>1, <1>3, <1>4, <2>1
<1>9. \A j \in kHeld'[c], k \in K!Missing(c)' : KeyRank[j] < KeyRank[k]
  <2> SUFFICES ASSUME NEW j \in kHeld[c] \cup {key}, NEW k \in K!Missing(c) \ {key}
               PROVE KeyRank[j] < KeyRank[k]
    BY <1>4
  <2>1. CASE j \in kHeld[c]
    BY <1>2, <2>1
  <2>2. CASE j = key
    <3>1. k \in K!Keys
      BY LocksAssumption DEF K!Missing, K!KeySet, K!ToSet, K!Keys
    <3>2. KeyRank[key] \in Int /\ KeyRank[k] \in Int /\ KeyRank[key] # KeyRank[k]
      BY <1>2, <3>1, LocksAssumption DEF K!Keys
    <3>3. QED
      BY <1>2, <2>2, <3>2
  <2>3. QED
    BY <2>1, <2>2
<1>10. \A d \in Inserts :
        /\ kStage'[d] \in {"idle", "done"} => kHeld'[d] = {}
        /\ kWaiting'[d] => kStage'[d] = "locking" /\ K!Missing(d)' # {}
        /\ kStage'[d] = "locking" =>
             \A j \in kHeld'[d], k \in K!Missing(d)' : KeyRank[j] < KeyRank[k]
  BY <1>1, <1>2, <1>3, <1>4, <1>9
<1>11. QED
  BY <1>6, <1>7, <1>8, <1>10

\* The last key an insert took is given back, and the next on its chain is the first.
LEMMA ReleaseKeeps ==
  ASSUME LocksInv, NEW c \in Inserts, K!Release(c)
  PROVE  LocksInv'
<1> USE DEF LocksInv
<1>1. kStage[c] = "releasing" /\ kWaiting' = kWaiting /\ ~ kWaiting[c]
  BY DEF K!Release
<1>2. CASE kHeld[c] = {} /\ kStage' = [kStage EXCEPT ![c] = "done"] /\ kChain' = kChain /\ kHeld' = kHeld
  <2>1. \A d \in Inserts : K!Missing(d)' = K!Missing(d) /\ K!NextKey(d)' = K!NextKey(d)
    BY <1>2 DEF K!Missing, K!NextKey
  <2>2. K!TypeOK'
    BY <1>1, <1>2 DEF K!TypeOK, K!KeySet
  <2>3. \A k, d : OnChain(k, d)' <=> OnChain(k, d)
    BY <1>2 DEF OnChain
  <2>4. \A d \in Inserts :
          /\ kStage'[d] \in {"idle", "done"} => kHeld'[d] = {}
          /\ kWaiting'[d] => kStage'[d] = "locking" /\ K!Missing(d)' # {}
          /\ kStage'[d] = "locking" =>
               \A j \in kHeld'[d], k \in K!Missing(d)' : KeyRank[j] < KeyRank[k]
    BY <1>1, <1>2, <2>1 DEF K!TypeOK
  <2>5. QED
    BY <1>1, <1>2, <2>1, <2>2, <2>3, <2>4
<1>3. ASSUME kHeld[c] # {}, kStage' = kStage,
             NEW key, key = K!LastKey(c),
             kChain' = [kChain EXCEPT ![key] = Tail(@)],
             kHeld' = [kHeld EXCEPT ![c] = @ \ {key}]
      PROVE  LocksInv'
  <2>1. key \in kHeld[c] /\ key \in K!Keys
    BY <1>3, LastKeyFacts DEF K!TypeOK
  <2>2. \A d \in Inserts \ {c} : /\ kHeld'[d] = kHeld[d] /\ K!Missing(d)' = K!Missing(d)
                                 /\ K!NextKey(d)' = K!NextKey(d)
    BY <1>3 DEF K!TypeOK, K!Missing, K!NextKey, K!KeySet
  <2>3. kHeld'[c] = kHeld[c] \ {key}
    BY <1>3 DEF K!TypeOK
  <2>4. /\ kChain[key] \in Seq(Inserts) /\ kChain[key] # <<>> /\ kChain[key][1] = c
        /\ K!IsInjective(kChain[key])
    BY <2>1 DEF K!TypeOK
  <2>5. /\ kChain'[key] = Tail(kChain[key])
        /\ \A k \in K!Keys \ {key} : kChain'[k] = kChain[k]
    BY <1>3, <2>1 DEF K!TypeOK
  <2>6. /\ \A d \in Inserts : OnChain(key, d)' <=> OnChain(key, d) /\ d # c
        /\ K!IsInjective(kChain'[key]) /\ kChain'[key] \in Seq(Inserts)
    <3> DEFINE s == kChain[key]
               r == Tail(s)
               n == Len(s)
    <3>1. /\ n \in Nat \ {0} /\ DOMAIN s = 1 .. n /\ DOMAIN r = 1 .. n - 1
          /\ r \in Seq(Inserts) /\ \A i \in 1 .. n - 1 : r[i] = s[i + 1]
      BY <2>4
    <3>2. \A i, j \in 1 .. n : s[i] = s[j] => i = j
      BY <2>4, <3>1 DEF K!IsInjective
    <3>3. s[1] = c
      BY <2>4
    <3> HIDE DEF s, r, n
    <3>4. \A d : (\E i \in DOMAIN r : r[i] = d) => (\E i \in DOMAIN s : s[i] = d) /\ d # c
      <4> TAKE d
      <4> HAVE \E i \in DOMAIN r : r[i] = d
      <4>1. PICK i \in DOMAIN r : r[i] = d
        OBVIOUS
      <4>2. i + 1 \in 1 .. n /\ i + 1 # 1 /\ 1 \in 1 .. n /\ s[i + 1] = d
        BY <3>1, <4>1
      <4>3. QED
        BY <3>1, <3>2, <3>3, <4>2
    <3>5. \A d : (\E i \in DOMAIN s : s[i] = d) /\ d # c => \E i \in DOMAIN r : r[i] = d
      <4> TAKE d
      <4> HAVE (\E i \in DOMAIN s : s[i] = d) /\ d # c
      <4>1. PICK i \in DOMAIN s : s[i] = d
        OBVIOUS
      <4>2. i # 1 /\ i - 1 \in 1 .. n - 1 /\ r[i - 1] = s[i]
        BY <3>1, <3>3, <4>1
      <4>3. QED
        BY <3>1, <4>1, <4>2
    <3>6. K!IsInjective(r)
      BY <3>1, <3>2 DEF K!IsInjective
    <3>7. kChain'[key] = r
      BY <2>5 DEF r, s
    <3>8. ASSUME NEW d \in Inserts PROVE OnChain(key, d)' <=> OnChain(key, d) /\ d # c
      <4>1. OnChain(key, d) <=> \E i \in DOMAIN s : s[i] = d
        BY DEF OnChain, s
      <4>2. OnChain(key, d)' <=> \E i \in DOMAIN r : r[i] = d
        BY <3>7 DEF OnChain
      <4>3. QED
        BY <3>4, <3>5, <4>1, <4>2
    <3>9. QED
      BY <3>1, <3>6, <3>7, <3>8
  <2>7. \A k \in K!Keys \ {key}, d \in Inserts : OnChain(k, d)' <=> OnChain(k, d)
    BY <2>5 DEF OnChain
  <2>8. K!TypeOK'
    <3>1. \A k \in K!Keys : K!IsInjective(kChain'[k])
      <4> TAKE k \in K!Keys
      <4>1. K!IsInjective(kChain[k])
        BY DEF K!TypeOK
      <4>2. CASE k = key
        BY <2>6, <4>2
      <4>3. CASE k # key
        BY <2>5, <4>1, <4>3
      <4>4. QED
        BY <4>2, <4>3
    <3>2. kChain' \in [K!Keys -> Seq(Inserts)]
      BY <1>3, <2>1, <2>5, <2>6 DEF K!TypeOK
    <3>3. QED
      BY <1>1, <1>3, <2>1, <3>1, <3>2 DEF K!TypeOK, K!KeySet
  <2>9. \A k \in K!Keys, d \in Inserts :
          OnChain(k, d)' <=> k \in kHeld'[d] \/ (kWaiting'[d] /\ k = K!NextKey(d)')
    <3> TAKE k \in K!Keys, d \in Inserts
    <3>1. OnChain(k, d) <=> k \in kHeld[d] \/ (kWaiting[d] /\ k = K!NextKey(d))
      OBVIOUS
    <3>2. CASE d = c
      <4>1. ~ kWaiting'[d] /\ kHeld'[d] = kHeld[d] \ {key} /\ (OnChain(k, d) <=> k \in kHeld[d])
        BY <1>1, <2>3, <3>1, <3>2
      <4>2. CASE k = key
        BY <2>6, <3>2, <4>1, <4>2
      <4>3. CASE k # key
        BY <2>7, <4>1, <4>3
      <4>4. QED
        BY <4>2, <4>3
    <3>3. CASE d # c
      <4>1. OnChain(k, d)' <=> OnChain(k, d)
        <5>1. CASE k = key
          BY <2>6, <3>3, <5>1
        <5>2. QED
          BY <2>7, <5>1
      <4>2. kWaiting'[d] = kWaiting[d] /\ kHeld'[d] = kHeld[d] /\ K!NextKey(d)' = K!NextKey(d)
        BY <1>1, <2>2, <3>3
      <4>3. QED
        BY <3>1, <4>1, <4>2
    <3>4. QED
      BY <3>2, <3>3
  <2>10. \A d \in Inserts : \A k \in kHeld'[d] : kChain'[k] # <<>> /\ kChain'[k][1] = d
    <3> TAKE d \in Inserts
    <3> TAKE k \in kHeld'[d]
    <3>1. k \in kHeld[d] /\ k \in K!Keys
      BY <2>2, <2>3 DEF K!TypeOK
    <3>2. k # key
      BY <2>1, <2>2, <2>3, <2>4, <3>1
    <3>3. QED
      BY <2>5, <3>1, <3>2
  <2>11. \A d \in Inserts :
          /\ kStage'[d] \in {"idle", "done"} => kHeld'[d] = {}
          /\ kWaiting'[d] => kStage'[d] = "locking" /\ K!Missing(d)' # {}
          /\ kStage'[d] = "locking" =>
               \A j \in kHeld'[d], k \in K!Missing(d)' : KeyRank[j] < KeyRank[k]
    BY <1>1, <1>3, <2>2, <2>3
  <2>12. QED
    BY <2>8, <2>9, <2>10, <2>11
<1>4. QED
  BY <1>2, <1>3 DEF K!Release

\* The steps that lock and release nothing.
LEMMA StageKeeps ==
  ASSUME LocksInv, NEW c \in Inserts, K!Begin(c) \/ K!Insert(c)
  PROVE  LocksInv'
<1> USE DEF LocksInv
<1>1. /\ kChain' = kChain /\ kHeld' = kHeld /\ kWaiting' = kWaiting
      /\ \/ kStage[c] = "idle" /\ kStage' = [kStage EXCEPT ![c] = "locking"]
         \/ /\ kStage[c] = "locking" /\ K!Missing(c) = {}
            /\ kStage' = [kStage EXCEPT ![c] = "releasing"]
  BY DEF K!Begin, K!Insert
<1>2. \A d \in Inserts : K!Missing(d)' = K!Missing(d) /\ K!NextKey(d)' = K!NextKey(d)
  BY <1>1 DEF K!Missing, K!NextKey
<1>3. K!TypeOK'
  BY <1>1 DEF K!TypeOK, K!KeySet
<1>4. \A k, d : OnChain(k, d)' <=> OnChain(k, d)
  BY <1>1 DEF OnChain
<1>5. \A d \in Inserts :
        /\ kStage'[d] \in {"idle", "done"} => kHeld'[d] = {}
        /\ kWaiting'[d] => kStage'[d] = "locking" /\ K!Missing(d)' # {}
        /\ kStage'[d] = "locking" =>
             \A j \in kHeld'[d], k \in K!Missing(d)' : KeyRank[j] < KeyRank[k]
  BY <1>1, <1>2 DEF K!TypeOK
<1>6. QED
  BY <1>1, <1>2, <1>3, <1>4, <1>5

\* Every step of an insert keeps the invariant.
LEMMA LocksStep == LocksInv /\ [K!Next]_kVars => LocksInv'
<1> SUFFICES ASSUME LocksInv, [K!Next]_kVars PROVE LocksInv'
  OBVIOUS
<1>1. ASSUME NEW c \in Inserts, K!Step(c) PROVE LocksInv'
  BY <1>1, JoinKeeps, AcquireKeeps, ReleaseKeeps, StageKeeps DEF K!Step
<1>2. CASE UNCHANGED kVars
  <2>1. kChain' = kChain /\ kHeld' = kHeld /\ kWaiting' = kWaiting /\ kStage' = kStage
    BY <1>2 DEF kVars
  <2>2. \A d \in Inserts : K!Missing(d)' = K!Missing(d) /\ K!NextKey(d)' = K!NextKey(d)
    BY <2>1 DEF K!Missing, K!NextKey
  <2>3. K!TypeOK'
    BY <2>1 DEF LocksInv, K!TypeOK, K!KeySet
  <2>4. \A k, d : OnChain(k, d)' <=> OnChain(k, d)
    BY <2>1 DEF OnChain
  <2>5. QED
    BY <2>1, <2>2, <2>3, <2>4 DEF LocksInv
<1>3. QED
  BY <1>1, <1>2 DEF K!Next

\* The invariant holds in every state of the server.
LEMMA LocksHold == ServerSpec => []LocksInv
  BY LocksInit, PartSteps, LocksStep, PTL DEF ServerSpec

\* Of inserts that wait, one waits for none of the others: the first one that waits
\* for the highest key any of them waits for.
LEMMA NobodyInACircle ==
  ASSUME LocksInv, NEW waiters \in SUBSET Inserts, waiters # {}
  PROVE  \E c \in waiters : \A d \in waiters : ~ K!WaitsFor(c, d)
<1> SUFFICES ASSUME \A c \in waiters : \E d \in waiters : K!WaitsFor(c, d) PROVE FALSE
  OBVIOUS
<1> USE DEF LocksInv
<1>1. \A c \in waiters : kWaiting[c] /\ kStage[c] = "locking" /\ K!Missing(c) # {}
  BY DEF K!WaitsFor
<1>2. \A c \in waiters : K!NextKey(c) \in K!Missing(c) /\ K!NextKey(c) \in K!Keys
  BY <1>1, NextKeyFacts
<1>3. PICK key \in {K!NextKey(c) : c \in waiters} :
        \A j \in {K!NextKey(c) : c \in waiters} : KeyRank[j] <= KeyRank[key]
  <2> DEFINE keys == {K!NextKey(c) : c \in waiters}
  <2>1. keys \in SUBSET K!Keys /\ keys # {}
    BY <1>2
  <2> HIDE DEF keys
  <2>2. \E k \in keys : \A j \in keys : KeyRank[j] <= KeyRank[k]
    BY <2>1, HighestKey
  <2>3. QED
    BY <2>2 DEF keys
<1> DEFINE places == {i \in DOMAIN kChain[key] : \E c \in waiters : kChain[key][i] = c /\ K!NextKey(c) = key}
<1>4. key \in K!Keys /\ kChain[key] \in Seq(Inserts) /\ K!IsInjective(kChain[key])
  BY <1>2, <1>3 DEF K!TypeOK
<1>5. places \in SUBSET Nat /\ places # {}
  <2>1. PICK c \in waiters : K!NextKey(c) = key
    BY <1>3
  <2>2. OnChain(key, c)
    BY <1>1, <1>4, <2>1
  <2>3. QED
    BY <1>4, <2>1, <2>2 DEF OnChain
<1>6. PICK first \in places : \A i \in places : first <= i
  BY <1>5, MinProperty
<1>7. PICK c \in waiters : kChain[key][first] = c /\ K!NextKey(c) = key
  OBVIOUS
<1>8. PICK d \in waiters : K!WaitsFor(c, d)
  OBVIOUS
<1>9. PICK i, j \in DOMAIN kChain[key] : i < j /\ kChain[key][i] = d /\ kChain[key][j] = c
  BY <1>7, <1>8 DEF K!WaitsFor
<1>10. i < first
  BY <1>4, <1>7, <1>9 DEF K!IsInjective
<1>11. OnChain(key, d)
  BY <1>9 DEF OnChain
<1>12. key \in kHeld[d] \/ key = K!NextKey(d)
  BY <1>4, <1>11
<1>13. CASE key = K!NextKey(d)
  <2>1. i \in places
    BY <1>9, <1>13
  <2>2. QED
    BY <1>4, <1>6, <1>10, <2>1
<1>14. CASE key \in kHeld[d]
  <2>1. KeyRank[key] < KeyRank[K!NextKey(d)]
    BY <1>1, <1>2, <1>14
  <2>2. KeyRank[K!NextKey(d)] <= KeyRank[key]
    BY <1>3
  <2>3. KeyRank[key] \in Int /\ KeyRank[K!NextKey(d)] \in Int
    BY <1>2, <1>4, LocksAssumption DEF K!Keys
  <2>4. QED
    BY <2>1, <2>2, <2>3
<1>15. QED
  BY <1>12, <1>13, <1>14

\* Inserts never write rows with the same key at once, and never wait for each other
\* in a circle, whatever keys their batches have and in whatever order they list them.
THEOREM LocksSafe == ServerSpec => []LocksAreSafe
<1>1. LocksInv => LocksAreSafe
  <2> SUFFICES ASSUME LocksInv PROVE K!LocksAreSafe
    BY DEF LocksAreSafe
  <2>1. ASSUME NEW c \in Inserts, NEW d \in Inserts, c # d PROVE kHeld[c] \cap kHeld[d] = {}
    BY <2>1 DEF LocksInv
  <2>2. QED
    BY <2>1, NobodyInACircle DEF K!LocksAreSafe
<1>2. QED
  BY <1>1, LocksHold, PTL

(***************************************************************************)
(* RPC failover                                                            *)
(*                                                                         *)
(* That the poller always has one of the configured nodes rests on the     *)
(* comparison: whatever the health of the nodes, there is one that the     *)
(* sort puts first, and it is the only one.                                *)
(***************************************************************************)

\* What is known of the health of the nodes.
HealthOfNodes == [F!Nodes -> [healthy : BOOLEAN, failures : Nat, backoff : 1 .. MaxBackoff,
                              successes : 0 .. SuccessThreshold, retryLater : BOOLEAN]]

\* The nodes are those of the list.
LEMMA NodesFacts ==
  /\ Len(RpcUrls) \in Nat \ {0} /\ DOMAIN RpcUrls = 1 .. Len(RpcUrls)
  /\ F!Nodes = {RpcUrls[i] : i \in DOMAIN RpcUrls} /\ RpcUrls[1] \in F!Nodes
<1>1. Len(RpcUrls) \in Nat \ {0} /\ DOMAIN RpcUrls = 1 .. Len(RpcUrls)
  BY FailoverAssumption
<1>2. F!Nodes = {RpcUrls[i] : i \in DOMAIN RpcUrls}
  BY <1>1 DEF F!Nodes, F!ToSet
<1>3. QED
  BY <1>1, <1>2

\* Sorting the nodes puts one of them first.
LEMMA HealthiestIsANode ==
  ASSUME F!TypeOK, NEW health \in HealthOfNodes
  PROVE  F!Healthiest(health) \in F!Nodes
<1> DEFINE places    == DOMAIN RpcUrls
           h(i)      == health[RpcUrls[i]]
           rank(i)   == fLastSuccess[RpcUrls[i]]
           healthy   == IF \E i \in places : h(i).healthy THEN {i \in places : h(i).healthy} ELSE places
           fewest    == Min({h(i).failures : i \in healthy})
           steady    == {i \in healthy : h(i).failures = fewest}
           latest    == Max({rank(i) : i \in steady})
           best      == {i \in steady : rank(i) = latest}
           first     == Min(best)
<1>1. \A i \in places : /\ RpcUrls[i] \in F!Nodes /\ i \in Nat /\ h(i).healthy \in BOOLEAN
                        /\ h(i).failures \in Nat /\ rank(i) \in 0 .. Len(RpcUrls)
  <2> TAKE i \in places
  <2>1. RpcUrls[i] \in F!Nodes /\ i \in Nat
    BY NodesFacts
  <2>2. h(i) \in [healthy : BOOLEAN, failures : Nat, backoff : 1 .. MaxBackoff,
                  successes : 0 .. SuccessThreshold, retryLater : BOOLEAN]
    BY <2>1 DEF HealthOfNodes
  <2>3. h(i).healthy \in BOOLEAN /\ h(i).failures \in Nat
    BY <2>2
  <2>4. rank(i) \in 0 .. Len(RpcUrls)
    <3>1. fLastSuccess \in [F!Nodes -> 0 .. Len(RpcUrls)]
      BY DEF F!TypeOK
    <3>2. QED
      BY <2>1, <3>1
  <2>5. QED
    BY <2>1, <2>3, <2>4
<1>2. places # {} /\ healthy \in SUBSET places /\ healthy # {}
  BY NodesFacts
<1>3. /\ fewest \in {h(i).failures : i \in healthy}
      /\ \A x \in {h(i).failures : i \in healthy} : fewest <= x
  <2> DEFINE counts == {h(i).failures : i \in healthy}
  <2>1. counts \in SUBSET Nat /\ counts # {}
    BY <1>1, <1>2
  <2> HIDE DEF counts
  <2>2. Min(counts) \in counts /\ \A x \in counts : Min(counts) <= x
    BY <2>1, MinProperty
  <2>3. QED
    BY <2>2 DEF counts
<1>4. steady # {} /\ steady \in SUBSET healthy /\ \A i \in healthy \ steady : fewest < h(i).failures
  <2>1. \A i \in healthy : fewest <= h(i).failures /\ h(i).failures \in Nat /\ fewest \in Nat
    BY <1>1, <1>2, <1>3
  <2>2. PICK i \in healthy : h(i).failures = fewest
    BY <1>3
  <2> HIDE DEF fewest, healthy, h
  <2>3. QED
    BY <2>1, <2>2
<1>5. /\ latest \in {rank(i) : i \in steady}
      /\ \A x \in {rank(i) : i \in steady} : x <= latest
  <2> DEFINE ranks == {rank(i) : i \in steady}
  <2>1. ranks \in SUBSET (0 .. Len(RpcUrls)) /\ ranks # {}
    BY <1>1, <1>2, <1>4
  <2> HIDE DEF ranks
  <2>2. Max(ranks) \in ranks /\ \A x \in ranks : x <= Max(ranks)
    BY <2>1, NodesFacts, MaxProperty
  <2>3. QED
    BY <2>2 DEF ranks
<1>6. best # {} /\ best \in SUBSET steady /\ \A i \in steady \ best : rank(i) < latest
  <2>1. \A i \in steady : i \in places
    BY <1>2, <1>4
  <2>2. \A i \in steady : rank(i) <= latest /\ rank(i) \in Nat
    <3> TAKE i \in steady
    <3>1. rank(i) <= latest
      BY <1>5
    <3>2. rank(i) \in 0 .. Len(RpcUrls)
      BY <1>1, <2>1
    <3> HIDE DEF rank, latest
    <3>3. QED
      BY <3>1, <3>2, NodesFacts
  <2>3. PICK i \in steady : rank(i) = latest
    BY <1>5
  <2> HIDE DEF latest, steady, rank
  <2>4. latest \in Nat
    BY <2>2, <2>3
  <2>5. QED
    BY <2>2, <2>3, <2>4
<1>7. first \in best /\ \A i \in best : first <= i
  <2>1. best \in SUBSET Nat
    BY <1>1, <1>2, <1>4, <1>6
  <2>2. QED
    BY <1>6, <2>1, MinProperty
<1>8. /\ \A i \in places : i \in healthy \/ (~ h(i).healthy /\ h(first).healthy)
      /\ \A i \in healthy : h(i).healthy = h(first).healthy
  <2>1. first \in healthy
    BY <1>4, <1>6, <1>7
  <2> HIDE DEF first, h
  <2>2. QED
    BY <1>1, <1>2, <2>1
<1>9. first \in places /\ h(first).failures = fewest /\ rank(first) = latest /\ latest \in Nat /\ fewest \in Nat
  <2>1. first \in best /\ first \in steady /\ first \in places
    BY <1>2, <1>4, <1>6, <1>7
  <2>2. h(first).failures = fewest /\ rank(first) = latest
    <3> HIDE DEF first, fewest, latest, h, rank
    <3>1. QED
      BY <2>1
  <2> HIDE DEF first
  <2>3. h(first).failures \in Nat /\ rank(first) \in Nat
    BY <1>1, <2>1, NodesFacts
  <2> HIDE DEF fewest, latest, h, rank
  <2>4. QED
    BY <2>1, <2>2, <2>3
<1> HIDE DEF healthy, fewest, steady, latest, best, first
<1>10. ASSUME NEW i \in places PROVE ~ F!Before(health, RpcUrls[i], RpcUrls[first])
  <2>1. CASE i \notin healthy
    BY <1>1, <1>8, <1>9, <2>1 DEF F!Before
  <2>2. CASE i \in healthy /\ i \notin steady
    BY <1>1, <1>4, <1>8, <1>9, <2>2 DEF F!Before
  <2>3. CASE i \in steady
    <3>1. h(i).failures = fewest /\ rank(i) <= latest /\ i \in healthy
      BY <1>4, <1>5, <2>3 DEF steady
    <3>2. QED
      BY <1>1, <1>8, <1>9, <3>1 DEF F!Before
  <2>4. QED
    BY <2>1, <2>2, <2>3
<1>11. ASSUME NEW i \in 1 .. first - 1 PROVE F!Before(health, RpcUrls[first], RpcUrls[i])
  <2>1. i \in places /\ i \notin best
    BY <1>7, <1>9, NodesFacts
  <2>2. CASE i \notin healthy
    BY <1>1, <1>8, <1>9, <2>1, <2>2 DEF F!Before
  <2>3. CASE i \in healthy /\ i \notin steady
    BY <1>1, <1>4, <1>8, <1>9, <2>1, <2>3 DEF F!Before
  <2>4. CASE i \in steady
    <3>1. h(i).failures = fewest /\ rank(i) < latest /\ i \in healthy
      BY <1>4, <1>6, <2>1, <2>4 DEF steady
    <3>2. QED
      BY <1>1, <1>8, <1>9, <2>1, <3>1 DEF F!Before
  <2>5. QED
    BY <2>2, <2>3, <2>4
<1> DEFINE IsFirst(i) == /\ \A j \in DOMAIN RpcUrls : ~ F!Before(health, RpcUrls[j], RpcUrls[i])
                         /\ \A j \in 1 .. i - 1 : F!Before(health, RpcUrls[i], RpcUrls[j])
<1>12. IsFirst(first)
  BY <1>10, <1>11
<1> HIDE DEF IsFirst
<1>13. (CHOOSE i \in DOMAIN RpcUrls : IsFirst(i)) \in DOMAIN RpcUrls
  BY <1>9, <1>12
<1>14. F!Healthiest(health) = RpcUrls[CHOOSE i \in DOMAIN RpcUrls : IsFirst(i)]
  BY DEF F!Healthiest, IsFirst
<1>15. QED
  BY <1>13, <1>14, NodesFacts

\* The rows of the nodes.
Rows == [F!Nodes -> {F!NoRow} \cup
          [healthy : BOOLEAN, failures : Nat, backoff : 1 .. MaxBackoff,
           successes : 0 .. SuccessThreshold, retryLater : BOOLEAN]]

\* A node without a row has the health of a new one.
LEMMA HealthType ==
  ASSUME NEW rows \in Rows
  PROVE  F!Health(rows) \in HealthOfNodes
<1>1. F!FreshRow \in [healthy : BOOLEAN, failures : Nat, backoff : 1 .. MaxBackoff,
                      successes : 0 .. SuccessThreshold, retryLater : BOOLEAN]
  BY FailoverAssumption DEF F!FreshRow
<1>2. QED
  BY <1>1 DEF F!Health, HealthOfNodes, Rows

\* What is written for the node after a call is a row.
LEMMA WrittenRows ==
  ASSUME F!TypeOK, NEW n \in F!Nodes
  PROVE  /\ [fRow EXCEPT ![n] = F!AfterFailure(F!RowOf(n))] \in Rows
         /\ [fRow EXCEPT ![n] = F!AfterSuccess(F!RowOf(n))] \in Rows
<1> DEFINE R == [healthy : BOOLEAN, failures : Nat, backoff : 1 .. MaxBackoff,
                 successes : 0 .. SuccessThreshold, retryLater : BOOLEAN]
           r == F!RowOf(n)
<1>1. fRow \in Rows
  BY DEF F!TypeOK, Rows
<1>2. r \in R
  <2>1. F!FreshRow \in R
    BY FailoverAssumption DEF F!FreshRow
  <2>2. fRow[n] = F!NoRow \/ fRow[n] \in R
    BY <1>1 DEF Rows
  <2> HIDE DEF R
  <2>3. QED
    BY <2>1, <2>2 DEF F!RowOf
<1>3. /\ r.healthy \in BOOLEAN /\ r.failures \in Nat /\ r.backoff \in 1 .. MaxBackoff
      /\ r.successes \in 0 .. SuccessThreshold
  BY <1>2
<1> HIDE DEF r
<1>4. F!AfterFailure(r) \in R
  BY <1>3, FailoverAssumption DEF F!AfterFailure, F!MinOf, F!MaxOf
<1>5. F!AfterSuccess(r) \in R
  <2>1. F!MinOf(r.successes + 1, SuccessThreshold) \in 0 .. SuccessThreshold
    BY <1>3, FailoverAssumption DEF F!MinOf
  <2>2. F!MaxOf(1, r.backoff \div 2) \in 1 .. MaxBackoff
    BY <1>3, FailoverAssumption DEF F!MaxOf
  <2>3. F!MaxOf(0, r.failures - 1) \in Nat
    BY <1>3 DEF F!MaxOf
  <2>4. (r.successes + 1 >= SuccessThreshold \/ F!MaxOf(0, r.failures - 1) = 0) \in BOOLEAN
    OBVIOUS
  <2>5. QED
    BY <2>1, <2>2, <2>3, <2>4 DEF F!AfterSuccess
<1> HIDE DEF R
<1>6. QED
  BY <1>1, <1>4, <1>5 DEF r, R, Rows

\* The node that is chosen, whether the choice is written or not, is a configured one.
LEMMA SelectRpcNodeType ==
  ASSUME F!TypeOK, NEW rows \in Rows, F!SelectRpcNode(rows)
  PROVE  fActive' \in F!Nodes /\ fSelected' \in BOOLEAN /\ fDbActive' \in F!Nodes \cup {F!NoNode}
<1>1. F!Healthiest(F!Health(rows)) \in F!Nodes
  BY HealthType, HealthiestIsANode
<1>2. fDbActive \in F!Nodes \cup {F!NoNode}
  BY DEF F!TypeOK
<1>3. QED
  BY <1>1, <1>2 DEF F!SelectRpcNode

\* Two successes keep their order, and the last one is above them.
LEMMA SucceededType ==
  ASSUME F!TypeOK, NEW n \in F!Nodes
  PROVE  LET new == F!Succeeded(n)
         IN  /\ new \in [F!Nodes -> 0 .. Len(RpcUrls)]
             /\ \A l, m \in F!Nodes : new[l] = new[m] /\ new[l] > 0 => l = m
<1>1. /\ fLastSuccess \in [F!Nodes -> 0 .. Len(RpcUrls)]
      /\ \A l, m \in F!Nodes : fLastSuccess[l] = fLastSuccess[m] /\ fLastSuccess[l] > 0 => l = m
  BY DEF F!TypeOK
<1> DEFINE old == fLastSuccess
           new == F!Succeeded(n)
           top == Len(RpcUrls)
<1>2. new = [m \in F!Nodes |-> IF m = n THEN top ELSE IF old[m] > old[n] THEN old[m] - 1 ELSE old[m]]
  BY DEF F!Succeeded
<1>3. top \in Nat
  BY NodesFacts
<1> HIDE DEF old, new, top
<1>4. /\ old \in [F!Nodes -> 0 .. top]
      /\ \A l, m \in F!Nodes : old[l] = old[m] /\ old[l] > 0 => l = m
  BY <1>1 DEF old, top
<1>5. \A m \in F!Nodes : old[m] \in Nat /\ old[m] <= top
  BY <1>3, <1>4
<1>6. new[n] = top /\ \A m \in F!Nodes \ {n} : new[m] = IF old[m] > old[n] THEN old[m] - 1 ELSE old[m]
  BY <1>2
<1>7. new \in [F!Nodes -> 0 .. top]
  <2>1. \A m \in F!Nodes : (IF m = n THEN top ELSE IF old[m] > old[n] THEN old[m] - 1 ELSE old[m]) \in 0 .. top
    BY <1>3, <1>5
  <2>2. QED
    BY <1>2, <2>1
<1>8. \A l, m \in F!Nodes : new[l] = new[m] /\ new[l] > 0 => l = m
  <2>1. \A m \in F!Nodes \ {n} : new[m] > 0 => new[m] < top
    BY <1>3, <1>4, <1>5, <1>6
  <2>2. \A l, m \in F!Nodes \ {n} : new[l] = new[m] /\ new[l] > 0 => l = m
    BY <1>4, <1>5, <1>6
  <2>3. QED
    BY <1>3, <1>6, <2>1, <2>2
<1>9. QED
  BY <1>7, <1>8 DEF new, top

\* Every step of the nodes and the poller keeps the types.
LEMMA FailoverStep == F!TypeOK /\ [F!Next]_fVars => F!TypeOK'
<1> SUFFICES ASSUME F!TypeOK, [F!Next]_fVars PROVE F!TypeOK'
  OBVIOUS
<1> DEFINE Successes(s) == /\ s \in [F!Nodes -> 0 .. Len(RpcUrls)]
                           /\ \A l, m \in F!Nodes : s[l] = s[m] /\ s[l] > 0 => l = m
<1>1. /\ fRow \in Rows /\ Successes(fLastSuccess) /\ fUp \subseteq F!Nodes /\ fUp # {}
      /\ fActive \in F!Nodes /\ fSelected \in BOOLEAN /\ fDbActive \in F!Nodes \cup {F!NoNode}
  BY DEF F!TypeOK, Rows
<1>2. SUFFICES /\ fRow' \in Rows /\ Successes(fLastSuccess') /\ fUp' \subseteq F!Nodes /\ fUp' # {}
               /\ fActive' \in F!Nodes /\ fSelected' \in BOOLEAN /\ fDbActive' \in F!Nodes \cup {F!NoNode}
  BY DEF F!TypeOK, Rows
<1> HIDE DEF Successes
<1>3. CASE F!FirstSelection
  BY <1>1, <1>3, SelectRpcNodeType DEF F!FirstSelection
<1>4. CASE F!PollSucceeds
  <2>1. Successes(F!Succeeded(fActive))
    BY <1>1, SucceededType DEF Successes
  <2>2. QED
    BY <1>1, <1>4, <2>1, WrittenRows DEF F!PollSucceeds
<1>5. CASE F!PollFails
  <2>1. CASE F!RecordActiveNodeFailure
    <3>1. fRow' \in Rows /\ fLastSuccess' = fLastSuccess /\ fUp' = fUp
      BY <1>1, <2>1, WrittenRows DEF F!RecordActiveNodeFailure
    <3>2. CASE UNCHANGED <<fDbActive, fActive, fSelected, fFaults>>
      BY <1>1, <3>1, <3>2
    <3>3. CASE F!SelectRpcNode(fRow')
      <4>1. fActive' \in F!Nodes /\ fSelected' \in BOOLEAN /\ fDbActive' \in F!Nodes \cup {F!NoNode}
        BY <3>1, <3>3, SelectRpcNodeType
      <4>2. QED
        BY <1>1, <3>1, <4>1
    <3>4. QED
      BY <2>1, <3>2, <3>3 DEF F!RecordActiveNodeFailure
  <2>2. CASE UNCHANGED <<fRow, fLastSuccess, fDbActive, fActive, fSelected, fUp>>
    BY <1>1, <2>2
  <2>3. QED
    BY <1>5, <2>1, <2>2 DEF F!PollFails
<1>6. CASE F!PollFailsOtherwise
  <2>1. fRow' \in Rows /\ UNCHANGED <<fLastSuccess, fSelected, fUp>>
    BY <1>1, <1>6, WrittenRows DEF F!PollFailsOtherwise
  <2>2. F!Healthiest(F!Health(fRow')) \in F!Nodes
    BY <2>1, HealthType, HealthiestIsANode
  <2>3. QED
    BY <1>1, <1>6, <2>1, <2>2 DEF F!PollFailsOtherwise
<1>7. CASE F!Restart
  BY <1>1, <1>7, NodesFacts DEF F!Restart
<1>8. ASSUME NEW n \in F!Nodes, F!Flip(n)
      PROVE  fUp' \subseteq F!Nodes /\ fUp' # {} /\ UNCHANGED <<fRow, fLastSuccess, fDbActive, fActive, fSelected>>
  <2>1. fUp' # {} /\ (fUp' = fUp \ {n} \/ fUp' = fUp \cup {n})
    BY <1>8 DEF F!Flip
  <2>2. fUp' \subseteq F!Nodes
    BY <1>1, <2>1
  <2>3. UNCHANGED <<fRow, fLastSuccess, fDbActive, fActive, fSelected>>
    BY <1>8 DEF F!Flip
  <2>4. QED
    BY <2>1, <2>2, <2>3
<1>9. CASE UNCHANGED fVars
  BY <1>1, <1>9 DEF fVars
<1>10. QED
  BY <1>1, <1>3, <1>4, <1>5, <1>6, <1>7, <1>8, <1>9 DEF F!Next, F!Poll

\* No poll has been made and every node answers.
LEMMA FailoverInit == F!Init => F!TypeOK
<1> SUFFICES ASSUME F!Init PROVE F!TypeOK
  OBVIOUS
<1>1. RpcUrls[1] \in F!Nodes
  BY NodesFacts
<1>2. fRow \in [F!Nodes -> {F!NoRow}] /\ fActive = RpcUrls[1] /\ fUp = F!Nodes /\ fUp # {}
  BY <1>1 DEF F!Init
<1>3. fRow \in Rows
  BY <1>2 DEF Rows
<1>4. fLastSuccess \in [F!Nodes -> 0 .. Len(RpcUrls)] /\ \A m \in F!Nodes : fLastSuccess[m] = 0
  BY NodesFacts DEF F!Init
<1>5. fDbActive \in F!Nodes \cup {F!NoNode} /\ fActive \in F!Nodes /\ fSelected \in BOOLEAN
  BY <1>1 DEF F!Init
<1>6. \A m, n \in F!Nodes : fLastSuccess[m] = fLastSuccess[n] /\ fLastSuccess[m] > 0 => m = n
  BY <1>4
<1>7. QED
  BY <1>2, <1>3, <1>4, <1>5, <1>6 DEF F!TypeOK, Rows

(***************************************************************************)
(* Startup and shutdown, and the maintenance                               *)
(***************************************************************************)

\* The state of a process but for its counters.
ProcessTypeOK ==
  /\ lState \in {"starting", "serving", "draining", "ended"} /\ lExitCode \in {-1, 0, 1, 2}
  /\ lNetwork \in {"pending", "ok", "mismatch"} /\ lBusy \subseteq Connections
  /\ lDbOpen \in BOOLEAN /\ lPollerRunning \in BOOLEAN /\ lInCycle \in BOOLEAN /\ lForceTimer \in BOOLEAN

\* The counters of signals and polls.
CountersTypeOK == lSignals \in 0 .. MaxSignals /\ lCycles \in 0 .. MaxCycles

\* A process starts without anything open.
LEMMA LifecycleInit == L!Init => L!TypeOK
<1> SUFFICES ASSUME L!Init PROVE L!TypeOK
  OBVIOUS
<1>1. ProcessTypeOK
  BY DEF L!Init, ProcessTypeOK
<1>2. CountersTypeOK
  BY ServerBoundsAssumption DEF L!Init, CountersTypeOK
<1>3. QED
  BY <1>1, <1>2 DEF L!TypeOK, ProcessTypeOK, CountersTypeOK

\* Every step of a process keeps the types.
LEMMA LifecycleStep == L!TypeOK /\ [L!Next]_lVars => L!TypeOK'
<1> SUFFICES ASSUME ProcessTypeOK, CountersTypeOK, [L!Next]_lVars
             PROVE  ProcessTypeOK' /\ CountersTypeOK'
  BY DEF L!TypeOK, ProcessTypeOK, CountersTypeOK
<1> USE ServerBoundsAssumption
<1>1. CASE L!StartUp \/ L!NetworkMatches \/ L!NetworkDiffers
  <2>1. ProcessTypeOK'
    BY <1>1 DEF L!StartUp, L!NetworkMatches, L!NetworkDiffers, L!Exit, ProcessTypeOK
  <2>2. CountersTypeOK'
    BY <1>1 DEF L!StartUp, L!NetworkMatches, L!NetworkDiffers, CountersTypeOK
  <2>3. QED
    BY <2>1, <2>2
<1>2. CASE L!EndCycle \/ L!BeginCycle
  <2>1. ProcessTypeOK'
    BY <1>2 DEF L!EndCycle, L!BeginCycle, ProcessTypeOK
  <2>2. CountersTypeOK'
    BY <1>2 DEF L!EndCycle, L!BeginCycle, CountersTypeOK
  <2>3. QED
    BY <2>1, <2>2
<1>3. ASSUME NEW c \in Connections, L!Arrive(c) \/ L!Respond(c) PROVE ProcessTypeOK' /\ CountersTypeOK'
  <2>1. ProcessTypeOK'
    BY <1>3 DEF L!Arrive, L!Respond, ProcessTypeOK
  <2>2. CountersTypeOK'
    BY <1>3 DEF L!Arrive, L!Respond, CountersTypeOK
  <2>3. QED
    BY <2>1, <2>2
<1>4. CASE L!Signal
  <2>1. ProcessTypeOK'
    BY <1>4 DEF L!Signal, L!Arm, ProcessTypeOK
  <2>2. CountersTypeOK'
    BY <1>4 DEF L!Signal, CountersTypeOK
  <2>3. QED
    BY <2>1, <2>2
<1>5. CASE L!FinishShutdown \/ L!ForceExit
  <2>1. ProcessTypeOK'
    BY <1>5 DEF L!FinishShutdown, L!ForceExit, L!Exit, ProcessTypeOK
  <2>2. CountersTypeOK'
    BY <1>5 DEF L!FinishShutdown, L!ForceExit, CountersTypeOK
  <2>3. QED
    BY <2>1, <2>2
<1>6. CASE UNCHANGED lVars
  BY <1>6 DEF lVars, ProcessTypeOK, CountersTypeOK
<1>7. QED
  BY <1>1, <1>2, <1>3, <1>4, <1>5, <1>6 DEF L!Next

\* The database is closed only when every request that was accepted has been answered,
\* and a process ends with 0 only then.
THEOREM DatabaseClosesLast == ServerSpec => L!DatabaseOutlivesRequests
<1> DEFINE Closes == (lDbOpen /\ ~ lDbOpen') \/ (L!Running /\ lExitCode' = 0) => lBusy = {} /\ lState = "draining"
<1>1. [L!Next]_lVars => [Closes]_lVars
  <2> SUFFICES ASSUME L!Next PROVE Closes
    OBVIOUS
  <2>1. CASE L!StartUp \/ L!NetworkMatches \/ L!NetworkDiffers
    BY <2>1 DEF L!StartUp, L!NetworkMatches, L!NetworkDiffers, L!Exit, L!Running
  <2>2. CASE L!EndCycle \/ L!BeginCycle \/ L!Signal
    BY <2>2 DEF L!EndCycle, L!BeginCycle, L!Signal, L!Running
  <2>3. ASSUME NEW c \in Connections, L!Arrive(c) \/ L!Respond(c) PROVE Closes
    BY <2>3 DEF L!Arrive, L!Respond, L!Running
  <2>4. CASE L!FinishShutdown \/ L!ForceExit
    BY <2>4 DEF L!FinishShutdown, L!Drained, L!ForceExit, L!Exit, L!Running
  <2>5. QED
    BY <2>1, <2>2, <2>3, <2>4 DEF L!Next
<1>2. QED
  BY <1>1, PartSteps, PTL DEF ServerSpec, L!DatabaseOutlivesRequests, lVars, L!lifeVars

\* The cleanups in the chain are the queued ones.
MaintenanceInv == V!TypeOK /\ \A i \in DOMAIN vQueue : vOutcome[vQueue[i]] = "queued"

\* Nothing is queued at the start.
LEMMA MaintenanceInit == V!Init => MaintenanceInv
<1> SUFFICES ASSUME V!Init PROVE MaintenanceInv
  OBVIOUS
<1>1. vQueue = <<>> /\ vQueue \in Seq(Cleanups) /\ DOMAIN vQueue = {}
  BY DEF V!Init
<1>2. V!IsInjective(vQueue)
  BY <1>1 DEF V!IsInjective
<1>3. vWaited \in 0 .. MaxRetries + 1 /\ vFaultsUsed \in 0 .. MaxPruneFaults
  BY ServerBoundsAssumption DEF V!Init
<1>4. /\ vStored \subseteq Ledgers /\ vExpired \subseteq Ledgers /\ vLocked \in BOOLEAN /\ vScheduled \in BOOLEAN
      /\ vOutcome \in [Cleanups -> {"waiting", "queued", "done", "failed"}]
  BY DEF V!Init
<1>5. QED
  BY <1>1, <1>2, <1>3, <1>4 DEF V!TypeOK, MaintenanceInv

\* Every step of the maintenance keeps the types.
LEMMA MaintenanceStep == MaintenanceInv /\ [V!Next]_vVars => MaintenanceInv'
<1> SUFFICES ASSUME MaintenanceInv, [V!Next]_vVars PROVE MaintenanceInv'
  OBVIOUS
<1> USE ServerBoundsAssumption DEF MaintenanceInv
<1>1. ASSUME UNCHANGED <<vQueue, vOutcome>>, vStored' \subseteq Ledgers, vExpired' \subseteq Ledgers,
             vLocked' \in BOOLEAN, vScheduled' \in BOOLEAN,
             vWaited' \in 0 .. MaxRetries + 1, vFaultsUsed' \in 0 .. MaxPruneFaults
      PROVE  MaintenanceInv'
  BY <1>1 DEF V!TypeOK
<1>2. /\ vStored \subseteq Ledgers /\ vExpired \subseteq Ledgers
      /\ vLocked \in BOOLEAN /\ vScheduled \in BOOLEAN
      /\ vWaited \in 0 .. MaxRetries + 1 /\ vFaultsUsed \in 0 .. MaxPruneFaults
      /\ vOutcome \in [Cleanups -> {"waiting", "queued", "done", "failed"}]
      /\ vQueue \in Seq(Cleanups) /\ V!IsInjective(vQueue)
  BY DEF V!TypeOK
<1>3. ASSUME NEW l \in Ledgers, V!Ages(l) PROVE MaintenanceInv'
  BY <1>1, <1>2, <1>3 DEF V!Ages
<1>4. ASSUME NEW c \in Cleanups, V!Queue(c) PROVE MaintenanceInv'
  <2>1. /\ vOutcome[c] = "waiting" /\ vOutcome' = [vOutcome EXCEPT ![c] = "queued"]
        /\ vQueue' = Append(vQueue, c) /\ vLocked' = TRUE
        /\ UNCHANGED <<vStored, vExpired, vScheduled, vWaited, vFaultsUsed>>
    BY <1>4 DEF V!Queue
  <2>2. \A i \in DOMAIN vQueue : vQueue[i] # c
    BY <2>1
  <2>3. vQueue' \in Seq(Cleanups) /\ V!IsInjective(vQueue')
    BY <1>2, <2>1, <2>2 DEF V!IsInjective
  <2>4. \A i \in DOMAIN vQueue' : vOutcome'[vQueue'[i]] = "queued"
    BY <1>2, <2>1
  <2>5. QED
    BY <1>2, <2>1, <2>3, <2>4 DEF V!TypeOK
<1>5. CASE V!RunVacuumCleanup
  <2> DEFINE c == vQueue[1]
             r == Tail(vQueue)
             n == Len(vQueue)
  <2>1. vQueue # <<>> /\ c \in Cleanups
    BY <1>2, <1>5 DEF V!RunVacuumCleanup
  <2>2. /\ n \in Nat \ {0} /\ DOMAIN vQueue = 1 .. n /\ DOMAIN r = 1 .. n - 1
        /\ r \in Seq(Cleanups) /\ \A i \in 1 .. n - 1 : r[i] = vQueue[i + 1]
    BY <1>2, <2>1
  <2>3. /\ vQueue' = r /\ vLocked' = FALSE /\ UNCHANGED <<vExpired, vScheduled, vWaited>>
        /\ vOutcome' \in {[vOutcome EXCEPT ![c] = "done"], [vOutcome EXCEPT ![c] = "failed"]}
        /\ vStored' \in {vStored, vStored \ vExpired}
        /\ vFaultsUsed' = vFaultsUsed \/ (vFaultsUsed < MaxPruneFaults /\ vFaultsUsed' = vFaultsUsed + 1)
    BY <1>2, <1>5, <2>1 DEF V!RunVacuumCleanup, V!PruneOldEvents, V!Fault, V!GiveBack
  <2>4. \A i, j \in 1 .. n : vQueue[i] = vQueue[j] => i = j
    BY <1>2, <2>2 DEF V!IsInjective
  <2>5. V!IsInjective(vQueue')
    BY <2>2, <2>3, <2>4 DEF V!IsInjective
  <2>6. \A i \in DOMAIN vQueue' : vOutcome'[vQueue'[i]] = "queued"
    <3> TAKE i \in DOMAIN vQueue'
    <3>1. i \in 1 .. n - 1 /\ vQueue'[i] = vQueue[i + 1] /\ i + 1 \in DOMAIN vQueue /\ vQueue[i + 1] # c
      BY <2>2, <2>3, <2>4
    <3>2. vOutcome[vQueue[i + 1]] = "queued" /\ vQueue[i + 1] \in Cleanups
      BY <1>2, <3>1
    <3>3. QED
      BY <1>2, <2>3, <3>1, <3>2
  <2>7. /\ vStored' \subseteq Ledgers /\ vFaultsUsed' \in 0 .. MaxPruneFaults
        /\ vOutcome' \in [Cleanups -> {"waiting", "queued", "done", "failed"}]
    BY <1>2, <2>3
  <2> HIDE DEF c, r, n
  <2>8. QED
    BY <1>2, <2>2, <2>3, <2>5, <2>6, <2>7 DEF V!TypeOK
<1>6. CASE V!RunVacuumCleanupWithRetry
  BY <1>1, <1>2, <1>6 DEF V!RunVacuumCleanupWithRetry, V!PruneOldEvents
<1>7. ASSUME NEW start \in Ledgers, NEW end \in Ledgers, V!PruneEventsInLedgerRange(start, end)
      PROVE  MaintenanceInv'
  BY <1>1, <1>2, <1>7 DEF V!PruneEventsInLedgerRange
<1>8. CASE V!StartMaintenanceScheduler \/ V!MaintenanceTimer
  <2>1. UNCHANGED <<vExpired, vQueue, vLocked, vOutcome, vWaited>> /\ vScheduled' \in BOOLEAN
    BY <1>2, <1>8 DEF V!StartMaintenanceScheduler, V!MaintenanceTimer
  <2>2. vStored' \subseteq Ledgers /\ vFaultsUsed' \in 0 .. MaxPruneFaults
    BY <1>2, <1>8 DEF V!StartMaintenanceScheduler, V!MaintenanceTimer, V!RunMaintenanceCycle,
       V!PruneOldEvents, V!Fault
  <2>3. QED
    BY <1>1, <1>2, <2>1, <2>2
<1>9. CASE V!StopMaintenanceScheduler
  BY <1>1, <1>2, <1>9 DEF V!StopMaintenanceScheduler
<1>10. CASE UNCHANGED vVars
  BY <1>1, <1>2, <1>10 DEF vVars
<1>11. QED
  BY <1>3, <1>4, <1>5, <1>6, <1>7, <1>8, <1>9, <1>10 DEF V!Next

(***************************************************************************)
(* The server                                                              *)
(***************************************************************************)

\* What the server does is what each of its parts does.
LEMMA PartsRun ==
  ServerSpec => Spec /\ SubmitSpec /\ XdrSpec /\ SplitSpec /\ TaxSpec /\ UnitSpec
<1>1. ServerInit => Init /\ SubmitInit /\ XdrInit /\ SplitInit /\ TaxInit /\ UnitInit
  BY DEF ServerInit
<1>2. QED
  BY <1>1, PartSteps, PTL
     DEF ServerSpec, Spec, SubmitSpec, XdrSpec, SplitSpec, TaxSpec, UnitSpec

\* The types of the parts that are instances.
LEMMA InstanceTypes ==
  ServerSpec => [](mode \in Modes /\ F!TypeOK /\ K!TypeOK /\ L!TypeOK /\ V!TypeOK)
<1> DEFINE Inv == mode \in Modes /\ F!TypeOK /\ L!TypeOK /\ MaintenanceInv
<1>1. ServerInit => Inv
  BY FailoverInit, LifecycleInit, MaintenanceInit DEF ServerInit
<1>2. Inv /\ [ServerNext]_serverVars => Inv'
  BY PartSteps, FailoverStep, LifecycleStep, MaintenanceStep
<1>3. Inv => F!TypeOK /\ L!TypeOK /\ V!TypeOK /\ mode \in Modes
  BY DEF MaintenanceInv
<1>4. LocksInv => K!TypeOK
  BY DEF LocksInv
<1> HIDE DEF Inv
<1>5. ServerSpec => []Inv
  BY <1>1, <1>2, PTL DEF ServerSpec
<1>6. QED
  BY <1>3, <1>4, <1>5, LocksHold, PTL

\* Every part of the server keeps the types of its state: in particular the poller
\* always holds one of the configured RPC nodes, no insert is twice in the chain of a
\* key, and no cleanup twice in the chain of cleanups.
THEOREM ServerTypes == ServerSpec => []ServerTypeOK
<1>1. /\ mode \in Modes /\ F!TypeOK /\ K!TypeOK /\ L!TypeOK /\ V!TypeOK
      /\ TypeOK /\ SubmitTypeOK /\ XdrTypeOK /\ SplitTypeOK /\ TaxTypeOK /\ UnitTypeOK
      => ServerTypeOK
  BY DEF ServerTypeOK
<1>2. QED
  BY <1>1, PartsRun, InstanceTypes, TypeCorrect, SubmitTypeCorrect, XdrTypeCorrect,
     SplitTypes, TaxTypes, UnitTypes, PTL

\* Whatever is divided, shared out or taxed, in whatever parts, by whatever weights,
\* rates and brackets: nothing is lost, nothing is given twice.
THEOREM SharesExact == ServerSpec => []SharesAreExact
<1>1. SplitsAreExact /\ EachSliceIsTaxed => SharesAreExact
  BY DEF SharesAreExact
<1>2. QED
  BY <1>1, PartsRun, SplitsExact, SlicesAreTaxed, PTL

\* The safety of all parts, of the server as it is composed: nothing stale is cached,
\* the node and the network are asked once at a time, what is cached was accepted or can
\* still be signed, what is divided or converted loses nothing, inserts exclude each other.
THEOREM ServerIsSafe ==
  ServerSpec =>
    [](/\ CacheNotBehindIndex /\ OneLoadPerGeneration
       /\ OneSubmissionAtATime /\ CachedIsAccepted /\ EntryIsSignable
       /\ SharesAreExact /\ ConversionsAreExact /\ LocksAreSafe)
  BY PartsRun, CacheIsFresh, SingleFlight, OneAtATime, CacheIsAccepted, EntriesAreSignable,
     SharesExact, ConversionsExact, LocksSafe, PTL

\* What no step of the server does: answer with an older state than was indexed at the
\* call, report a failure that is not new, evict a servable transaction.
THEOREM ServerStepsAreSafe ==
  ServerSpec => AnswersAreFresh /\ FailuresAreFresh /\ FailureEvictsNothing
  BY PartsRun, ImplementsFreshRead, NoOldFailures, FailuresEvictNothing, PTL
=============================================================================
