-------------------------- MODULE LedgerOpsProofs --------------------------
(***************************************************************************)
(* What the operators of LedgerOps compute, for every value of the         *)
(* constants: saturating arithmetic, map updates, and the sum of a map of  *)
(* balances.                                                               *)
(*                                                                         *)
(* The sum is a recursive function, and every fact about it is shown by    *)
(* giving the list of its partial sums (IsRun).                            *)
(***************************************************************************)
EXTENDS LedgerOps, SumTheorems

-----------------------------------------------------------------------------
\* saturating_add is plain addition below u128::MAX and stays in range.
LEMMA SatAddFacts ==
  ASSUME NEW a \in Nat, NEW b \in Nat
  PROVE  /\ SatAdd(a, b) \in Atoms
         /\ a + b <= MaxAtoms => SatAdd(a, b) = a + b
         /\ SatAdd(a, b) < MaxAtoms => SatAdd(a, b) = a + b
         /\ a <= MaxAtoms => SatAdd(a, b) >= a
BY LedgerAssumption DEF SatAdd, Atoms

\* The provers need to be told that Nat is closed under multiplication.
LEMMA ProductIsNat ==
  ASSUME NEW a \in Nat, NEW b \in Nat
  PROVE  a * b \in Nat
OBVIOUS

\* saturating_mul is plain multiplication below u128::MAX and stays in range.
LEMMA SatMulFacts ==
  ASSUME NEW a \in Nat, NEW b \in Nat
  PROVE  /\ SatMul(a, b) \in Atoms
         /\ SatMul(a, b) < MaxAtoms => SatMul(a, b) = a * b
<1>1. a * b \in Nat
  BY ProductIsNat
<1> QED
  BY <1>1, LedgerAssumption DEF SatMul, Atoms

-----------------------------------------------------------------------------
(* The sum of a map.                                                       *)

Balances(f) == DOMAIN f \subseteq Ids /\ f \in [DOMAIN f -> Nat]

IsRun(f, s) ==
  /\ s \in [0..MaxIds -> Nat]
  /\ s[0] = 0
  /\ \A i \in 1..MaxIds : s[i] = s[i - 1] + Get(f, i)

\* A missing balance reads as 0, so every read is a number.
LEMMA GetIsNat ==
  ASSUME NEW f, Balances(f), NEW k
  PROVE  Get(f, k) \in Nat
BY DEF Get, Balances

\* The partial sums of a map of balances exist: the recursive definition of
\* RunningTotal has a solution.
LEMMA RunExists ==
  ASSUME NEW f, Balances(f)
  PROVE  \E s : IsRun(f, s)
<1> DEFINE Upto(n) == \E s \in [0..n -> Nat] :
                         s[0] = 0 /\ \A i \in 1..n : s[i] = s[i - 1] + Get(f, i)
           S == {n \in Nat : Upto(n)}
<1>1. 0 \in S
  <2> DEFINE z == [i \in 0..0 |-> 0]
  <2>1. z \in [0..0 -> Nat] /\ z[0] = 0 /\ \A i \in 1..0 : z[i] = z[i - 1] + Get(f, i)
    OBVIOUS
  <2>2. Upto(0)
    <3> HIDE DEF z
    <3> QED BY <2>1
  <2> HIDE DEF Upto
  <2> QED
    BY <2>2
<1>2. ASSUME NEW n \in S PROVE n + 1 \in S
  <2>1. PICK s \in [0..n -> Nat] :
               s[0] = 0 /\ \A i \in 1..n : s[i] = s[i - 1] + Get(f, i)
    OBVIOUS
  <2> DEFINE t == [i \in 0..(n + 1) |-> IF i = n + 1 THEN s[n] + Get(f, n + 1) ELSE s[i]]
  <2>2. Get(f, n + 1) \in Nat /\ n \in Nat
    BY GetIsNat
  <2>3. t \in [0..(n + 1) -> Nat]
    BY <2>1, <2>2
  <2>4. t[0] = 0
    BY <2>1, <2>2
  <2>5. \A i \in 1..(n + 1) : t[i] = t[i - 1] + Get(f, i)
    <3> SUFFICES ASSUME NEW i \in 1..(n + 1) PROVE t[i] = t[i - 1] + Get(f, i)
      OBVIOUS
    <3>1. CASE i = n + 1
      BY <3>1, <2>2
    <3>2. CASE i # n + 1
      BY <3>2, <2>1, <2>2
    <3> QED
      BY <3>1, <3>2
  <2>6. Upto(n + 1)
    <3> HIDE DEF t
    <3> QED BY <2>3, <2>4, <2>5
  <2> HIDE DEF Upto
  <2>7. n + 1 \in Nat
    BY <2>2
  <2> QED
    BY <2>6, <2>7
<1>3. S = Nat
  <2> HIDE DEF S
  <2>1. S \in SUBSET Nat
    BY DEF S
  <2> QED
    BY <1>1, <1>2, <2>1, NatSetInduction
<1>4. Upto(MaxIds)
  BY <1>3, LedgerAssumption
<1> QED
  BY <1>4 DEF IsRun

\* Total is the last partial sum.
LEMMA TotalIsRun ==
  ASSUME NEW f, NEW s, Balances(f), IsRun(f, s)
  PROVE  Total(f) = s[MaxIds]
<1>1. s = [i \in 0..MaxIds |-> IF i = 0 THEN 0 ELSE s[i - 1] + Get(f, i)]
  <2>1. \A i \in 0..MaxIds : s[i] = IF i = 0 THEN 0 ELSE s[i - 1] + Get(f, i)
    BY LedgerAssumption DEF IsRun
  <2> QED
    BY <2>1 DEF IsRun
<1>2. RunningTotal(f) =
        [i \in 0..MaxIds |-> IF i = 0 THEN 0 ELSE RunningTotal(f)[i - 1] + Get(f, i)]
  BY <1>1, Zenon DEF RunningTotal
<1> DEFINE r == RunningTotal(f)
<1> HIDE DEF r
<1>3. \A i \in 0..MaxIds : r[i] = IF i = 0 THEN 0 ELSE r[i - 1] + Get(f, i)
  <2>1. r = [i \in 0..MaxIds |-> IF i = 0 THEN 0 ELSE r[i - 1] + Get(f, i)]
    BY <1>2 DEF r
  <2> QED
    BY <2>1, Zenon
<1> DEFINE S == {n \in Nat : n <= MaxIds => r[n] = s[n]}
<1>4. 0 \in S
  BY <1>3, LedgerAssumption DEF IsRun
<1>5. ASSUME NEW n \in S PROVE n + 1 \in S
  <2>1. n \in Nat
    OBVIOUS
  <2> SUFFICES ASSUME n + 1 <= MaxIds PROVE r[n + 1] = s[n + 1]
    BY <2>1
  <2>2. n + 1 \in 1..MaxIds /\ (n + 1) - 1 = n
    BY <2>1, LedgerAssumption
  <2>3. r[n] = s[n]
    BY <2>1, <2>2, LedgerAssumption
  <2> QED
    BY <1>3, <2>1, <2>2, <2>3, LedgerAssumption DEF IsRun
<1>6. S = Nat
  <2> HIDE DEF S
  <2>1. S \in SUBSET Nat
    BY DEF S
  <2> QED
    BY <1>4, <1>5, <2>1, NatSetInduction
<1>7. r[MaxIds] = s[MaxIds]
  BY <1>6, LedgerAssumption
<1> QED
  BY <1>7 DEF r, Total

\* The sum of all balances is a number.
LEMMA TotalIsNat ==
  ASSUME NEW f, Balances(f)
  PROVE  Total(f) \in Nat
<1>1. PICK s : IsRun(f, s)
  BY RunExists
<1>2. MaxIds \in 0..MaxIds
  BY LedgerAssumption
<1>3. s[MaxIds] \in Nat
  BY <1>1, <1>2 DEF IsRun
<1>4. Total(f) = s[MaxIds]
  BY <1>1, TotalIsRun
<1> QED
  BY <1>3, <1>4

\* Total depends on what Get returns only: a missing key counts as 0.
LEMMA TotalSameGets ==
  ASSUME NEW f, NEW g, Balances(f), Balances(g),
         \A k \in Ids : Get(g, k) = Get(f, k)
  PROVE  Total(g) = Total(f)
<1>1. PICK s : IsRun(f, s)
  BY RunExists
<1>2. IsRun(g, s)
  BY <1>1 DEF IsRun, Ids
<1> QED
  BY <1>1, <1>2, TotalIsRun

\* What a map holds after insert().
LEMMA PutFacts ==
  ASSUME NEW f, Balances(f), NEW k \in Ids, NEW v \in Nat
  PROVE  /\ Balances(Put(f, k, v))
         /\ DOMAIN Put(f, k, v) = DOMAIN f \cup {k}
         /\ \A j : Get(Put(f, k, v), j) = IF j = k THEN v ELSE Get(f, j)
BY DEF Balances, Put, Get

\* insert() changes the sum by the difference between the new and the old value.
LEMMA TotalPut ==
  ASSUME NEW f, Balances(f), NEW k \in Ids, NEW v \in Nat
  PROVE  Total(Put(f, k, v)) = (Total(f) - Get(f, k)) + v
<1>1. PICK s : IsRun(f, s)
  BY RunExists
<1> DEFINE g == Put(f, k, v)
           t == [i \in 0..MaxIds |-> IF i < k THEN s[i] ELSE (s[i] - Get(f, k)) + v]
<1>2. Balances(g) /\ \A j : Get(g, j) = IF j = k THEN v ELSE Get(f, j)
  BY PutFacts, ZenonT(40)
<1> HIDE DEF g
<1>3. \A i \in 0..MaxIds : Get(f, i) \in Nat /\ Get(f, k) \in Nat
  BY GetIsNat
<1>4. k \in 1..MaxIds
  BY DEF Ids
\* Behind k every partial sum already contains f[k].
<1>5. \A i \in 0..MaxIds : i >= k => s[i] >= Get(f, k)
  <2> DEFINE S == {n \in Nat : (n <= MaxIds /\ n >= k) => s[n] >= Get(f, k)}
  <2>1. 0 \in S
    BY <1>4
  <2>2. ASSUME NEW n \in S PROVE n + 1 \in S
    <3>1. n \in Nat
      OBVIOUS
    <3> SUFFICES ASSUME n + 1 <= MaxIds, n + 1 >= k PROVE s[n + 1] >= Get(f, k)
      BY <3>1
    <3>2. n + 1 \in 1..MaxIds /\ n \in 0..MaxIds /\ (n + 1) - 1 = n
      BY <3>1, LedgerAssumption
    <3>3. s[n + 1] = s[n] + Get(f, n + 1) /\ s[n] \in Nat /\ Get(f, n + 1) \in Nat
      BY <1>1, <1>3, <3>2, LedgerAssumption DEF IsRun
    <3>4. CASE n + 1 = k
      BY <1>3, <3>2, <3>3, <3>4
    <3>5. CASE n + 1 # k
      <4>1. n >= k
        BY <1>4, <3>1, <3>5, LedgerAssumption
      <4>2. s[n] >= Get(f, k)
        BY <3>2, <4>1, LedgerAssumption
      <4> QED
        BY <1>3, <3>2, <3>3, <4>2
    <3> QED
      BY <3>4, <3>5
  <2>3. S = Nat
    <3> HIDE DEF S
    <3>1. S \in SUBSET Nat
      BY DEF S
    <3> QED
      BY <2>1, <2>2, <3>1, NatSetInduction
  <2> QED
    BY <2>3, LedgerAssumption
<1>6. t \in [0..MaxIds -> Nat]
  <2> SUFFICES ASSUME NEW i \in 0..MaxIds
               PROVE  (IF i < k THEN s[i] ELSE (s[i] - Get(f, k)) + v) \in Nat
    OBVIOUS
  <2>1. s[i] \in Nat /\ Get(f, k) \in Nat /\ i \in Nat /\ k \in Nat
    BY <1>1, <1>3, <1>4, LedgerAssumption DEF IsRun
  <2> QED
    BY <1>5, <2>1
<1>7. t[0] = 0
  BY <1>1, <1>4, LedgerAssumption DEF IsRun
<1>8. \A i \in 1..MaxIds : t[i] = t[i - 1] + Get(g, i)
  <2> SUFFICES ASSUME NEW i \in 1..MaxIds PROVE t[i] = t[i - 1] + Get(g, i)
    OBVIOUS
  <2>1. /\ i - 1 \in 0..MaxIds /\ i \in 0..MaxIds
        /\ s[i] = s[i - 1] + Get(f, i)
        /\ s[i] \in Nat /\ s[i - 1] \in Nat /\ Get(f, i) \in Nat /\ Get(f, k) \in Nat
    BY <1>1, <1>3, LedgerAssumption DEF IsRun
  <2>2. CASE i = k
    BY <1>2, <2>1, <2>2
  <2>3. CASE i # k
    <3>1. Get(g, i) = Get(f, i) /\ k \in Nat /\ (i < k <=> i - 1 < k)
      BY <1>2, <1>4, <2>3, LedgerAssumption
    <3> QED
      BY <2>1, <3>1
  <2> QED
    BY <2>2, <2>3
<1>9. IsRun(g, t)
  BY <1>6, <1>7, <1>8 DEF IsRun
<1>10. Total(g) = t[MaxIds] /\ Total(f) = s[MaxIds]
  BY <1>1, <1>2, <1>9, TotalIsRun
<1>11. t[MaxIds] = (s[MaxIds] - Get(f, k)) + v
  BY <1>4, LedgerAssumption
<1> QED
  BY <1>10, <1>11 DEF g

\* One balance is at most the sum of all.
LEMMA GetLeqTotal ==
  ASSUME NEW f, Balances(f), NEW k \in Ids
  PROVE  Get(f, k) <= Total(f)
<1>1. Balances(Put(f, k, 0))
  BY PutFacts
<1>2. Total(Put(f, k, 0)) \in Nat /\ Total(f) \in Nat /\ Get(f, k) \in Nat
  BY <1>1, TotalIsNat, GetIsNat
<1>3. Total(Put(f, k, 0)) = (Total(f) - Get(f, k)) + 0
  BY TotalPut
<1> QED
  BY <1>2, <1>3

\* Adding c to every member of ms adds c per member.
LEMMA TotalAddToAll ==
  ASSUME NEW f, NEW g, Balances(f), Balances(g),
         NEW ms \in SUBSET Ids, NEW c \in Nat,
         \A k \in Ids : Get(g, k) = Get(f, k) + (IF k \in ms THEN c ELSE 0)
  PROVE  Total(g) = Total(f) + c * Cardinality(ms)
<1>1. PICK s : IsRun(f, s)
  BY RunExists
<1> DEFINE Below(i) == ms \cap (1..i)
           t == [i \in 0..MaxIds |-> s[i] + c * Cardinality(Below(i))]
<1>2. \A i \in Nat : IsFiniteSet(Below(i)) /\ Cardinality(Below(i)) \in Nat
  <2> SUFFICES ASSUME NEW i \in Nat
               PROVE  IsFiniteSet(Below(i)) /\ Cardinality(Below(i)) \in Nat
    OBVIOUS
  <2>1. IsFiniteSet(1..i)
    BY FS_Interval
  <2>2. IsFiniteSet(Below(i))
    BY <2>1, FS_Subset
  <2> QED
    BY <2>2, FS_CardinalityType
<1>3. Cardinality(Below(0)) = 0
  BY FS_EmptySet
<1>4. \A i \in Nat \ {0} :
        Cardinality(Below(i)) = Cardinality(Below(i - 1)) + (IF i \in ms THEN 1 ELSE 0)
  <2> SUFFICES ASSUME NEW i \in Nat \ {0}
               PROVE  Cardinality(Below(i))
                        = Cardinality(Below(i - 1)) + (IF i \in ms THEN 1 ELSE 0)
    OBVIOUS
  <2>0. i - 1 \in Nat
    OBVIOUS
  <2>1. IsFiniteSet(Below(i - 1)) /\ Cardinality(Below(i - 1)) \in Nat
    <3> HIDE DEF Below
    <3> QED BY <1>2, <2>0
  <2>2. CASE i \in ms
    <3>1. Below(i) = Below(i - 1) \cup {i} /\ i \notin Below(i - 1)
      BY <2>2
    <3> QED
      BY <2>1, <2>2, <3>1, FS_AddElement
  <2>3. CASE i \notin ms
    <3>1. Below(i) = Below(i - 1)
      BY <2>3
    <3> HIDE DEF Below
    <3> QED
      BY <2>1, <2>3, <3>1
  <2> QED
    BY <2>2, <2>3
<1>5. Below(MaxIds) = ms
  BY DEF Ids
<1> HIDE DEF Below
<1>6. \A i \in 0..MaxIds : s[i] \in Nat /\ c * Cardinality(Below(i)) \in Nat
  <2> SUFFICES ASSUME NEW i \in 0..MaxIds
               PROVE  s[i] \in Nat /\ c * Cardinality(Below(i)) \in Nat
    OBVIOUS
  <2>1. i \in Nat /\ s[i] \in Nat
    BY <1>1, LedgerAssumption DEF IsRun
  <2>2. Cardinality(Below(i)) \in Nat
    BY <1>2, <2>1
  <2> QED
    BY <2>1, <2>2, ProductIsNat
<1>7. t \in [0..MaxIds -> Nat]
  BY <1>6
<1>8. t[0] = 0
  BY <1>1, <1>3, LedgerAssumption DEF IsRun
<1>9. \A i \in 1..MaxIds : t[i] = t[i - 1] + Get(g, i)
  <2> SUFFICES ASSUME NEW i \in 1..MaxIds PROVE t[i] = t[i - 1] + Get(g, i)
    OBVIOUS
  <2> DEFINE card == Cardinality(Below(i - 1))
  <2>1. i - 1 \in 0..MaxIds /\ i \in 0..MaxIds /\ i \in Nat \ {0} /\ i - 1 \in Nat
    BY LedgerAssumption
  <2>2. /\ s[i] = s[i - 1] + Get(f, i)
        /\ s[i - 1] \in Nat /\ Get(f, i) \in Nat /\ card \in Nat
    BY <1>1, <1>2, <1>6, <2>1, GetIsNat DEF IsRun
  <2>3. /\ Cardinality(Below(i)) = card + (IF i \in ms THEN 1 ELSE 0)
        /\ Get(g, i) = Get(f, i) + (IF i \in ms THEN c ELSE 0)
    BY <1>4, <2>1 DEF Ids
  <2>4. t[i] = s[i] + c * Cardinality(Below(i)) /\ t[i - 1] = s[i - 1] + c * card
    BY <2>1
  <2> HIDE DEF card, t
  <2>5. c * (card + 1) = c * card + c /\ c * card \in Nat
    BY <2>2, ProductIsNat
  <2>6. CASE i \in ms
    BY <2>2, <2>3, <2>4, <2>5, <2>6
  <2>7. CASE i \notin ms
    BY <2>2, <2>3, <2>4, <2>5, <2>7
  <2> QED
    BY <2>6, <2>7
<1>10. IsRun(g, t)
  BY <1>7, <1>8, <1>9 DEF IsRun
<1>11. Total(g) = t[MaxIds] /\ Total(f) = s[MaxIds]
  BY <1>1, <1>10, TotalIsRun
<1>12. t[MaxIds] = s[MaxIds] + c * Cardinality(ms)
  BY <1>5, LedgerAssumption
<1> QED
  BY <1>11, <1>12
=============================================================================
