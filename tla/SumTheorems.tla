---------------------------- MODULE SumTheorems ----------------------------
(***************************************************************************)
(* Induction over Nat and the sum of a function over a finite set, in the  *)
(* form in which the proofs of the other modules use them.  The provers    *)
(* cannot instantiate the library's induction theorems, so induction is    *)
(* used in the form "a set of numbers that holds 0 and with each n also    *)
(* n + 1 is all of Nat", which follows from < being well founded.          *)
(*                                                                         *)
(* SumFunctionOnSet of the community modules is defined by a recursive     *)
(* function that takes the elements in the order of CHOOSE.  The lemmas    *)
(* say what a reader expects of a sum: it exists, it is a number, any      *)
(* element can be split off, and only the values on the set count.  They   *)
(* are shown by induction over the size of the set.                        *)
(***************************************************************************)
EXTENDS Functions, FiniteSets, FiniteSetTheorems, WellFoundedInduction, TLAPS

\* A nonempty set of natural numbers has a least element.
LEMMA LeastElement ==
  ASSUME NEW T \in SUBSET Nat, T # {}
  PROVE  \E x \in T : \A y \in T : x <= y
<1>1. IsWellFoundedOn(OpToRel(<, Nat), Nat)
  BY NatLessThanWellFounded
<1>2. PICK x \in T : \A y \in T : ~(<<y, x>> \in OpToRel(<, Nat))
  BY <1>1, WFMin
<1>3. \A y \in T : ~(y < x)
  BY <1>2 DEF OpToRel
<1>4. x \in Nat /\ \A y \in T : y \in Nat
  OBVIOUS
<1>5. \A y \in T : x <= y
  BY <1>3, <1>4
<1> QED
  BY <1>2, <1>5

\* Induction over Nat in the form the provers can use: for sets.
LEMMA NatSetInduction ==
  ASSUME NEW S \in SUBSET Nat, 0 \in S, \A n \in S : n + 1 \in S
  PROVE  S = Nat
<1> SUFFICES ASSUME Nat \ S # {} PROVE FALSE
  OBVIOUS
<1>1. PICK x \in Nat \ S : \A y \in Nat \ S : x <= y
  BY LeastElement
<1>2. x - 1 \in Nat /\ x - 1 < x
  BY <1>1
<1>3. x - 1 \in S
  BY <1>1, <1>2
<1> QED
  BY <1>2, <1>3

-----------------------------------------------------------------------------
Pick(s) == CHOOSE x \in s : TRUE

\* g is the recursive function inside the sum of f over S.
SumOver(f, S, g) ==
  g = [s \in SUBSET S |-> IF s = {} THEN 0 ELSE f[Pick(s)] + g[s \ {Pick(s)}]]

Summable(f, S) == IsFiniteSet(S) /\ \A x \in S : f[x] \in Nat

\* Taking one element out of a finite set leaves a finite set, smaller by one.
LEMMA OneLess ==
  ASSUME NEW S, IsFiniteSet(S), NEW e \in S
  PROVE  /\ IsFiniteSet(S \ {e})
         /\ Cardinality(S) \in Nat /\ Cardinality(S \ {e}) \in Nat
         /\ Cardinality(S) = Cardinality(S \ {e}) + 1
<1>1. Cardinality(S \ {e}) = Cardinality(S) - 1 /\ IsFiniteSet(S \ {e})
  BY FS_RemoveElement
<1>2. Cardinality(S) \in Nat /\ Cardinality(S \ {e}) \in Nat
  BY <1>1, FS_CardinalityType
<1> QED
  BY <1>1, <1>2

\* What is picked from a nonempty set is in it.
LEMMA PickIn ==
  ASSUME NEW s, s # {}
  PROVE  Pick(s) \in s
BY DEF Pick

\* Every subset of a finite set is finite and no larger.
LEMMA SmallerSubset ==
  ASSUME NEW S, IsFiniteSet(S), NEW s \in SUBSET S
  PROVE  /\ IsFiniteSet(s) /\ Cardinality(s) \in Nat /\ Cardinality(S) \in Nat
         /\ Cardinality(s) <= Cardinality(S)
         /\ Cardinality(s) = 0 => s = {}
BY FS_Subset, FS_CardinalityType, FS_EmptySet

\* The recursive function of a sum exists, with numbers as values.
LEMMA SumOverExists ==
  ASSUME NEW f, NEW S, Summable(f, S)
  PROVE  \E g : SumOver(f, S, g) /\ g \in [SUBSET S -> Nat]
<1> DEFINE Eq(g, s) == g[s] = IF s = {} THEN 0 ELSE f[Pick(s)] + g[s \ {Pick(s)}]
           Upto(n) == \E g \in [SUBSET S -> Nat] :
                         \A s \in SUBSET S : Cardinality(s) <= n => Eq(g, s)
           A == {n \in Nat : Upto(n)}
<1>0. IsFiniteSet(S) /\ \A x \in S : f[x] \in Nat
  BY DEF Summable
<1>1. 0 \in A
  <2> DEFINE z == [s \in SUBSET S |-> 0]
  <2>1. z \in [SUBSET S -> Nat]
    OBVIOUS
  <2>2. ASSUME NEW s \in SUBSET S, Cardinality(s) <= 0 PROVE Eq(z, s)
    <3>1. s = {}
      BY <1>0, <2>2, SmallerSubset
    <3> QED
      BY <3>1
  <2>3. Upto(0)
    <3> HIDE DEF z, Eq
    <3> QED BY <2>1, <2>2
  <2> HIDE DEF Upto
  <2> QED
    BY <2>3
<1>2. ASSUME NEW n \in A PROVE n + 1 \in A
  <2>1. PICK g \in [SUBSET S -> Nat] :
               \A s \in SUBSET S : Cardinality(s) <= n => Eq(g, s)
    OBVIOUS
  <2> DEFINE h == [s \in SUBSET S |-> IF s = {} THEN 0
                                      ELSE f[Pick(s)] + g[s \ {Pick(s)}]]
  <2>2. ASSUME NEW s \in SUBSET S, s # {}
        PROVE  Pick(s) \in s /\ f[Pick(s)] \in Nat /\ s \ {Pick(s)} \in SUBSET S
               /\ g[s \ {Pick(s)}] \in Nat
    BY <1>0, <2>2, PickIn
  <2>3. h \in [SUBSET S -> Nat]
    BY <2>2
  <2>4. ASSUME NEW s \in SUBSET S, Cardinality(s) <= n + 1 PROVE Eq(h, s)
    <3>1. CASE s = {}
      BY <3>1
    <3>2. CASE s # {}
      <4> DEFINE t == s \ {Pick(s)}
      <4>1. t \in SUBSET S /\ Pick(s) \in s
        BY <2>2, <3>2
      <4>2. IsFiniteSet(s)
        BY <1>0, SmallerSubset
      <4>3. Cardinality(t) <= n
        <5>1. Cardinality(s) = Cardinality(t) + 1 /\ Cardinality(t) \in Nat
          BY <4>1, <4>2, OneLess
        <5> QED
          BY <5>1, <2>4
      <4>4. h[t] = g[t]
        <5>1. Eq(g, t)
          BY <2>1, <4>1, <4>3
        <5>2. h[t] = IF t = {} THEN 0 ELSE f[Pick(t)] + g[t \ {Pick(t)}]
          BY <4>1
        <5> QED
          BY <5>1, <5>2
      <4>5. h[s] = f[Pick(s)] + g[t]
        BY <3>2
      <4> QED
        BY <3>2, <4>4, <4>5
    <3> QED
      BY <3>1, <3>2
  <2>5. Upto(n + 1)
    <3> HIDE DEF h, Eq
    <3> QED BY <2>3, <2>4
  <2> HIDE DEF Upto
  <2> QED
    BY <2>5
<1>3. A = Nat
  <2> HIDE DEF A
  <2>1. A \in SUBSET Nat
    BY DEF A
  <2> QED
    BY <1>1, <1>2, <2>1, NatSetInduction
<1>4. PICK g \in [SUBSET S -> Nat] :
             \A s \in SUBSET S : Cardinality(s) <= Cardinality(S) => Eq(g, s)
  <2>1. Cardinality(S) \in A
    BY <1>0, <1>3, FS_CardinalityType
  <2> QED
    BY <2>1
<1>5. \A s \in SUBSET S : Eq(g, s)
  BY <1>0, <1>4, SmallerSubset
<1>6. SumOver(f, S, g)
  BY <1>5, <1>4 DEF SumOver
<1> QED
  BY <1>4, <1>6

\* Two such functions agree on every set on which their summands agree.
LEMMA SumOverAgree ==
  ASSUME NEW f, NEW S, NEW g, SumOver(f, S, g),
         NEW e, NEW R, NEW h, SumOver(e, R, h),
         NEW T, T \subseteq S, T \subseteq R, IsFiniteSet(T), \A x \in T : f[x] = e[x]
  PROVE  g[T] = h[T]
<1> DEFINE Same(n) == \A s \in SUBSET T : Cardinality(s) <= n => g[s] = h[s]
           A == {n \in Nat : Same(n)}
<1>0. ASSUME NEW s \in SUBSET T
      PROVE  /\ g[s] = IF s = {} THEN 0 ELSE f[Pick(s)] + g[s \ {Pick(s)}]
             /\ h[s] = IF s = {} THEN 0 ELSE e[Pick(s)] + h[s \ {Pick(s)}]
  <2>1. s \in SUBSET S /\ s \in SUBSET R
    OBVIOUS
  <2>2. g[s] = IF s = {} THEN 0 ELSE f[Pick(s)] + g[s \ {Pick(s)}]
    BY <2>1 DEF SumOver
  <2>3. h[s] = IF s = {} THEN 0 ELSE e[Pick(s)] + h[s \ {Pick(s)}]
    BY <2>1 DEF SumOver
  <2> QED
    BY <2>2, <2>3
<1>1. 0 \in A
  <2>1. ASSUME NEW s \in SUBSET T, Cardinality(s) <= 0 PROVE g[s] = h[s]
    <3>1. s = {}
      BY <2>1, SmallerSubset
    <3> QED
      BY <3>1, <1>0
  <2> QED
    BY <2>1
<1>2. ASSUME NEW n \in A PROVE n + 1 \in A
  <2>1. ASSUME NEW s \in SUBSET T, Cardinality(s) <= n + 1 PROVE g[s] = h[s]
    <3>1. CASE s = {}
      BY <3>1, <1>0
    <3>2. CASE s # {}
      <4>1. Pick(s) \in s /\ IsFiniteSet(s)
        BY <3>2, PickIn, SmallerSubset
      <4>2. Cardinality(s \ {Pick(s)}) <= n
        <5>1. Cardinality(s) = Cardinality(s \ {Pick(s)}) + 1
              /\ Cardinality(s \ {Pick(s)}) \in Nat
          BY <4>1, OneLess
        <5> QED
          BY <5>1, <2>1
      <4>3. g[s \ {Pick(s)}] = h[s \ {Pick(s)}]
        BY <4>2
      <4>4. f[Pick(s)] = e[Pick(s)]
        BY <4>1
      <4> QED
        BY <3>2, <4>3, <4>4, <1>0
    <3> QED
      BY <3>1, <3>2
  <2> HIDE DEF Same
  <2>2. Same(n + 1)
    BY <2>1 DEF Same
  <2> QED
    BY <2>2
<1>3. A = Nat
  <2> HIDE DEF A
  <2>1. A \in SUBSET Nat
    BY DEF A
  <2> QED
    BY <1>1, <1>2, <2>1, NatSetInduction
<1>4. Cardinality(T) \in A
  BY <1>3, FS_CardinalityType
<1>5. T \in SUBSET T /\ Cardinality(T) <= Cardinality(T)
  BY FS_CardinalityType
<1> QED
  BY <1>4, <1>5

-----------------------------------------------------------------------------
\* The sum over every part of a set is a value of one recursive function.
LEMMA SumSolved ==
  ASSUME NEW f, NEW S, Summable(f, S)
  PROVE  \E g \in [SUBSET S -> Nat] :
            SumOver(f, S, g) /\ \A T \in SUBSET S : SumFunctionOnSet(f, T) = g[T]
<1>1. PICK g : SumOver(f, S, g) /\ g \in [SUBSET S -> Nat]
  BY SumOverExists
<1>2. ASSUME NEW T \in SUBSET S PROVE SumFunctionOnSet(f, T) = g[T]
  <2> DEFINE G == CHOOSE h : SumOver(f, T, h)
  <2>1. IsFiniteSet(T) /\ Summable(f, T)
    BY SmallerSubset DEF Summable
  <2>2. SumOver(f, T, G)
    <3>1. \E h : SumOver(f, T, h)
      BY <2>1, SumOverExists
    <3> QED
      BY <3>1
  <2>3. SumFunctionOnSet(f, T) = G[T]
    BY DEF SumFunctionOnSet, FoldFunctionOnSet, MapThenFoldSet, SumOver, Pick
  <2>4. G[T] = g[T]
    <3> HIDE DEF G
    <3> QED BY <1>1, <2>1, <2>2, SumOverAgree
  <2> QED
    BY <2>3, <2>4
<1> QED
  BY <1>1, <1>2

\* A sum of numbers is a number.
LEMMA SumIsNat ==
  ASSUME NEW f, NEW S, Summable(f, S)
  PROVE  SumFunctionOnSet(f, S) \in Nat
<1>1. PICK g \in [SUBSET S -> Nat] :
             SumOver(f, S, g) /\ \A T \in SUBSET S : SumFunctionOnSet(f, T) = g[T]
  BY SumSolved
<1> QED
  BY <1>1

\* The sum over no element is 0.
LEMMA SumEmpty ==
  ASSUME NEW f
  PROVE  SumFunctionOnSet(f, {}) = 0
<1>1. Summable(f, {})
  BY FS_EmptySet DEF Summable
<1>2. PICK g \in [SUBSET {} -> Nat] :
             SumOver(f, {}, g) /\ \A T \in SUBSET {} : SumFunctionOnSet(f, T) = g[T]
  BY <1>1, SumSolved
<1>3. g[{}] = 0
  BY <1>2 DEF SumOver
<1> QED
  BY <1>2, <1>3

\* Only the values on the set count.
LEMMA SumSame ==
  ASSUME NEW f, NEW e, NEW S, Summable(f, S), \A x \in S : f[x] = e[x]
  PROVE  SumFunctionOnSet(f, S) = SumFunctionOnSet(e, S)
<1>1. Summable(e, S)
  BY DEF Summable
<1>2. PICK g \in [SUBSET S -> Nat] :
             SumOver(f, S, g) /\ \A T \in SUBSET S : SumFunctionOnSet(f, T) = g[T]
  BY SumSolved
<1>3. PICK h \in [SUBSET S -> Nat] :
             SumOver(e, S, h) /\ \A T \in SUBSET S : SumFunctionOnSet(e, T) = h[T]
  BY <1>1, SumSolved
<1>4. IsFiniteSet(S)
  BY DEF Summable
<1>5. g[S] = h[S]
  BY <1>2, <1>3, <1>4, SumOverAgree
<1> QED
  BY <1>2, <1>3, <1>5

\* Any element can be split off, not only the one CHOOSE picks.
LEMMA SumSplit ==
  ASSUME NEW f, NEW S, Summable(f, S), NEW e \in S
  PROVE  /\ SumFunctionOnSet(f, S) = f[e] + SumFunctionOnSet(f, S \ {e})
         /\ Summable(f, S \ {e})
         /\ SumFunctionOnSet(f, S \ {e}) \in Nat
<1> DEFINE Splits(T) == \A x \in T : SumFunctionOnSet(f, T) = f[x] + SumFunctionOnSet(f, T \ {x})
           Upto(n) == \A T \in SUBSET S : Cardinality(T) <= n => Splits(T)
           A == {n \in Nat : Upto(n)}
<1>0. IsFiniteSet(S) /\ \A x \in S : f[x] \in Nat
  BY DEF Summable
<1>1. PICK g \in [SUBSET S -> Nat] :
             SumOver(f, S, g) /\ \A T \in SUBSET S : SumFunctionOnSet(f, T) = g[T]
  BY SumSolved
<1>2. ASSUME NEW T \in SUBSET S, T # {}
      PROVE  /\ Pick(T) \in T
             /\ SumFunctionOnSet(f, T) = f[Pick(T)] + SumFunctionOnSet(f, T \ {Pick(T)})
  <2>1. Pick(T) \in T
    BY <1>2, PickIn
  <2>2. g[T] = f[Pick(T)] + g[T \ {Pick(T)}]
    BY <1>1, <1>2 DEF SumOver
  <2>3. T \ {Pick(T)} \in SUBSET S
    OBVIOUS
  <2> QED
    BY <1>1, <2>1, <2>2, <2>3
<1>3. 0 \in A
  <2>1. ASSUME NEW T \in SUBSET S, Cardinality(T) <= 0 PROVE Splits(T)
    <3>1. T = {}
      BY <1>0, <2>1, SmallerSubset
    <3> QED
      BY <3>1
  <2> QED
    BY <2>1
<1>4. ASSUME NEW n \in A PROVE n + 1 \in A
  <2>1. ASSUME NEW T \in SUBSET S, Cardinality(T) <= n + 1, NEW x \in T
        PROVE  SumFunctionOnSet(f, T) = f[x] + SumFunctionOnSet(f, T \ {x})
    <3> DEFINE p == Pick(T)
    <3>1. p \in T /\ SumFunctionOnSet(f, T) = f[p] + SumFunctionOnSet(f, T \ {p})
      BY <1>2
    <3>2. CASE x = p
      BY <3>1, <3>2
    <3>3. CASE x # p
      <4> HIDE DEF p
      <4>1. IsFiniteSet(T)
        BY <1>0, SmallerSubset
      <4>2. Cardinality(T \ {p}) <= n /\ Cardinality(T \ {x}) <= n
        <5>1. Cardinality(T) = Cardinality(T \ {p}) + 1 /\ Cardinality(T \ {p}) \in Nat
          BY <3>1, <4>1, OneLess
        <5>2. Cardinality(T) = Cardinality(T \ {x}) + 1 /\ Cardinality(T \ {x}) \in Nat
          BY <4>1, OneLess
        <5> QED
          BY <5>1, <5>2, <2>1
      <4>3. T \ {p} \in SUBSET S /\ T \ {x} \in SUBSET S
            /\ x \in T \ {p} /\ p \in T \ {x}
        BY <3>1, <3>3
      <4>4. PICK R \in SUBSET S : R = (T \ {p}) \ {x} /\ R = (T \ {x}) \ {p}
        OBVIOUS
      <4>5. SumFunctionOnSet(f, T \ {p}) = f[x] + SumFunctionOnSet(f, R)
        BY <4>2, <4>3, <4>4
      <4>6. SumFunctionOnSet(f, T \ {x}) = f[p] + SumFunctionOnSet(f, R)
        BY <4>2, <4>3, <4>4
      <4>7. SumFunctionOnSet(f, R) \in Nat
        BY <1>1
      <4>8. f[x] \in Nat /\ f[p] \in Nat
        BY <1>0, <3>1
      <4>9. SumFunctionOnSet(f, T) = f[p] + (f[x] + SumFunctionOnSet(f, R))
        BY <3>1, <4>5
      <4> QED
        BY <4>6, <4>7, <4>8, <4>9
    <3> QED
      BY <3>2, <3>3
  <2> HIDE DEF Upto
  <2>2. Upto(n + 1)
    BY <2>1 DEF Upto
  <2> QED
    BY <2>2
<1>5. A = Nat
  <2> HIDE DEF A
  <2>1. A \in SUBSET Nat
    BY DEF A
  <2> QED
    BY <1>3, <1>4, <2>1, NatSetInduction
<1>6. Cardinality(S) \in A
  BY <1>0, <1>5, FS_CardinalityType
<1>7. S \in SUBSET S /\ Cardinality(S) <= Cardinality(S)
  BY <1>0, FS_CardinalityType
<1>8. SumFunctionOnSet(f, S) = f[e] + SumFunctionOnSet(f, S \ {e})
  BY <1>6, <1>7
<1>9. Summable(f, S \ {e})
  BY <1>0, OneLess DEF Summable
<1> QED
  BY <1>8, <1>9, SumIsNat

\* One more element adds its value.
LEMMA SumAdd ==
  ASSUME NEW f, NEW S, NEW e, e \notin S, Summable(f, S), f[e] \in Nat
  PROVE  /\ SumFunctionOnSet(f, S \cup {e}) = SumFunctionOnSet(f, S) + f[e]
         /\ Summable(f, S \cup {e})
<1>1. Summable(f, S \cup {e})
  BY FS_AddElement DEF Summable
<1>2. (S \cup {e}) \ {e} = S
  OBVIOUS
<1>3. e \in S \cup {e}
  OBVIOUS
<1>4. SumFunctionOnSet(f, S \cup {e}) = f[e] + SumFunctionOnSet(f, S)
  BY <1>1, <1>2, <1>3, SumSplit
<1>5. SumFunctionOnSet(f, S) \in Nat
  BY SumIsNat
<1> QED
  BY <1>1, <1>4, <1>5

\* Two functions that differ at one element: their sums differ by as much.
LEMMA SumChange ==
  ASSUME NEW f, NEW h, NEW S, NEW e \in S, Summable(f, S), h[e] \in Nat,
         \A x \in S \ {e} : h[x] = f[x]
  PROVE  /\ Summable(h, S)
         /\ SumFunctionOnSet(h, S) + f[e] = SumFunctionOnSet(f, S) + h[e]
<1>1. Summable(h, S)
  BY DEF Summable
<1>2. SumFunctionOnSet(f, S) = f[e] + SumFunctionOnSet(f, S \ {e})
      /\ Summable(f, S \ {e}) /\ SumFunctionOnSet(f, S \ {e}) \in Nat
  BY SumSplit
<1>3. SumFunctionOnSet(h, S) = h[e] + SumFunctionOnSet(h, S \ {e})
  BY <1>1, SumSplit
<1>4. SumFunctionOnSet(f, S \ {e}) = SumFunctionOnSet(h, S \ {e})
  BY <1>2, SumSame
<1>5. f[e] \in Nat
  BY DEF Summable
<1> QED
  BY <1>1, <1>2, <1>3, <1>4, <1>5

\* Every summand at most m: the sum is at most m for each element.
LEMMA SumBound ==
  ASSUME NEW f, NEW S, Summable(f, S), NEW m \in Nat, \A x \in S : f[x] <= m
  PROVE  SumFunctionOnSet(f, S) <= Cardinality(S) * m
<1> DEFINE Upto(n) == \A T \in SUBSET S :
                         Cardinality(T) = n => SumFunctionOnSet(f, T) <= n * m
           A == {n \in Nat : Upto(n)}
<1>0. IsFiniteSet(S) /\ \A x \in S : f[x] \in Nat
  BY DEF Summable
<1>1. 0 \in A
  <2>1. ASSUME NEW T \in SUBSET S, Cardinality(T) = 0 PROVE SumFunctionOnSet(f, T) <= 0 * m
    <3>1. T = {}
      BY <1>0, <2>1, SmallerSubset
    <3> QED
      BY <3>1, SumEmpty
  <2> QED
    BY <2>1
<1>2. ASSUME NEW n \in A PROVE n + 1 \in A
  <2>1. ASSUME NEW T \in SUBSET S, Cardinality(T) = n + 1
        PROVE  SumFunctionOnSet(f, T) <= (n + 1) * m
    <3>1. T # {} /\ IsFiniteSet(T)
      BY <1>0, <2>1, SmallerSubset, FS_EmptySet
    <3>2. PICK x \in T : TRUE
      BY <3>1
    <3>3. Cardinality(T) = Cardinality(T \ {x}) + 1 /\ Cardinality(T \ {x}) \in Nat
      BY <3>1, OneLess
    <3>4. Cardinality(T \ {x}) = n /\ T \ {x} \in SUBSET S
      BY <3>3, <2>1
    <3>5. SumFunctionOnSet(f, T \ {x}) <= n * m
      BY <3>4
    <3>6. Summable(f, T)
      BY <3>1, <1>0 DEF Summable
    <3>7. SumFunctionOnSet(f, T) = f[x] + SumFunctionOnSet(f, T \ {x})
          /\ SumFunctionOnSet(f, T \ {x}) \in Nat
      BY <3>6, SumSplit
    <3>8. f[x] \in Nat /\ f[x] <= m
      BY <1>0
    <3>9. (n + 1) * m = n * m + m /\ n * m \in Nat
      OBVIOUS
    <3> QED
      BY <3>5, <3>7, <3>8, <3>9
  <2> HIDE DEF Upto
  <2>2. Upto(n + 1)
    BY <2>1 DEF Upto
  <2> QED
    BY <2>2
<1>3. A = Nat
  <2> HIDE DEF A
  <2>1. A \in SUBSET Nat
    BY DEF A
  <2> QED
    BY <1>1, <1>2, <2>1, NatSetInduction
<1>4. Cardinality(S) \in A
  BY <1>0, <1>3, FS_CardinalityType
<1> QED
  BY <1>4

\* Leaving elements out does not make a sum larger.
LEMMA SumOfPart ==
  ASSUME NEW f, NEW S, Summable(f, S), NEW T \in SUBSET S
  PROVE  Summable(f, T) /\ SumFunctionOnSet(f, T) <= SumFunctionOnSet(f, S)
<1> DEFINE Upto(n) == \A R \in SUBSET S :
                         (T \subseteq R /\ Cardinality(R) = n)
                           => SumFunctionOnSet(f, T) <= SumFunctionOnSet(f, R)
           A == {n \in Nat : Upto(n)}
<1>0. IsFiniteSet(S) /\ \A x \in S : f[x] \in Nat
  BY DEF Summable
<1>1. ASSUME NEW R \in SUBSET S
      PROVE  IsFiniteSet(R) /\ Summable(f, R) /\ SumFunctionOnSet(f, R) \in Nat
  <2>1. IsFiniteSet(R)
    BY <1>0, SmallerSubset
  <2>2. Summable(f, R)
    BY <1>0, <2>1 DEF Summable
  <2> QED
    BY <2>1, <2>2, SumIsNat
<1>2. 0 \in A
  <2>1. ASSUME NEW R \in SUBSET S, T \subseteq R, Cardinality(R) = 0
        PROVE  SumFunctionOnSet(f, T) <= SumFunctionOnSet(f, R)
    <3>1. R = {}
      BY <1>0, <2>1, SmallerSubset
    <3>2. T = {}
      BY <3>1, <2>1
    <3> QED
      BY <3>1, <3>2, SumEmpty
  <2> QED
    BY <2>1
<1>3. ASSUME NEW n \in A PROVE n + 1 \in A
  <2>1. ASSUME NEW R \in SUBSET S, T \subseteq R, Cardinality(R) = n + 1
        PROVE  SumFunctionOnSet(f, T) <= SumFunctionOnSet(f, R)
    <3>1. CASE T = R
      BY <3>1, <1>1
    <3>2. CASE T # R
      <4>1. PICK x \in R : x \notin T
        BY <3>2, <2>1
      <4>2. Cardinality(R) = Cardinality(R \ {x}) + 1 /\ Cardinality(R \ {x}) \in Nat
        BY <1>1, OneLess
      <4>3. Cardinality(R \ {x}) = n /\ R \ {x} \in SUBSET S /\ T \subseteq R \ {x}
        BY <4>1, <4>2, <2>1
      <4>4. SumFunctionOnSet(f, T) <= SumFunctionOnSet(f, R \ {x})
        BY <4>3
      <4>5. SumFunctionOnSet(f, R) = f[x] + SumFunctionOnSet(f, R \ {x})
            /\ SumFunctionOnSet(f, R \ {x}) \in Nat
        BY <1>1, SumSplit
      <4>6. f[x] \in Nat /\ SumFunctionOnSet(f, T) \in Nat
        BY <1>0, <1>1
      <4> QED
        BY <4>4, <4>5, <4>6
    <3> QED
      BY <3>1, <3>2
  <2> HIDE DEF Upto
  <2>2. Upto(n + 1)
    BY <2>1 DEF Upto
  <2> QED
    BY <2>2
<1>4. A = Nat
  <2> HIDE DEF A
  <2>1. A \in SUBSET Nat
    BY DEF A
  <2> QED
    BY <1>2, <1>3, <2>1, NatSetInduction
<1>5. Cardinality(S) \in A
  BY <1>0, <1>4, FS_CardinalityType
<1>6. SumFunctionOnSet(f, T) <= SumFunctionOnSet(f, S)
  BY <1>5
<1> QED
  BY <1>1, <1>6

\* Smaller summands give a smaller sum.
LEMMA SumLess ==
  ASSUME NEW f, NEW h, NEW S, Summable(f, S), Summable(h, S), \A x \in S : f[x] <= h[x]
  PROVE  SumFunctionOnSet(f, S) <= SumFunctionOnSet(h, S)
<1> DEFINE Upto(n) == \A T \in SUBSET S : Cardinality(T) = n
                         => SumFunctionOnSet(f, T) <= SumFunctionOnSet(h, T)
           A == {n \in Nat : Upto(n)}
<1>0. IsFiniteSet(S) /\ (\A x \in S : f[x] \in Nat) /\ (\A x \in S : h[x] \in Nat)
  BY DEF Summable
<1>1. 0 \in A
  <2>1. ASSUME NEW T \in SUBSET S, Cardinality(T) = 0
        PROVE  SumFunctionOnSet(f, T) <= SumFunctionOnSet(h, T)
    <3>1. T = {}
      BY <1>0, <2>1, SmallerSubset
    <3>2. SumFunctionOnSet(f, {}) = 0 /\ SumFunctionOnSet(h, {}) = 0
      BY SumEmpty
    <3> QED
      BY <3>1, <3>2
  <2> QED
    BY <2>1
<1>2. ASSUME NEW n \in A PROVE n + 1 \in A
  <2>1. ASSUME NEW T \in SUBSET S, Cardinality(T) = n + 1
        PROVE  SumFunctionOnSet(f, T) <= SumFunctionOnSet(h, T)
    <3>1. T # {} /\ IsFiniteSet(T)
      BY <1>0, <2>1, SmallerSubset, FS_EmptySet
    <3>2. PICK x \in T : TRUE
      BY <3>1
    <3>3. Cardinality(T) = Cardinality(T \ {x}) + 1 /\ Cardinality(T \ {x}) \in Nat
      BY <3>1, OneLess
    <3>4. Cardinality(T \ {x}) = n /\ T \ {x} \in SUBSET S
      BY <3>3, <2>1
    <3>5. SumFunctionOnSet(f, T \ {x}) <= SumFunctionOnSet(h, T \ {x})
      BY <3>4
    <3>6. Summable(f, T) /\ Summable(h, T)
      BY <3>1, <1>0 DEF Summable
    <3>7. /\ SumFunctionOnSet(f, T) = f[x] + SumFunctionOnSet(f, T \ {x})
          /\ SumFunctionOnSet(f, T \ {x}) \in Nat
      BY <3>6, SumSplit
    <3>8. /\ SumFunctionOnSet(h, T) = h[x] + SumFunctionOnSet(h, T \ {x})
          /\ SumFunctionOnSet(h, T \ {x}) \in Nat
      BY <3>6, SumSplit
    <3>9. f[x] \in Nat /\ h[x] \in Nat /\ f[x] <= h[x]
      BY <1>0
    <3> QED
      BY <3>5, <3>7, <3>8, <3>9
  <2> HIDE DEF Upto
  <2>2. Upto(n + 1)
    BY <2>1 DEF Upto
  <2> QED
    BY <2>2
<1>3. A = Nat
  <2> HIDE DEF A
  <2>1. A \in SUBSET Nat
    BY DEF A
  <2> QED
    BY <1>1, <1>2, <2>1, NatSetInduction
<1>4. Cardinality(S) \in A
  BY <1>0, <1>3, FS_CardinalityType
<1> QED
  BY <1>4

\* One of finitely many numbers is the largest.
LEMMA LargestValue ==
  ASSUME NEW f, NEW S, Summable(f, S), S # {}
  PROVE  \E x \in S : \A y \in S : f[y] <= f[x]
<1> DEFINE B == {b \in Nat : \A y \in S : f[y] <= b}
<1>0. \A x \in S : f[x] \in Nat
  BY DEF Summable
<1>1. SumFunctionOnSet(f, S) \in B
  <2>1. SumFunctionOnSet(f, S) \in Nat
    BY SumIsNat
  <2>2. ASSUME NEW y \in S PROVE f[y] <= SumFunctionOnSet(f, S)
    <3>1. SumFunctionOnSet(f, S) = f[y] + SumFunctionOnSet(f, S \ {y})
          /\ SumFunctionOnSet(f, S \ {y}) \in Nat
      BY SumSplit
    <3> QED
      BY <3>1, <1>0
  <2> QED
    BY <2>1, <2>2
<1>2. PICK b \in B : \A c \in B : b <= c
  <2> HIDE DEF B
  <2>1. B \in SUBSET Nat
    BY DEF B
  <2> QED
    BY <1>1, <2>1, LeastElement
<1>3. \E x \in S : f[x] = b
  <2> SUFFICES ASSUME \A x \in S : f[x] # b PROVE FALSE
    OBVIOUS
  <2>1. \A x \in S : f[x] < b
    BY <1>0
  <2>2. b - 1 \in B
    BY <2>1, <1>0
  <2> QED
    BY <2>2, <1>2
<1> QED
  BY <1>3
=============================================================================
