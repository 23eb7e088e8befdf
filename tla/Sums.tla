-------------------------------- MODULE Sums --------------------------------
EXTENDS Functions, FiniteSetTheorems, TLAPS
(***************************************************************************)
(* What SumFunctionOnSet, the sum the orders, the credit and the limiter's  *)
(* counters are compared by, computes over a finite set: it does not depend *)
(* on the order in which the elements are added.  The library states        *)
(* induction over finite sets with an operator parameter; the proofs below  *)
(* take a smallest counterexample instead.                                  *)
(***************************************************************************)

Pick(s) == CHOOSE x \in s : TRUE

IsSummation(f, S, g) ==
  g = [s \in SUBSET S |-> IF s = {} THEN 0 ELSE f[Pick(s)] + g[s \ {Pick(s)}]]

Summation(f, S) == CHOOSE g : IsSummation(f, S, g)

\* The fold of the community modules is the value of a summation at the set.
LEMMA SumUnfolds ==
  ASSUME NEW f, NEW S
  PROVE  SumFunctionOnSet(f, S) = Summation(f, S)[S]
BY DEF SumFunctionOnSet, FoldFunctionOnSet, MapThenFoldSet, IsSummation, Pick, Summation

\* The chosen element of a set that has one.
LEMMA PickIn ==
  ASSUME NEW s, s # {}
  PROVE  Pick(s) \in s
BY DEF Pick

\* A set of subsets of a finite set has a member that no other is inside of.
LEMMA SmallestSubset ==
  ASSUME NEW S, IsFiniteSet(S), NEW T, T \subseteq SUBSET S, T # {}
  PROVE  \E x \in T : \A y \in T : y \subseteq x => y = x
<1>1. IsWellFoundedOn(StrictSubsetOrdering(S), SUBSET S)
  BY FS_StrictSubsetOrderingWellFounded, FS_FiniteSubsetsOfFinite
<1>2. PICK x \in T : \A y \in T : ~ (<<y, x>> \in StrictSubsetOrdering(S))
  BY <1>1, WFMin
<1>3. ASSUME NEW y \in T, y \subseteq x PROVE y = x
  BY <1>2, <1>3 DEF StrictSubsetOrdering
<1> QED BY <1>3

\* Two summations of the same function agree where both are defined.
LEMMA SummationsAgree ==
  ASSUME NEW f, NEW S, NEW R, IsFiniteSet(S), NEW g, NEW h,
         IsSummation(f, S, g), IsSummation(f, R, h),
         NEW s \in SUBSET S, s \in SUBSET R
  PROVE  g[s] = h[s]
<1> DEFINE T == {t \in SUBSET S : t \in SUBSET R /\ g[t] # h[t]}
<1>1. SUFFICES ASSUME T # {} PROVE FALSE
  OBVIOUS
<1>2. PICK t \in T : \A y \in T : y \subseteq t => y = t
  <2>1. T \subseteq SUBSET S OBVIOUS
  <2> HIDE DEF T
  <2> QED BY <1>1, <2>1, SmallestSubset
<1>3. g[t] = IF t = {} THEN 0 ELSE f[Pick(t)] + g[t \ {Pick(t)}]
  BY DEF IsSummation
<1>4. h[t] = IF t = {} THEN 0 ELSE f[Pick(t)] + h[t \ {Pick(t)}]
  BY DEF IsSummation
<1>5. t # {}
  BY <1>3, <1>4
<1>6. t \ {Pick(t)} \notin T
  BY <1>2, <1>5, PickIn
<1>7. g[t \ {Pick(t)}] = h[t \ {Pick(t)}]
  BY <1>6
<1> QED BY <1>3, <1>4, <1>5, <1>7

\* Every finite set has a summation of a function.
LEMMA SummationExists ==
  ASSUME NEW f, NEW S, IsFiniteSet(S)
  PROVE  IsSummation(f, S, Summation(f, S))
<1> DEFINE T == {t \in SUBSET S : ~ \E g : IsSummation(f, t, g)}
<1>1. SUFFICES ASSUME T # {} PROVE FALSE
  <2>1. S \notin T => \E g : IsSummation(f, S, g)
    OBVIOUS
  <2> QED BY <1>1, <2>1 DEF Summation
<1>2. PICK t \in T : \A y \in T : y \subseteq t => y = t
  <2>1. T \subseteq SUBSET S OBVIOUS
  <2> HIDE DEF T
  <2> QED BY <1>1, <2>1, SmallestSubset
<1>3. ASSUME NEW u \in SUBSET t, u # t PROVE IsSummation(f, u, Summation(f, u))
  <2>1. \E g : IsSummation(f, u, g)
    BY <1>2, <1>3
  <2> QED BY <2>1 DEF Summation
<1> DEFINE V(u) == Summation(f, u)[u]
           g == [s \in SUBSET t |-> IF s = {} THEN 0 ELSE f[Pick(s)] + V(s \ {Pick(s)})]
<1>4. ASSUME NEW u \in SUBSET t, u # t PROVE g[u] = V(u)
  <2>1. Summation(f, u)[u] = IF u = {} THEN 0
          ELSE f[Pick(u)] + Summation(f, u)[u \ {Pick(u)}]
    BY <1>3, <1>4 DEF IsSummation
  <2>2. CASE u = {}
    BY <2>1, <2>2
  <2>3. CASE u # {}
    <3> DEFINE w == u \ {Pick(u)}
    <3>1. w \in SUBSET t /\ w # t /\ w \in SUBSET u
      BY <2>3, PickIn, <1>4
    <3>2. IsFiniteSet(u)
      BY <1>4, <1>2, FS_Subset
    <3>3. Summation(f, u)[w] = Summation(f, w)[w]
      <4>1. IsSummation(f, u, Summation(f, u)) BY <1>3, <1>4
      <4>2. IsSummation(f, w, Summation(f, w)) BY <1>3, <3>1
      <4> QED BY <4>1, <4>2, <3>1, <3>2, SummationsAgree
    <3> QED BY <2>1, <2>3, <3>3
  <2> QED BY <2>2, <2>3
<1>5. ASSUME NEW s \in SUBSET t, s # {} PROVE g[s \ {Pick(s)}] = V(s \ {Pick(s)})
  <2>1. s \ {Pick(s)} \in SUBSET t /\ s \ {Pick(s)} # t
    BY <1>5, PickIn
  <2> HIDE DEF g, V
  <2> QED BY <2>1, <1>4
<1>6. IsSummation(f, t, g)
  <2>1. g = [s \in SUBSET t |-> IF s = {} THEN 0 ELSE f[Pick(s)] + g[s \ {Pick(s)}]]
    BY <1>5
  <2> HIDE DEF g
  <2> QED BY <2>1 DEF IsSummation
<1> HIDE DEF g
<1> QED BY <1>6, <1>2

\* The sum over no element.
THEOREM SumEmpty ==
  ASSUME NEW f
  PROVE  SumFunctionOnSet(f, {}) = 0
<1>1. IsSummation(f, {}, Summation(f, {}))
  BY SummationExists, FS_EmptySet
<1>2. Summation(f, {})[{}] = 0
  BY <1>1 DEF IsSummation
<1> QED BY <1>2, SumUnfolds

\* The chosen element taken apart.
LEMMA SumPick ==
  ASSUME NEW f, NEW S, IsFiniteSet(S), S # {}
  PROVE  SumFunctionOnSet(f, S) = f[Pick(S)] + SumFunctionOnSet(f, S \ {Pick(S)})
<1> DEFINE R == S \ {Pick(S)}
<1>1. IsFiniteSet(R) /\ R \in SUBSET S
  BY FS_Subset
<1>2. IsSummation(f, S, Summation(f, S)) /\ IsSummation(f, R, Summation(f, R))
  BY <1>1, SummationExists
<1>3. Summation(f, S)[S] = f[Pick(S)] + Summation(f, S)[R]
  BY <1>2 DEF IsSummation
<1>4. Summation(f, S)[R] = Summation(f, R)[R]
  <2> HIDE DEF R
  <2> QED BY <1>1, <1>2, SummationsAgree
<1> QED BY <1>3, <1>4, SumUnfolds

\* A sum of integers is an integer.
LEMMA SumInt ==
  ASSUME NEW f, NEW S, IsFiniteSet(S), \A x \in S : f[x] \in Int
  PROVE  SumFunctionOnSet(f, S) \in Int
<1> DEFINE T == {t \in SUBSET S : SumFunctionOnSet(f, t) \notin Int}
<1>1. SUFFICES ASSUME T # {} PROVE FALSE
  OBVIOUS
<1>2. PICK t \in T : \A y \in T : y \subseteq t => y = t
  <2>1. T \subseteq SUBSET S OBVIOUS
  <2> HIDE DEF T
  <2> QED BY <1>1, <2>1, SmallestSubset
<1>3. t # {} /\ IsFiniteSet(t)
  <2>1. SumFunctionOnSet(f, {}) \in Int
    BY SumEmpty
  <2> QED BY <1>2, <2>1, FS_Subset
<1>4. Pick(t) \in t /\ t \subseteq S
  BY <1>2, <1>3, PickIn
<1>5. SumFunctionOnSet(f, t \ {Pick(t)}) \in Int /\ f[Pick(t)] \in Int
  <2>1. t \ {Pick(t)} \notin T
    BY <1>2, <1>4
  <2> QED BY <1>4, <2>1
<1>6. SumFunctionOnSet(f, t) = f[Pick(t)] + SumFunctionOnSet(f, t \ {Pick(t)})
  BY <1>3, SumPick
<1>7. SumFunctionOnSet(f, t) \in Int
  BY <1>5, <1>6
<1> QED BY <1>2, <1>7

\* Any element can be taken apart: the order of a sum does not matter.
THEOREM SumRemove ==
  ASSUME NEW f, NEW S, IsFiniteSet(S), \A y \in S : f[y] \in Int, NEW x \in S
  PROVE  SumFunctionOnSet(f, S) = f[x] + SumFunctionOnSet(f, S \ {x})
<1> DEFINE V(t) == SumFunctionOnSet(f, t)
           T == {t \in SUBSET S : \E y \in t : V(t) # f[y] + V(t \ {y})}
<1>1. SUFFICES ASSUME T # {} PROVE FALSE
  OBVIOUS
<1>2. PICK t \in T : \A y \in T : y \subseteq t => y = t
  <2>1. T \subseteq SUBSET S OBVIOUS
  <2> HIDE DEF T
  <2> QED BY <1>1, <2>1, SmallestSubset
<1>3. PICK y \in t : V(t) # f[y] + V(t \ {y})
  BY <1>2
<1> DEFINE p == Pick(t)
           u == t \ {y}
           w == t \ {p}
<1>4. p \in t /\ IsFiniteSet(t) /\ t \subseteq S /\ f[p] \in Int /\ f[y] \in Int
  BY <1>2, <1>3, PickIn, FS_Subset
<1>5. V(t) = f[p] + V(w)
  BY <1>3, <1>4, SumPick
<1>6. p # y
  BY <1>3, <1>5
<1>7. u \notin T /\ w \notin T /\ u \in SUBSET S /\ w \in SUBSET S
  BY <1>2, <1>3, <1>4
<1>8. V(u) = f[p] + V(u \ {p})
  <2>1. p \in u BY <1>4, <1>6
  <2> QED BY <1>7, <2>1
<1>9. V(w) = f[y] + V(w \ {y})
  <2>1. y \in w BY <1>3, <1>6
  <2> QED BY <1>7, <2>1
<1>10. u \ {p} = w \ {y}
  OBVIOUS
<1>11. V(w \ {y}) \in Int
  <2>1. IsFiniteSet(w \ {y}) /\ \A z \in w \ {y} : f[z] \in Int
    BY <1>4, FS_Subset
  <2> QED BY <2>1, SumInt
<1>12. V(t) = f[y] + V(u)
  <2> HIDE DEF V, p, u, w
  <2>1. V(u) = f[p] + V(w \ {y}) BY <1>8, <1>10
  <2>2. V(t) = f[p] + (f[y] + V(w \ {y})) BY <1>5, <1>9
  <2> QED BY <1>4, <1>11, <2>1, <2>2
<1> QED BY <1>3, <1>12

\* One element more.
THEOREM SumInsert ==
  ASSUME NEW f, NEW S, IsFiniteSet(S), NEW x, x \notin S,
         \A y \in S \cup {x} : f[y] \in Int
  PROVE  SumFunctionOnSet(f, S \cup {x}) = f[x] + SumFunctionOnSet(f, S)
<1>1. IsFiniteSet(S \cup {x}) /\ x \in S \cup {x} /\ (S \cup {x}) \ {x} = S
  BY FS_AddElement
<1> QED BY <1>1, SumRemove

\* The sum looks at the function on the set only.
THEOREM SumSame ==
  ASSUME NEW f, NEW g, NEW S, IsFiniteSet(S), \A x \in S : f[x] = g[x]
  PROVE  SumFunctionOnSet(f, S) = SumFunctionOnSet(g, S)
<1> DEFINE T == {t \in SUBSET S : SumFunctionOnSet(f, t) # SumFunctionOnSet(g, t)}
<1>1. SUFFICES ASSUME T # {} PROVE FALSE
  OBVIOUS
<1>2. PICK t \in T : \A y \in T : y \subseteq t => y = t
  <2>1. T \subseteq SUBSET S OBVIOUS
  <2> HIDE DEF T
  <2> QED BY <1>1, <2>1, SmallestSubset
<1>3. t # {} /\ IsFiniteSet(t)
  BY <1>2, SumEmpty, FS_Subset
<1>4. t \ {Pick(t)} \notin T /\ Pick(t) \in t
  BY <1>2, <1>3, PickIn
<1>5. SumFunctionOnSet(f, t \ {Pick(t)}) = SumFunctionOnSet(g, t \ {Pick(t)})
  BY <1>4
<1>6. SumFunctionOnSet(f, t) = SumFunctionOnSet(g, t)
  BY <1>3, <1>4, <1>5, SumPick
<1> QED BY <1>2, <1>6

\* The sum of naturals is a natural, and grows with the set.
THEOREM SumNat ==
  ASSUME NEW f, NEW S, IsFiniteSet(S), \A x \in S : f[x] \in Nat
  PROVE  /\ SumFunctionOnSet(f, S) \in Nat
         /\ \A x \in S : f[x] <= SumFunctionOnSet(f, S)
<1> DEFINE T == {t \in SUBSET S : SumFunctionOnSet(f, t) \notin Nat}
<1>1. ASSUME T # {} PROVE FALSE
  <2>1. PICK t \in T : \A y \in T : y \subseteq t => y = t
    <3>1. T \subseteq SUBSET S OBVIOUS
    <3> HIDE DEF T
    <3> QED BY <1>1, <3>1, SmallestSubset
  <2>2. t # {} /\ IsFiniteSet(t)
    <3>1. SumFunctionOnSet(f, {}) \in Nat
      BY SumEmpty
    <3> QED BY <2>1, <3>1, FS_Subset
  <2>3. t \ {Pick(t)} \notin T /\ Pick(t) \in t /\ t \subseteq S
    <3>1. Pick(t) \in t /\ t \subseteq S
      BY <2>1, <2>2, PickIn
    <3> QED BY <2>1, <3>1
  <2>4. SumFunctionOnSet(f, t \ {Pick(t)}) \in Nat /\ f[Pick(t)] \in Nat
    BY <2>3
  <2>5. SumFunctionOnSet(f, t) = f[Pick(t)] + SumFunctionOnSet(f, t \ {Pick(t)})
    BY <2>2, SumPick
  <2> QED BY <2>1, <2>4, <2>5
<1>2. \A t \in SUBSET S : SumFunctionOnSet(f, t) \in Nat
  BY <1>1
<1>3. ASSUME NEW x \in S PROVE f[x] <= SumFunctionOnSet(f, S)
  <2>1. SumFunctionOnSet(f, S) = f[x] + SumFunctionOnSet(f, S \ {x})
    BY SumRemove
  <2>2. SumFunctionOnSet(f, S \ {x}) \in Nat /\ f[x] \in Nat
    BY <1>2
  <2> QED BY <2>1, <2>2
<1> QED BY <1>2, <1>3

\* A sum of naturals grows with the set.
THEOREM SumSubset ==
  ASSUME NEW f, NEW S, IsFiniteSet(S), \A x \in S : f[x] \in Nat, NEW R \in SUBSET S
  PROVE  SumFunctionOnSet(f, R) <= SumFunctionOnSet(f, S)
<1> DEFINE T == {t \in SUBSET S : R \subseteq t /\ ~(SumFunctionOnSet(f, R) <= SumFunctionOnSet(f, t))}
<1>1. SUFFICES ASSUME T # {} PROVE FALSE
  OBVIOUS
<1>2. PICK t \in T : \A y \in T : y \subseteq t => y = t
  <2>1. T \subseteq SUBSET S OBVIOUS
  <2> HIDE DEF T
  <2> QED BY <1>1, <2>1, SmallestSubset
<1>3. /\ IsFiniteSet(t) /\ IsFiniteSet(R) /\ t \subseteq S /\ R \subseteq t
      /\ ~(SumFunctionOnSet(f, R) <= SumFunctionOnSet(f, t))
  BY <1>2, FS_Subset
<1>4. SumFunctionOnSet(f, R) \in Nat
  BY <1>3, SumNat
<1>5. R # t
  BY <1>3, <1>4
<1>6. PICK x \in t : x \notin R
  BY <1>3, <1>5
<1>7. SumFunctionOnSet(f, R) <= SumFunctionOnSet(f, t \ {x})
  <2>1. t \ {x} \notin T
    BY <1>2, <1>6
  <2> QED BY <1>3, <1>6, <2>1
<1>8. SumFunctionOnSet(f, t) = f[x] + SumFunctionOnSet(f, t \ {x})
  BY <1>3, <1>6, SumRemove
<1>9. SumFunctionOnSet(f, t \ {x}) \in Nat /\ f[x] \in Nat
  <2>1. IsFiniteSet(t \ {x}) /\ \A y \in t \ {x} : f[y] \in Nat
    BY <1>3, FS_Subset
  <2> QED BY <1>3, <1>6, <2>1, SumNat
<1> QED BY <1>3, <1>4, <1>7, <1>8, <1>9

\* A set that gains at most one element adds at most its value.
THEOREM SumAtMostOneMore ==
  ASSUME NEW f, NEW S, IsFiniteSet(S), NEW x, \A y \in S : f[y] \in Nat, f[x] \in Nat,
         NEW R, R \subseteq S \cup {x}
  PROVE  /\ SumFunctionOnSet(f, R) \in Nat
         /\ SumFunctionOnSet(f, R) <= SumFunctionOnSet(f, S) + f[x]
<1> DEFINE U == S \cup {x}
<1>1. IsFiniteSet(U) /\ IsFiniteSet(R)
  BY FS_AddElement, FS_Subset
<1>2. /\ SumFunctionOnSet(f, R) \in Nat /\ SumFunctionOnSet(f, S) \in Nat
      /\ SumFunctionOnSet(f, U) \in Nat
  BY <1>1, SumNat
<1>3. SumFunctionOnSet(f, R) <= SumFunctionOnSet(f, U)
  BY <1>1, SumSubset
<1>4. SumFunctionOnSet(f, U) <= SumFunctionOnSet(f, S) + f[x]
  <2>1. CASE x \in S
    <3>1. U = S BY <2>1
    <3>2. SumFunctionOnSet(f, U) = SumFunctionOnSet(f, S) BY <3>1
    <3> HIDE DEF U
    <3> QED BY <1>2, <3>2
  <2>2. CASE x \notin S
    <3>1. SumFunctionOnSet(f, U) = f[x] + SumFunctionOnSet(f, S)
      BY <2>2, SumInsert
    <3> QED BY <1>2, <3>1
  <2> QED BY <2>1, <2>2
<1> HIDE DEF U
<1> QED BY <1>2, <1>3, <1>4

\* The sum of zeros.
THEOREM SumZero ==
  ASSUME NEW f, NEW S, IsFiniteSet(S), \A x \in S : f[x] = 0
  PROVE  SumFunctionOnSet(f, S) = 0
<1> DEFINE T == {t \in SUBSET S : SumFunctionOnSet(f, t) # 0}
<1>1. SUFFICES ASSUME T # {} PROVE FALSE
  OBVIOUS
<1>2. PICK t \in T : \A y \in T : y \subseteq t => y = t
  <2>1. T \subseteq SUBSET S OBVIOUS
  <2> HIDE DEF T
  <2> QED BY <1>1, <2>1, SmallestSubset
<1>3. t # {} /\ IsFiniteSet(t) /\ t \subseteq S
  BY <1>2, SumEmpty, FS_Subset
<1>4. Pick(t) \in t
  BY <1>3, PickIn
<1>5. SumFunctionOnSet(f, t \ {Pick(t)}) = 0 /\ f[Pick(t)] = 0
  <2>1. t \ {Pick(t)} \notin T
    BY <1>2, <1>4
  <2> QED BY <1>3, <1>4, <2>1
<1>6. SumFunctionOnSet(f, t) = 0
  BY <1>3, <1>5, SumPick
<1> QED BY <1>2, <1>6

\* The sum of ones is the number of elements.
THEOREM SumOnes ==
  ASSUME NEW f, NEW S, IsFiniteSet(S), \A x \in S : f[x] = 1
  PROVE  SumFunctionOnSet(f, S) = Cardinality(S)
<1> DEFINE T == {t \in SUBSET S : SumFunctionOnSet(f, t) # Cardinality(t)}
<1>1. SUFFICES ASSUME T # {} PROVE FALSE
  OBVIOUS
<1>2. PICK t \in T : \A y \in T : y \subseteq t => y = t
  <2>1. T \subseteq SUBSET S OBVIOUS
  <2> HIDE DEF T
  <2> QED BY <1>1, <2>1, SmallestSubset
<1>3. t # {} /\ IsFiniteSet(t) /\ t \subseteq S
  <2>1. SumFunctionOnSet(f, {}) = Cardinality({})
    BY SumEmpty, FS_EmptySet
  <2> QED BY <1>2, <2>1, FS_Subset
<1>4. Pick(t) \in t
  BY <1>3, PickIn
<1> DEFINE u == t \ {Pick(t)}
<1>5. SumFunctionOnSet(f, u) = Cardinality(u) /\ f[Pick(t)] = 1
  <2>1. u \notin T
    BY <1>2, <1>4
  <2> QED BY <1>3, <1>4, <2>1
<1>6. IsFiniteSet(u) /\ Cardinality(u) = Cardinality(t) - 1
  BY <1>3, <1>4, FS_RemoveElement
<1>7. SumFunctionOnSet(f, t) = f[Pick(t)] + SumFunctionOnSet(f, u)
  BY <1>3, SumPick
<1>8. Cardinality(t) \in Nat
  BY <1>3, FS_CardinalityType
<1>9. SumFunctionOnSet(f, t) = Cardinality(t)
  <2> HIDE DEF u, T
  <2> QED BY <1>5, <1>6, <1>7, <1>8
<1> QED BY <1>2, <1>9

\* Another value at one element.
THEOREM SumUpdate ==
  ASSUME NEW f, NEW g, NEW S, IsFiniteSet(S), NEW x \in S,
         \A y \in S : f[y] \in Int /\ g[y] \in Int,
         \A y \in S \ {x} : f[y] = g[y]
  PROVE  SumFunctionOnSet(g, S) = SumFunctionOnSet(f, S) + g[x] - f[x]
<1>1. SumFunctionOnSet(f, S) = f[x] + SumFunctionOnSet(f, S \ {x})
  BY SumRemove
<1>2. SumFunctionOnSet(g, S) = g[x] + SumFunctionOnSet(g, S \ {x})
  BY SumRemove
<1>3. IsFiniteSet(S \ {x})
  BY FS_Subset
<1>4. SumFunctionOnSet(f, S \ {x}) = SumFunctionOnSet(g, S \ {x})
  BY <1>3, SumSame
<1>5. SumFunctionOnSet(f, S \ {x}) \in Int
  BY <1>3, SumInt
<1> QED BY <1>1, <1>2, <1>4, <1>5
=============================================================================
