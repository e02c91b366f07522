------------------------------ MODULE NatSets ------------------------------
(***************************************************************************)
(* Least and greatest numbers of sets of natural numbers; induction over   *)
(* numbers and finite sets; sums of the values of a function over a finite *)
(* set, as the operator SumFunctionOnSet of the community modules takes    *)
(* them: in the order in which CHOOSE picks the elements.  The recursion   *)
(* of its definition is shown to have a solution, and its value not to     *)
(* depend on the order.                                                    *)
(***************************************************************************)
EXTENDS Naturals, Functions, TLAPS, FiniteSetTheorems

\* A set of numbers has a least one, because the strict subsets of 0..x are a
\* well-founded order.
LEMMA HasLeast ==
    ASSUME NEW S \in SUBSET Nat, S # {}
    PROVE  \E m \in S : \A k \in S : m <= k
<1>1. PICK x \in S : TRUE
  OBVIOUS
<1> DEFINE U == 0..x
           UpTo(k) == S \cap (0..k)
           T == {UpTo(k) : k \in UpTo(x)}
<1>2. IsWellFoundedOn(StrictSubsetOrdering(U), SUBSET U)
  <2>1. IsFiniteSet(U)
    BY FS_Interval
  <2> QED
    BY <2>1, FS_FiniteSubsetsOfFinite, FS_StrictSubsetOrderingWellFounded
<1>3. T \subseteq SUBSET U /\ T # {}
  <2>1. x \in UpTo(x)
    OBVIOUS
  <2>2. \A k \in UpTo(x) : UpTo(k) \in SUBSET U
    OBVIOUS
  <2> QED
    BY <2>1, <2>2
<1>4. PICK M \in T : \A N \in T : <<N, M>> \notin StrictSubsetOrdering(U)
  <2> HIDE DEF T, U
  <2> QED
    BY <1>2, <1>3, WFMin
<1>5. PICK m \in UpTo(x) : M = UpTo(m)
  OBVIOUS
<1>6. ASSUME NEW k \in S, k < m PROVE FALSE
  <2>1. k \in UpTo(x) /\ UpTo(k) \in T
    BY <1>6
  <2>2. UpTo(k) \subseteq UpTo(m) /\ m \in UpTo(m) /\ m \notin UpTo(k)
    BY <1>6
  <2>3. <<UpTo(k), M>> \in StrictSubsetOrdering(U)
    BY <2>1, <2>2, <1>3, <1>5 DEF StrictSubsetOrdering
  <2> QED
    BY <2>1, <2>3, <1>4
<1> QED
  BY <1>6

\* A bounded set of numbers has a greatest one: its distance from the bound is
\* the least.
LEMMA HasGreatest ==
    ASSUME NEW n \in Nat, NEW S \in SUBSET (0..n), S # {}
    PROVE  \E m \in S : \A k \in S : k <= m
<1> DEFINE T == {n - k : k \in S}
<1>1. T \in SUBSET Nat /\ T # {}
  <2>1. \A k \in S : n - k \in Nat
    OBVIOUS
  <2>2. PICK k \in S : TRUE
    OBVIOUS
  <2>3. n - k \in T
    OBVIOUS
  <2> QED BY <2>1, <2>3
<1>2. PICK m \in T : \A k \in T : m <= k
  BY <1>1, HasLeast
<1>3. PICK x \in S : m = n - x
  OBVIOUS
<1>4. \A k \in S : n - k \in T
  OBVIOUS
<1>5. \A k \in S : k <= x
  BY <1>2, <1>3, <1>4
<1> QED BY <1>5

-----------------------------------------------------------------------------
(* Induction over numbers and over the subsets of a finite set, by sets of    *)
(* those for which a claim holds.                                             *)

\* A set of numbers that has 0, and the successor of each of its members, has all.
LEMMA NatSetInduction ==
    ASSUME NEW K, 0 \in K, \A n \in Nat : n \in K => n + 1 \in K
    PROVE  Nat \subseteq K
<1> SUFFICES ASSUME Nat \ K # {} PROVE FALSE
  OBVIOUS
<1>1. PICK m \in Nat \ K : \A k \in Nat \ K : m <= k
  BY HasLeast
<1>2. m # 0 /\ m - 1 \in Nat /\ m - 1 < m
  BY <1>1
<1>3. m - 1 \in K
  BY <1>1, <1>2
<1>4. (m - 1) + 1 \in K
  BY <1>2, <1>3
<1> QED BY <1>1, <1>4

\* A set of finite sets that has the empty set, and each of its members with
\* one more element of S, has all subsets of S.
LEMMA SubsetInduction ==
    ASSUME NEW S, IsFiniteSet(S), NEW K, {} \in K,
           \A T \in SUBSET S : T \in K => \A x \in S \ T : T \cup {x} \in K
    PROVE  SUBSET S \subseteq K
<1> SUFFICES ASSUME NEW U \in SUBSET S, U \notin K PROVE FALSE
  OBVIOUS
<1> DEFINE Bad == (SUBSET S) \ K
<1>1. IsWellFoundedOn(StrictSubsetOrdering(S), SUBSET S)
  BY FS_FiniteSubsetsOfFinite, FS_StrictSubsetOrderingWellFounded
<1>2. Bad \subseteq SUBSET S /\ Bad # {}
  OBVIOUS
<1>3. PICK T \in Bad : \A V \in Bad : <<V, T>> \notin StrictSubsetOrdering(S)
  <2> HIDE DEF Bad
  <2> QED BY <1>1, <1>2, WFMin
<1>4. PICK x \in T : TRUE
  BY <1>3
<1>5. T \ {x} \in SUBSET S /\ T \ {x} \in K
  <2>1. <<T \ {x}, T>> \in StrictSubsetOrdering(S)
    BY <1>3, <1>4 DEF StrictSubsetOrdering
  <2> QED BY <1>3, <2>1
<1>6. x \in S \ (T \ {x}) /\ (T \ {x}) \cup {x} = T
  BY <1>3, <1>4
<1> QED BY <1>3, <1>5, <1>6

-----------------------------------------------------------------------------
(* The recursion of a sum over a finite set.                                 *)

Chosen(T) == CHOOSE x \in T : TRUE

\* g sums f over the subsets of S.
SumsOver(f, S, g) ==
    g = [T \in SUBSET S |-> IF T = {} THEN 0 ELSE f[Chosen(T)] + g[T \ {Chosen(T)}]]

\* Two solutions agree wherever both are defined.
LEMMA SumsAgree ==
    ASSUME NEW S, IsFiniteSet(S), NEW f, NEW R, NEW g, SumsOver(f, S, g),
           R \subseteq S, NEW h, SumsOver(f, R, h)
    PROVE  \A T \in SUBSET R : g[T] = h[T]
<1> DEFINE Bad == {T \in SUBSET R : g[T] # h[T]}
<1> SUFFICES ASSUME Bad # {} PROVE FALSE
  OBVIOUS
<1>1. IsWellFoundedOn(StrictSubsetOrdering(S), SUBSET S)
  BY FS_FiniteSubsetsOfFinite, FS_StrictSubsetOrderingWellFounded
<1>2. Bad \subseteq SUBSET S
  OBVIOUS
<1>3. PICK T \in Bad : \A V \in Bad : <<V, T>> \notin StrictSubsetOrdering(S)
  <2> HIDE DEF Bad
  <2> QED BY <1>1, <1>2, WFMin
<1>4. T \in SUBSET R /\ T \in SUBSET S /\ g[T] # h[T]
  BY <1>3
<1>5. g[T] = IF T = {} THEN 0 ELSE f[Chosen(T)] + g[T \ {Chosen(T)}]
  BY <1>4 DEF SumsOver
<1>6. h[T] = IF T = {} THEN 0 ELSE f[Chosen(T)] + h[T \ {Chosen(T)}]
  BY <1>4 DEF SumsOver
<1>7. T # {}
  BY <1>4, <1>5, <1>6
<1>8. Chosen(T) \in T
  BY <1>7 DEF Chosen
<1>9. T \ {Chosen(T)} \in SUBSET R /\ <<T \ {Chosen(T)}, T>> \in StrictSubsetOrdering(S)
  BY <1>4, <1>8 DEF StrictSubsetOrdering
<1>10. g[T \ {Chosen(T)}] = h[T \ {Chosen(T)}]
  BY <1>3, <1>9
<1> QED BY <1>4, <1>5, <1>6, <1>10

\* There is a solution: it is built for the subsets of at most n elements, one
\* n after the other.
LEMMA SumsExist ==
    ASSUME NEW S, IsFiniteSet(S), NEW f, \A x \in S : f[x] \in Nat
    PROVE  \E g \in [SUBSET S -> Nat] : SumsOver(f, S, g)
<1> DEFINE Sub(n) == {T \in SUBSET S : Cardinality(T) <= n}
           Eq(g, T) == g[T] = IF T = {} THEN 0 ELSE f[Chosen(T)] + g[T \ {Chosen(T)}]
           K == {n \in Nat : \E g \in [SUBSET S -> Nat] : \A T \in Sub(n) : Eq(g, T)}
<1>1. \A T \in SUBSET S :
        /\ IsFiniteSet(T) /\ Cardinality(T) \in Nat /\ (Cardinality(T) = 0 <=> T = {})
        /\ T # {} => /\ Chosen(T) \in T /\ T \ {Chosen(T)} \in SUBSET S
                     /\ Cardinality(T \ {Chosen(T)}) = Cardinality(T) - 1
  <2> SUFFICES ASSUME NEW T \in SUBSET S
               PROVE  /\ IsFiniteSet(T) /\ Cardinality(T) \in Nat /\ (Cardinality(T) = 0 <=> T = {})
                      /\ T # {} => /\ Chosen(T) \in T /\ T \ {Chosen(T)} \in SUBSET S
                                   /\ Cardinality(T \ {Chosen(T)}) = Cardinality(T) - 1
    OBVIOUS
  <2>1. IsFiniteSet(T)
    BY FS_Subset
  <2>2. T # {} => Chosen(T) \in T
    BY DEF Chosen
  <2> QED BY <2>1, <2>2, FS_CardinalityType, FS_EmptySet, FS_RemoveElement
<1>2. 0 \in K
  <2> DEFINE z == [T \in SUBSET S |-> 0]
  <2>1. z \in [SUBSET S -> Nat]
    OBVIOUS
  <2>2. ASSUME NEW T \in Sub(0) PROVE T = {}
    <3>1. T \in SUBSET S /\ Cardinality(T) <= 0
      OBVIOUS
    <3>2. Cardinality(T) \in Nat /\ (Cardinality(T) = 0 <=> T = {})
      BY <3>1, <1>1
    <3> QED BY <3>1, <3>2
  <2>3. \A T \in Sub(0) : Eq(z, T)
    BY <2>2
  <2> QED BY <2>1, <2>3
<1>3. ASSUME NEW n \in Nat, n \in K PROVE n + 1 \in K
  <2>1. PICK g \in [SUBSET S -> Nat] : \A T \in Sub(n) : Eq(g, T)
    BY <1>3
  <2> DEFINE h == [T \in SUBSET S |-> IF T = {} THEN 0 ELSE f[Chosen(T)] + g[T \ {Chosen(T)}]]
  <2>2. h \in [SUBSET S -> Nat]
    <3> SUFFICES ASSUME NEW T \in SUBSET S, T # {} PROVE f[Chosen(T)] + g[T \ {Chosen(T)}] \in Nat
      OBVIOUS
    <3>1. f[Chosen(T)] \in Nat /\ g[T \ {Chosen(T)}] \in Nat
      BY <1>1
    <3> QED BY <3>1
  <2>3. \A T \in Sub(n) : h[T] = g[T]
    BY <2>1
  <2>4. ASSUME NEW T \in Sub(n + 1) PROVE Eq(h, T)
    <3>1. CASE T = {}
      BY <3>1
    <3>2. CASE T # {}
      <4>1. T \ {Chosen(T)} \in Sub(n)
        BY <1>1, <3>2
      <4>2. h[T \ {Chosen(T)}] = g[T \ {Chosen(T)}]
        BY <4>1, <2>3
      <4> QED BY <3>2, <4>2
    <3> QED BY <3>1, <3>2
  <2> HIDE DEF h, Eq, Sub
  <2> QED BY <2>2, <2>4
<1>4. Cardinality(S) \in K
  <2> HIDE DEF K
  <2> QED BY <1>1, <1>2, <1>3, NatSetInduction
<1>5. PICK g \in [SUBSET S -> Nat] : \A T \in Sub(Cardinality(S)) : Eq(g, T)
  BY <1>4
<1>6. \A T \in SUBSET S : T \in Sub(Cardinality(S))
  BY FS_Subset
<1>7. \A T \in SUBSET S : g[T] = IF T = {} THEN 0 ELSE f[Chosen(T)] + g[T \ {Chosen(T)}]
  BY <1>5, <1>6
<1>8. g = [T \in SUBSET S |-> g[T]]
  OBVIOUS
<1>9. SumsOver(f, S, g)
  BY <1>7, <1>8 DEF SumsOver
<1> QED BY <1>9

-----------------------------------------------------------------------------
(* The sums themselves.                                                       *)

\* The sum over a set is what any solution for a larger set gives.
LEMMA SumIsSolution ==
    ASSUME NEW S, IsFiniteSet(S), NEW f, \A x \in S : f[x] \in Nat,
           NEW g, SumsOver(f, S, g), NEW T \in SUBSET S
    PROVE  SumFunctionOnSet(f, T) = g[T]
<1> DEFINE it == CHOOSE h : SumsOver(f, T, h)
<1>1. SumFunctionOnSet(f, T) = it[T]
  BY DEF SumFunctionOnSet, FoldFunctionOnSet, MapThenFoldSet, SumsOver, Chosen
<1>2. SumsOver(f, T, it)
  <2>1. IsFiniteSet(T) /\ \A x \in T : f[x] \in Nat
    BY FS_Subset
  <2>2. \E h : SumsOver(f, T, h)
    BY <2>1, SumsExist
  <2> QED BY <2>2
<1> HIDE DEF it
<1>3. \A U \in SUBSET T : g[U] = it[U]
  BY <1>2, SumsAgree
<1> QED BY <1>1, <1>3

\* The sum is a natural number, and 0 for the empty set.
LEMMA SumType ==
    ASSUME NEW S, IsFiniteSet(S), NEW f, \A x \in S : f[x] \in Nat
    PROVE  /\ \A T \in SUBSET S : SumFunctionOnSet(f, T) \in Nat
           /\ SumFunctionOnSet(f, {}) = 0
<1>1. PICK g \in [SUBSET S -> Nat] : SumsOver(f, S, g)
  BY SumsExist
<1>2. \A T \in SUBSET S : SumFunctionOnSet(f, T) = g[T]
  BY <1>1, SumIsSolution
<1>3. {} \in SUBSET S /\ g[{}] = 0
  BY <1>1 DEF SumsOver
<1> QED BY <1>2, <1>3

\* The element that is picked first is added to the sum of the others.
LEMMA SumOfFirst ==
    ASSUME NEW S, IsFiniteSet(S), NEW f, \A x \in S : f[x] \in Nat,
           NEW T \in SUBSET S, T # {}
    PROVE  /\ Chosen(T) \in T
           /\ SumFunctionOnSet(f, T) = f[Chosen(T)] + SumFunctionOnSet(f, T \ {Chosen(T)})
<1>1. PICK g \in [SUBSET S -> Nat] : SumsOver(f, S, g)
  BY SumsExist
<1>2. \A U \in SUBSET S : SumFunctionOnSet(f, U) = g[U]
  BY <1>1, SumIsSolution
<1>3. g[T] = f[Chosen(T)] + g[T \ {Chosen(T)}]
  BY <1>1 DEF SumsOver
<1>4. T \ {Chosen(T)} \in SUBSET S /\ Chosen(T) \in T
  BY DEF Chosen
<1> QED BY <1>2, <1>3, <1>4

\* And so is any other element: the order does not matter.
LEMMA SumOfAny ==
    ASSUME NEW S, IsFiniteSet(S), NEW f, \A x \in S : f[x] \in Nat
    PROVE  \A T \in SUBSET S : \A x \in T :
              SumFunctionOnSet(f, T) = f[x] + SumFunctionOnSet(f, T \ {x})
<1> DEFINE Sum(T) == SumFunctionOnSet(f, T)
           Bad == {T \in SUBSET S : \E x \in T : Sum(T) # f[x] + Sum(T \ {x})}
<1>0. \A T \in SUBSET S : Sum(T) \in Nat
  BY SumType
<1>1. \A T \in SUBSET S : T # {} => Chosen(T) \in T /\ Sum(T) = f[Chosen(T)] + Sum(T \ {Chosen(T)})
  BY SumOfFirst
<1>2. IsWellFoundedOn(StrictSubsetOrdering(S), SUBSET S)
  BY FS_FiniteSubsetsOfFinite, FS_StrictSubsetOrderingWellFounded
<1> HIDE DEF Sum
<1> SUFFICES ASSUME Bad # {} PROVE FALSE
  BY DEF Sum
<1>3. Bad \subseteq SUBSET S
  OBVIOUS
<1>4. PICK T \in Bad : \A V \in Bad : <<V, T>> \notin StrictSubsetOrdering(S)
  <2> HIDE DEF Bad
  <2> QED BY <1>2, <1>3, WFMin
<1>5. PICK x \in T : Sum(T) # f[x] + Sum(T \ {x})
  BY <1>4
<1>6. ASSUME NEW V \in SUBSET T, V # T, NEW y \in V
      PROVE  Sum(V) = f[y] + Sum(V \ {y})
  <2>1. <<V, T>> \in StrictSubsetOrdering(S) /\ V \in SUBSET S
    BY <1>4, <1>6 DEF StrictSubsetOrdering
  <2> QED BY <2>1, <1>4
<1> DEFINE y == Chosen(T)
<1>7. T \in SUBSET S /\ y \in T /\ Sum(T) = f[y] + Sum(T \ {y}) /\ x # y
  BY <1>1, <1>4, <1>5
<1> HIDE DEF y, Bad
<1>8. Sum(T \ {y}) = f[x] + Sum((T \ {y}) \ {x})
  BY <1>5, <1>6, <1>7
<1>9. Sum(T \ {x}) = f[y] + Sum((T \ {x}) \ {y})
  BY <1>5, <1>6, <1>7
<1>10. (T \ {y}) \ {x} = (T \ {x}) \ {y}
  OBVIOUS
<1>11. f[x] \in Nat /\ f[y] \in Nat /\ Sum((T \ {x}) \ {y}) \in Nat
  BY <1>0, <1>5, <1>7
<1>12. Sum(T) = f[y] + (f[x] + Sum((T \ {x}) \ {y}))
  BY <1>7, <1>8, <1>10
<1>13. f[x] + Sum(T \ {x}) = f[x] + (f[y] + Sum((T \ {x}) \ {y}))
  BY <1>9
<1> QED BY <1>5, <1>11, <1>12, <1>13

\* An element that is not in the set yet adds its value.
LEMMA SumOfOneMore ==
    ASSUME NEW S, IsFiniteSet(S), NEW f, \A x \in S : f[x] \in Nat,
           NEW T \in SUBSET S, NEW x \in S \ T
    PROVE  SumFunctionOnSet(f, T \cup {x}) = f[x] + SumFunctionOnSet(f, T)
<1>1. (T \cup {x}) \in SUBSET S /\ x \in T \cup {x} /\ (T \cup {x}) \ {x} = T
  OBVIOUS
<1> QED BY <1>1, SumOfAny

\* One more for every element of B, those that are not in A having been 0: the
\* sum over both grows by the number of elements of B.
LEMMA SumOfOneMoreEach ==
    ASSUME NEW A, NEW B, IsFiniteSet(A), IsFiniteSet(B),
           NEW f, \A x \in A \cup B : f[x] \in Nat, \A x \in B \ A : f[x] = 0,
           NEW g, \A x \in A \cup B : g[x] = IF x \in B THEN f[x] + 1 ELSE f[x]
    PROVE  SumFunctionOnSet(g, A \cup B) = SumFunctionOnSet(f, A) + Cardinality(B)
<1> DEFINE S == A \cup B
           SumF(T) == SumFunctionOnSet(f, T)
           SumG(T) == SumFunctionOnSet(g, T)
           Grows(T) == SumG(T) = SumF(T \cap A) + Cardinality(T \cap B)
           K == {T \in SUBSET S : Grows(T)}
<1>1. IsFiniteSet(S) /\ (\A x \in S : f[x] \in Nat) /\ (\A x \in S : g[x] \in Nat)
  <2>1. IsFiniteSet(S)
    BY FS_Union
  <2>2. \A x \in S : f[x] \in Nat /\ g[x] \in Nat
    OBVIOUS
  <2> QED BY <2>1, <2>2
<1>2. \A T \in SUBSET S : /\ SumF(T) \in Nat /\ SumG(T) \in Nat
                          /\ Cardinality(T \cap B) \in Nat /\ IsFiniteSet(T \cap B)
  <2> SUFFICES ASSUME NEW T \in SUBSET S
               PROVE  /\ SumF(T) \in Nat /\ SumG(T) \in Nat
                      /\ Cardinality(T \cap B) \in Nat /\ IsFiniteSet(T \cap B)
    OBVIOUS
  <2>1. SumF(T) \in Nat /\ SumG(T) \in Nat
    BY <1>1, SumType
  <2>2. IsFiniteSet(T \cap B)
    BY FS_Subset
  <2> QED BY <2>1, <2>2, FS_CardinalityType
<1>3. {} \in K
  <2>1. SumF({}) = 0 /\ SumG({}) = 0
    BY <1>1, SumType
  <2>2. {} \cap A = {} /\ {} \cap B = {}
    OBVIOUS
  <2> QED BY <2>1, <2>2, FS_EmptySet
<1>4. ASSUME NEW T \in SUBSET S, T \in K, NEW x \in S \ T
      PROVE  T \cup {x} \in K
  <2>1. SumG(T \cup {x}) = g[x] + SumG(T)
    BY <1>1, SumOfOneMore
  <2>4. Cardinality((T \cup {x}) \cap B) =
           IF x \in B THEN Cardinality(T \cap B) + 1 ELSE Cardinality(T \cap B)
    <3>1. CASE x \in B
      <4>1. (T \cup {x}) \cap B = (T \cap B) \cup {x} /\ x \notin T \cap B
        BY <3>1
      <4> QED BY <1>2, <3>1, <4>1, FS_AddElement
    <3>2. CASE x \notin B
      <4>1. (T \cup {x}) \cap B = T \cap B
        BY <3>2
      <4> QED BY <3>2, <4>1
    <3> QED BY <3>1, <3>2
  <2>2. CASE x \in A
    <3>1. (T \cup {x}) \cap A = (T \cap A) \cup {x} /\ x \in S \ (T \cap A) /\ T \cap A \in SUBSET S
      BY <2>2
    <3>2. SumF((T \cup {x}) \cap A) = f[x] + SumF(T \cap A)
      BY <1>1, <3>1, SumOfOneMore
    <3>3. SumG(T) = SumF(T \cap A) + Cardinality(T \cap B)
      BY <1>4
    <3> HIDE DEF SumF, SumG
    <3>4. /\ f[x] \in Nat /\ SumF(T \cap A) \in Nat /\ Cardinality(T \cap B) \in Nat
          /\ g[x] = IF x \in B THEN f[x] + 1 ELSE f[x]
      BY <1>1, <1>2, <3>1
    <3> QED BY <2>1, <2>4, <3>2, <3>3, <3>4
  <2>3. CASE x \notin A
    <3>1. (T \cup {x}) \cap A = T \cap A /\ x \in B /\ f[x] = 0 /\ g[x] = 1
      BY <2>3
    <3>2. SumG(T) = SumF(T \cap A) + Cardinality(T \cap B)
      BY <1>4
    <3> HIDE DEF SumF, SumG
    <3>3. SumF(T \cap A) \in Nat /\ Cardinality(T \cap B) \in Nat
      BY <1>2
    <3> QED BY <2>1, <2>4, <3>1, <3>2, <3>3
  <2> QED BY <2>2, <2>3
<1>5. SUBSET S \subseteq K
  <2> HIDE DEF K, S
  <2> QED BY <1>1, <1>3, <1>4, SubsetInduction
<1>6. Grows(S)
  <2>1. S \in SUBSET S
    OBVIOUS
  <2> HIDE DEF S, Grows
  <2> QED BY <1>5, <2>1
<1>7. S \cap A = A /\ S \cap B = B
  OBVIOUS
<1> HIDE DEF SumF, SumG
<1>8. SumG(S) = SumF(A) + Cardinality(B)
  BY <1>6, <1>7
<1> QED BY <1>8 DEF SumF, SumG
=============================================================================
