--------------------------- MODULE CatalogProofs ---------------------------
(* Lemmas about what the adapters read: the enumeration of positions, the     *)
(* rows of a catalog query and the objects that are rebuilt from them.        *)
EXTENDS Introspection, NatSets, SequenceTheorems, TLAPS

-----------------------------------------------------------------------------
(* Numbers in order: Nth(I, n) enumerates the finite set I, the least first.  *)

UpTo(I, i) == {j \in I : j <= i}
Rank(I, i) == Cardinality(UpTo(I, i))

\* A number of I has a rank, the greater the number the greater the rank.
LEMMA Ranks ==
    ASSUME NEW I \in SUBSET Nat, IsFiniteSet(I)
    PROVE  /\ \A i \in I : Rank(I, i) \in 1..Cardinality(I)
           /\ \A i, k \in I : i < k => Rank(I, i) < Rank(I, k)
<1>1. Cardinality(I) \in Nat
  BY FS_CardinalityType
<1>2. ASSUME NEW i \in I
      PROVE  IsFiniteSet(UpTo(I, i)) /\ Rank(I, i) \in 1..Cardinality(I)
  <2>1. UpTo(I, i) \in SUBSET I /\ i \in UpTo(I, i)
    BY DEF UpTo
  <2>2. IsFiniteSet(UpTo(I, i)) /\ Cardinality(UpTo(I, i)) <= Cardinality(I)
    BY <2>1, FS_Subset
  <2>3. Cardinality(UpTo(I, i)) \in Nat /\ Cardinality(UpTo(I, i)) # 0
    BY <2>1, <2>2, FS_CardinalityType, FS_EmptySet
  <2> QED BY <1>1, <2>2, <2>3 DEF Rank
<1>3. ASSUME NEW i \in I, NEW k \in I, i < k
      PROVE  Rank(I, i) < Rank(I, k)
  <2>1. UpTo(I, i) \in SUBSET UpTo(I, k) /\ UpTo(I, i) # UpTo(I, k)
    <3>1. i \in Nat /\ k \in Nat /\ \A j \in I : j \in Nat
      OBVIOUS
    <3>2. \A j \in I : j <= i => j <= k
      BY <1>3, <3>1
    <3>3. k \in UpTo(I, k) /\ k \notin UpTo(I, i)
      BY <1>3, <3>1 DEF UpTo
    <3> QED BY <3>2, <3>3 DEF UpTo
  <2>2. Cardinality(UpTo(I, i)) <= Cardinality(UpTo(I, k)) /\ Cardinality(UpTo(I, i)) # Cardinality(UpTo(I, k))
    BY <1>2, <2>1, FS_Subset
  <2> QED BY <1>2, <2>2 DEF Rank
<1> QED BY <1>2, <1>3

\* And each rank is the rank of exactly one number of I, the one Nth returns.
LEMMA NthHasRank ==
    ASSUME NEW I \in SUBSET Nat, IsFiniteSet(I)
    PROVE  /\ \A n \in 1..Cardinality(I) : Nth(I, n) \in I /\ Rank(I, Nth(I, n)) = n
           /\ \A i \in I : Nth(I, Rank(I, i)) = i
<1> DEFINE N == 1..Cardinality(I)
           f == [i \in I |-> Rank(I, i)]
<1>1. Cardinality(I) \in Nat
  BY FS_CardinalityType
<1>2. IsFiniteSet(N) /\ Cardinality(N) = Cardinality(I)
  BY <1>1, FS_Interval
<1>3. \A i, k \in I : Rank(I, i) = Rank(I, k) => i = k
  <2> SUFFICES ASSUME NEW i \in I, NEW k \in I, Rank(I, i) = Rank(I, k), i # k PROVE FALSE
    OBVIOUS
  <2>1. i < k \/ k < i
    OBVIOUS
  <2>2. Rank(I, i) \in Nat /\ Rank(I, k) \in Nat
    BY Ranks
  <2> QED BY <2>1, <2>2, Ranks
<1>4. f \in Injection(I, N)
  BY <1>3, Ranks DEF Injection, IsInjective
<1>5. f \in Surjection(I, N)
  BY <1>2, <1>4, FS_Injection
<1>6. ASSUME NEW n \in N PROVE Nth(I, n) \in I /\ Rank(I, Nth(I, n)) = n
  <2>1. PICK i \in I : f[i] = n
    BY <1>5 DEF Surjection
  <2>2. \E k \in I : Cardinality({j \in I : j <= k}) = n
    BY <2>1 DEF Rank, UpTo
  <2> QED BY <2>2 DEF Nth, Rank, UpTo
<1>7. ASSUME NEW i \in I PROVE Nth(I, Rank(I, i)) = i
  <2>1. Rank(I, i) \in N
    BY Ranks
  <2> QED BY <1>3, <1>6, <2>1
<1> QED BY <1>6, <1>7

\* So Nth enumerates I, in order.
LEMMA NthEnumerates ==
    ASSUME NEW I \in SUBSET Nat, IsFiniteSet(I)
    PROVE  /\ Cardinality(I) \in Nat
           /\ \A n \in 1..Cardinality(I) : Nth(I, n) \in I
           /\ \A i \in I : \E n \in 1..Cardinality(I) : Nth(I, n) = i
           /\ \A m, n \in 1..Cardinality(I) : m < n => Nth(I, m) < Nth(I, n)
<1>1. Cardinality(I) \in Nat
  BY FS_CardinalityType
<1>2. ASSUME NEW m \in 1..Cardinality(I), NEW n \in 1..Cardinality(I), m < n
      PROVE  Nth(I, m) < Nth(I, n)
  <2> DEFINE i == Nth(I, m)
             k == Nth(I, n)
  <2>1. i \in I /\ k \in I /\ Rank(I, i) = m /\ Rank(I, k) = n
    BY NthHasRank
  <2> HIDE DEF i, k
  <2>2. i # k /\ ~(k < i)
    BY <1>1, <1>2, <2>1, Ranks
  <2>3. i \in Nat /\ k \in Nat
    BY <2>1
  <2> QED BY <2>2, <2>3 DEF i, k
<1>3. \A i \in I : \E n \in 1..Cardinality(I) : Nth(I, n) = i
  BY NthHasRank, Ranks
<1> QED BY <1>1, <1>2, <1>3, NthHasRank

\* The numbers of an interval, the position in a singleton.
LEMMA NthOfInterval ==
    ASSUME NEW a \in Nat, NEW m \in Nat
    PROVE  /\ IsFiniteSet((a + 1)..(a + m)) /\ Cardinality((a + 1)..(a + m)) = m
           /\ \A n \in 1..m : Nth((a + 1)..(a + m), n) = a + n
<1> DEFINE I == (a + 1)..(a + m)
<1>1. I \in SUBSET Nat /\ IsFiniteSet(I) /\ Cardinality(I) = m
  BY FS_Interval
<1>2. ASSUME NEW n \in 1..m PROVE Nth(I, n) = a + n
  <2>1. a + n \in I /\ UpTo(I, a + n) = (a + 1)..(a + n)
    BY DEF UpTo
  <2>2. Rank(I, a + n) = n
    <3>1. Cardinality((a + 1)..(a + n)) = n
      BY FS_Interval
    <3> QED BY <2>1, <3>1 DEF Rank
  <2> HIDE DEF I
  <2>3. Nth(I, Rank(I, a + n)) = a + n
    BY <1>1, <2>1, NthHasRank
  <2> QED BY <2>2, <2>3
<1> QED BY <1>1, <1>2

LEMMA NthOfOne ==
    ASSUME NEW i \in Nat
    PROVE  IsFiniteSet({i}) /\ Cardinality({i}) = 1 /\ Nth({i}, 1) = i
<1>1. IsFiniteSet({i}) /\ Cardinality({i}) = 1
  BY FS_Singleton
<1>2. Nth({i}, 1) \in {i}
  <2>1. 1 \in 1..Cardinality({i}) /\ {i} \in SUBSET Nat
    BY <1>1
  <2> QED BY <1>1, <2>1, NthHasRank
<1> QED BY <1>1, <1>2

\* An order-preserving map between two sets keeps the places.
LEMMA NthOfImage ==
    ASSUME NEW I \in SUBSET Nat, IsFiniteSet(I), NEW J \in SUBSET Nat, IsFiniteSet(J),
           NEW f \in [I -> J], \A j \in J : \E i \in I : f[i] = j,
           \A i, k \in I : i < k => f[i] < f[k]
    PROVE  /\ Cardinality(J) = Cardinality(I)
           /\ \A n \in 1..Cardinality(I) : Nth(J, n) = f[Nth(I, n)]
<1>1. \A i, k \in I : f[i] = f[k] => i = k
  <2> SUFFICES ASSUME NEW i \in I, NEW k \in I, f[i] = f[k], i # k PROVE FALSE
    OBVIOUS
  <2>1. i < k \/ k < i
    OBVIOUS
  <2>2. f[i] \in Nat /\ f[k] \in Nat
    OBVIOUS
  <2> QED BY <2>1, <2>2
<1>2. Cardinality(J) = Cardinality(I)
  <2>1. f \in Injection(I, J) /\ f \in Surjection(I, J)
    BY <1>1 DEF Injection, IsInjective, Surjection
  <2> QED BY <2>1, FS_Injection
<1>3. ASSUME NEW i \in I PROVE Rank(J, f[i]) = Rank(I, i)
  <2> DEFINE A == UpTo(I, i)
             B == UpTo(J, f[i])
             g == [k \in A |-> f[k]]
  <2>1. IsFiniteSet(A) /\ IsFiniteSet(B)
    <3>1. A \in SUBSET I /\ B \in SUBSET J
      BY DEF UpTo
    <3> QED BY <3>1, FS_Subset
  <2>2. \A k \in I : k <= i <=> f[k] <= f[i]
    <3> SUFFICES ASSUME NEW k \in I PROVE k <= i <=> f[k] <= f[i]
      OBVIOUS
    <3>1. k \in Nat /\ i \in Nat /\ f[k] \in Nat /\ f[i] \in Nat
      OBVIOUS
    <3>2. (k < i => f[k] < f[i]) /\ (i < k => f[i] < f[k]) /\ (i = k => f[i] = f[k])
      OBVIOUS
    <3> QED BY <3>1, <3>2
  <2>3. g \in [A -> B]
    BY <2>2 DEF UpTo
  <2>4. \A b \in B : \E k \in A : g[k] = b
    BY <2>2 DEF UpTo
  <2>5. \A k, l \in A : g[k] = g[l] => k = l
    BY <1>1 DEF UpTo
  <2>6. g \in Injection(A, B) /\ g \in Surjection(A, B)
    <3> HIDE DEF A, B, g
    <3> QED BY <2>3, <2>4, <2>5 DEF Injection, IsInjective, Surjection
  <2>7. Cardinality(A) = Cardinality(B)
    <3> HIDE DEF A, B, g
    <3> QED BY <2>1, <2>6, FS_Injection
  <2> QED BY <2>7 DEF Rank
<1>4. ASSUME NEW n \in 1..Cardinality(I) PROVE Nth(J, n) = f[Nth(I, n)]
  <2>1. Nth(I, n) \in I /\ Rank(I, Nth(I, n)) = n
    BY NthHasRank
  <2>2. f[Nth(I, n)] \in J /\ Rank(J, f[Nth(I, n)]) = n
    BY <1>3, <2>1
  <2>3. Nth(J, Rank(J, f[Nth(I, n)])) = f[Nth(I, n)]
    BY <2>2, NthHasRank
  <2> QED BY <2>2, <2>3
<1> QED BY <1>2, <1>4

-----------------------------------------------------------------------------
(* Picking the elements at some positions.                                    *)

LEMMA PickEnumerates ==
    ASSUME NEW s, NEW I \in SUBSET Nat, IsFiniteSet(I)
    PROVE  /\ Cardinality(I) \in Nat /\ DOMAIN Pick(s, I) = 1..Cardinality(I)
           /\ Len(Pick(s, I)) = Cardinality(I)
           /\ \A n \in DOMAIN Pick(s, I) : Nth(I, n) \in I /\ Pick(s, I)[n] = s[Nth(I, n)]
           /\ \A i \in I : \E n \in DOMAIN Pick(s, I) : Nth(I, n) = i /\ Pick(s, I)[n] = s[i]
<1>1. Cardinality(I) \in Nat
  BY FS_CardinalityType
<1>2. DOMAIN Pick(s, I) = 1..Cardinality(I) /\ Len(Pick(s, I)) = Cardinality(I)
  BY <1>1 DEF Pick
<1>3. \A n \in 1..Cardinality(I) : Pick(s, I)[n] = s[Nth(I, n)]
  BY DEF Pick
<1> QED BY <1>1, <1>2, <1>3, NthEnumerates

LEMMA PickIsSeq ==
    ASSUME NEW S, NEW s \in Seq(S), NEW I \in SUBSET DOMAIN s
    PROVE  /\ I \in SUBSET Nat /\ IsFiniteSet(I)
           /\ Pick(s, I) \in Seq(S) /\ Len(Pick(s, I)) <= Len(s)
<1>1. Len(s) \in Nat /\ DOMAIN s = 1..Len(s) /\ \A i \in 1..Len(s) : s[i] \in S
  OBVIOUS
<1>2. IsFiniteSet(1..Len(s)) /\ Cardinality(1..Len(s)) = Len(s)
  BY <1>1, FS_Interval, SMTT(30)
<1>3. I \in SUBSET Nat /\ I \in SUBSET (1..Len(s))
  BY <1>1
<1>4. IsFiniteSet(I) /\ Cardinality(I) <= Len(s)
  BY <1>2, <1>3, FS_Subset
<1>5. \A n \in 1..Cardinality(I) : Pick(s, I)[n] \in S
  BY <1>1, <1>3, <1>4, PickEnumerates
<1>6. Pick(s, I) \in [1..Cardinality(I) -> S]
  BY <1>5 DEF Pick
<1>7. Pick(s, I) \in Seq(S)
  BY <1>3, <1>4, <1>6, FS_CardinalityType, SeqDef
<1> QED BY <1>3, <1>4, <1>7, PickEnumerates

LEMMA PickOne ==
    ASSUME NEW s, NEW i \in Nat
    PROVE  Pick(s, {i}) = <<s[i]>>
<1>1. Pick(s, {i}) = [n \in 1..1 |-> s[Nth({i}, n)]]
  BY NthOfOne DEF Pick
<1>2. \A n \in 1..1 : n = 1
  OBVIOUS
<1>3. [n \in 1..1 |-> s[Nth({i}, n)]] = [n \in 1..1 |-> s[i]]
  BY <1>2, NthOfOne
<1> QED BY <1>1, <1>3

\* To pick among what was picked is to pick at the positions of those.
LEMMA PickOfPick ==
    ASSUME NEW s, NEW I \in SUBSET Nat, IsFiniteSet(I),
           NEW J \in SUBSET (1..Cardinality(I)), NEW L, L = {Nth(I, k) : k \in J}
    PROVE  /\ IsFiniteSet(J) /\ IsFiniteSet(L) /\ Cardinality(L) = Cardinality(J)
           /\ \A n \in 1..Cardinality(J) : Pick(s, I)[Nth(J, n)] = Pick(s, L)[n]
<1> DEFINE f == [k \in J |-> Nth(I, k)]
<1>1. Cardinality(I) \in Nat
  BY FS_CardinalityType
<1>2. J \in SUBSET Nat /\ IsFiniteSet(J)
  <2>1. IsFiniteSet(1..Cardinality(I))
    BY <1>1, FS_Interval
  <2>2. IsFiniteSet(J)
    BY <2>1, FS_Subset
  <2>3. J \in SUBSET Nat
    BY <1>1
  <2> QED BY <2>2, <2>3
<1>3. L \in SUBSET I
  BY NthEnumerates
<1>4. L \in SUBSET Nat /\ IsFiniteSet(L)
  BY <1>3, FS_Subset
<1>5. f \in [J -> L] /\ (\A i \in L : \E k \in J : f[k] = i) /\ \A k, l \in J : k < l => f[k] < f[l]
  BY NthEnumerates
<1>6. Cardinality(L) = Cardinality(J) /\ \A n \in 1..Cardinality(J) : Nth(L, n) = f[Nth(J, n)]
  <2> HIDE DEF f
  <2> QED BY <1>2, <1>4, <1>5, NthOfImage
<1>7. ASSUME NEW n \in 1..Cardinality(J) PROVE Pick(s, I)[Nth(J, n)] = Pick(s, L)[n]
  <2>1. Nth(J, n) \in J
    BY <1>2, NthEnumerates
  <2>2. Nth(J, n) \in 1..Cardinality(I) /\ Nth(L, n) = Nth(I, Nth(J, n))
    BY <1>6, <2>1
  <2>3. Pick(s, I)[Nth(J, n)] = s[Nth(I, Nth(J, n))]
    BY <2>2 DEF Pick
  <2>4. Pick(s, L)[n] = s[Nth(L, n)]
    BY <1>6 DEF Pick
  <2> QED BY <2>2, <2>3, <2>4
<1> QED BY <1>2, <1>4, <1>6, <1>7

LEMMA PickNone ==
    ASSUME NEW s
    PROVE  Pick(s, {}) = <<>>
BY FS_EmptySet DEF Pick

\* The first n elements.
LEMMA TakeShortens ==
    ASSUME NEW S, NEW s \in Seq(S), NEW n \in Nat
    PROVE  /\ Take(s, n) \in Seq(S) /\ Len(Take(s, n)) = SmallerOf(n, Len(s))
           /\ \A i \in DOMAIN Take(s, n) : i \in DOMAIN s /\ Take(s, n)[i] = s[i]
BY DEF Take, SmallerOf

-----------------------------------------------------------------------------
(* FlattenSeq(ss): the sequences of ss one after the other, the k-th behind   *)
(* the first off[k - 1] elements.                                             *)

FlattensTo(ss, n, g) == g = [i \in 1..n |-> IF i = 1 THEN ss[i] ELSE g[i - 1] \o ss[i]]

\* The recursion of its definition has a solution.
LEMMA FlattenExists ==
    ASSUME NEW R, NEW ss \in Seq(Seq(R)), NEW n \in 0..Len(ss)
    PROVE  \E g \in [1..n -> Seq(R)] : FlattensTo(ss, n, g)
<1> DEFINE K == {m \in Nat : m <= Len(ss) => \E g \in [1..m -> Seq(R)] : FlattensTo(ss, m, g)}
<1>1. Len(ss) \in Nat /\ \A i \in 1..Len(ss) : ss[i] \in Seq(R)
  OBVIOUS
<1>2. 0 \in K
  <2>1. 1..0 = {}
    OBVIOUS
  <2>2. <<>> \in [1..0 -> Seq(R)] /\ FlattensTo(ss, 0, <<>>)
    BY <2>1 DEF FlattensTo
  <2> QED BY <2>2
<1>3. ASSUME NEW m \in Nat, m \in K PROVE m + 1 \in K
  <2> SUFFICES ASSUME m + 1 <= Len(ss)
               PROVE  \E g \in [1..(m + 1) -> Seq(R)] : FlattensTo(ss, m + 1, g)
    OBVIOUS
  <2>1. m <= Len(ss)
    BY <1>1
  <2>2. PICK g \in [1..m -> Seq(R)] : FlattensTo(ss, m, g)
    BY <1>3, <2>1
  <2> DEFINE h == [i \in 1..(m + 1) |-> IF i = 1 THEN ss[i] ELSE g[i - 1] \o ss[i]]
  <2>3. h \in [1..(m + 1) -> Seq(R)]
    <3> SUFFICES ASSUME NEW i \in 1..(m + 1)
                 PROVE  (IF i = 1 THEN ss[i] ELSE g[i - 1] \o ss[i]) \in Seq(R)
      OBVIOUS
    <3>1. ss[i] \in Seq(R)
      BY <1>1
    <3>2. CASE i = 1
      BY <3>1, <3>2
    <3>3. CASE i # 1
      <4>1. i - 1 \in 1..m
        BY <3>3
      <4>2. g[i - 1] \in Seq(R)
        BY <4>1
      <4> QED BY <3>1, <3>3, <4>2, ConcatProperties
    <3> QED BY <3>2, <3>3
  <2>4. \A i \in 1..m : h[i] = g[i]
    <3>1. \A i \in 1..m : g[i] = IF i = 1 THEN ss[i] ELSE g[i - 1] \o ss[i]
      BY <2>2 DEF FlattensTo
    <3>2. \A i \in 1..m : i \in 1..(m + 1)
      OBVIOUS
    <3> QED BY <3>1, <3>2
  <2>5. FlattensTo(ss, m + 1, h)
    <3>1. \A i \in 1..(m + 1) : i # 1 => i - 1 \in 1..m
      OBVIOUS
    <3>2. \A i \in 1..(m + 1) : (IF i = 1 THEN ss[i] ELSE g[i - 1] \o ss[i])
                                 = IF i = 1 THEN ss[i] ELSE h[i - 1] \o ss[i]
      <4> HIDE DEF h
      <4> QED BY <2>4, <3>1
    <3>3. h = [i \in 1..(m + 1) |-> IF i = 1 THEN ss[i] ELSE h[i - 1] \o ss[i]]
      BY <3>2, Zenon
    <3> QED BY <3>3 DEF FlattensTo
  <2> QED BY <2>3, <2>5
<1>4. Nat \subseteq K
  <2> HIDE DEF K
  <2> QED BY <1>2, <1>3, NatSetInduction
<1>5. n \in Nat /\ n <= Len(ss)
  BY <1>1
<1> QED BY <1>4, <1>5

\* off[k] elements are in the first k sequences.
Offsets(ss, off) ==
    /\ off \in [0..Len(ss) -> Nat]
    /\ off[0] = 0
    /\ \A k \in 1..Len(ss) : off[k] = off[k - 1] + Len(ss[k])

LEMMA OffsetsGrow ==
    ASSUME NEW R, NEW ss \in Seq(Seq(R)), NEW off, Offsets(ss, off)
    PROVE  \A k, l \in 0..Len(ss) : k <= l => off[k] <= off[l]
<1> DEFINE K == {m \in Nat : m <= Len(ss) => \A k \in 0..m : off[k] <= off[m]}
<1>1. Len(ss) \in Nat /\ (\A i \in 1..Len(ss) : Len(ss[i]) \in Nat) /\ \A k \in 0..Len(ss) : off[k] \in Nat
  <2>1. Len(ss) \in Nat /\ \A i \in 1..Len(ss) : Len(ss[i]) \in Nat
    OBVIOUS
  <2>2. \A k \in 0..Len(ss) : off[k] \in Nat
    BY DEF Offsets
  <2> QED BY <2>1, <2>2
<1>2. 0 \in K
  BY DEF Offsets
<1>3. ASSUME NEW m \in Nat, m \in K PROVE m + 1 \in K
  <2> SUFFICES ASSUME m + 1 <= Len(ss), NEW k \in 0..(m + 1) PROVE off[k] <= off[m + 1]
    OBVIOUS
  <2>1. m + 1 \in 1..Len(ss) /\ m \in 0..Len(ss) /\ (m + 1) - 1 = m /\ k \in 0..Len(ss)
    BY <1>1
  <2>2. off[m + 1] = off[m] + Len(ss[m + 1])
    BY <2>1 DEF Offsets
  <2>3. off[m] \in Nat /\ Len(ss[m + 1]) \in Nat /\ off[k] \in Nat
    BY <1>1, <2>1
  <2>4. CASE k = m + 1
    BY <2>2, <2>3, <2>4
  <2>5. CASE k # m + 1
    <3>1. k \in 0..m
      BY <2>5
    <3>2. off[k] <= off[m]
      BY <1>3, <2>1, <3>1
    <3> QED BY <2>2, <2>3, <3>2
  <2> QED BY <2>4, <2>5
<1>4. Nat \subseteq K
  <2> HIDE DEF K
  <2> QED BY <1>2, <1>3, NatSetInduction
<1> QED BY <1>1, <1>4

\* A place of a sequence is before each place of a sequence that starts later.
LEMMA Before ==
    \A a, b, c, i, j \in Int : a + i <= b /\ b <= c /\ 1 <= j => a + i < c + j
OBVIOUS

\* Every place is in exactly one of the sequences.
LEMMA OffsetsCover ==
    ASSUME NEW R, NEW ss \in Seq(Seq(R)), NEW off, Offsets(ss, off)
    PROVE  /\ \A i \in 1..off[Len(ss)] : \E k \in 1..Len(ss) : \E j \in 1..Len(ss[k]) : i = off[k - 1] + j
           /\ \A k \in 1..Len(ss) : \A j \in 1..Len(ss[k]) : off[k - 1] + j \in 1..off[Len(ss)]
           /\ \A k, l \in 1..Len(ss) : k < l => \A i \in 1..Len(ss[k]), j \in 1..Len(ss[l]) :
                                                   off[k - 1] + i < off[l - 1] + j
<1>1. Len(ss) \in Nat /\ (\A i \in 1..Len(ss) : Len(ss[i]) \in Nat) /\ \A k \in 0..Len(ss) : off[k] \in Nat
  <2>1. Len(ss) \in Nat /\ \A i \in 1..Len(ss) : Len(ss[i]) \in Nat
    OBVIOUS
  <2>2. \A k \in 0..Len(ss) : off[k] \in Nat
    BY DEF Offsets
  <2> QED BY <2>1, <2>2
<1>2. ASSUME NEW i \in 1..off[Len(ss)]
      PROVE  \E k \in 1..Len(ss) : \E j \in 1..Len(ss[k]) : i = off[k - 1] + j
  <2> DEFINE S == {k \in 0..Len(ss) : i <= off[k]}
  <2>1. S \in SUBSET Nat /\ Len(ss) \in S
    BY <1>1
  <2>2. PICK k \in S : \A l \in S : k <= l
    BY <2>1, HasLeast
  <2>3. k \in 1..Len(ss) /\ k - 1 \in 0..Len(ss) /\ k - 1 \notin S
    <3>1. k # 0
      BY <1>2, <2>2 DEF Offsets
    <3> QED BY <1>1, <2>2, <3>1
  <2>4. off[k] = off[k - 1] + Len(ss[k])
    BY <2>3 DEF Offsets
  <2>5. off[k - 1] \in Nat /\ off[k] \in Nat /\ Len(ss[k]) \in Nat /\ off[Len(ss)] \in Nat
    BY <1>1, <2>3
  <2>6. i \in Nat /\ i >= 1 /\ i <= off[k] /\ ~(i <= off[k - 1])
    BY <1>2, <2>2, <2>3, <2>5
  <2>7. i - off[k - 1] \in 1..Len(ss[k]) /\ i = off[k - 1] + (i - off[k - 1])
    <3> HIDE DEF S
    <3> QED BY <2>4, <2>5, <2>6
  <2> QED BY <2>3, <2>7
<1>3. ASSUME NEW k \in 1..Len(ss), NEW j \in 1..Len(ss[k])
      PROVE  off[k - 1] + j \in 1..off[Len(ss)] /\ off[k - 1] + j <= off[k]
  <2>1. k - 1 \in 0..Len(ss) /\ k \in 0..Len(ss) /\ Len(ss) \in 0..Len(ss)
    BY <1>1
  <2>2. off[k] = off[k - 1] + Len(ss[k]) /\ off[k] <= off[Len(ss)]
    <3>1. off[k] = off[k - 1] + Len(ss[k])
      BY DEF Offsets
    <3>2. k <= Len(ss)
      BY <1>1
    <3> QED BY <2>1, <3>1, <3>2, OffsetsGrow
  <2>3. off[k - 1] \in Nat /\ off[Len(ss)] \in Nat /\ Len(ss[k]) \in Nat
    BY <1>1, <2>1
  <2> QED BY <2>2, <2>3
<1>4. ASSUME NEW k \in 1..Len(ss), NEW l \in 1..Len(ss), k < l,
             NEW i \in 1..Len(ss[k]), NEW j \in 1..Len(ss[l])
      PROVE  off[k - 1] + i < off[l - 1] + j
  <2>1. l - 1 \in 0..Len(ss) /\ k \in 0..Len(ss) /\ k <= l - 1 /\ k - 1 \in 0..Len(ss)
    BY <1>1, <1>4
  <2>2. off[k] <= off[l - 1] /\ off[k - 1] + i <= off[k]
    BY <1>3, <2>1, OffsetsGrow
  <2>3. off[k] \in Int /\ off[l - 1] \in Int /\ off[k - 1] \in Int
    BY <1>1, <2>1, SMTT(30)
  <2>4. i \in Int /\ j \in Int /\ 1 <= j
    BY <1>1
  <2> QED BY <2>2, <2>3, <2>4, Before
<1> QED BY <1>2, <1>3, <1>4

LEMMA Shift ==
    \A a, b \in Nat :
        /\ \A i \in 1..a : i \in 1..(a + b) /\ i <= a
        /\ \A j \in 1..b : a + j \in 1..(a + b) /\ ~(a + j <= a) /\ (a + j) - a = j
OBVIOUS

LEMMA FlattenBlocks ==
    ASSUME NEW R, NEW ss \in Seq(Seq(R))
    PROVE  /\ FlattenSeq(ss) \in Seq(R)
           /\ \E off : /\ Offsets(ss, off)
                       /\ Len(FlattenSeq(ss)) = off[Len(ss)]
                       /\ \A k \in 1..Len(ss) : \A j \in 1..Len(ss[k]) :
                             FlattenSeq(ss)[off[k - 1] + j] = ss[k][j]
<1>1. Len(ss) \in Nat /\ \A i \in 1..Len(ss) : ss[i] \in Seq(R) /\ Len(ss[i]) \in Nat
  OBVIOUS
<1>2. CASE Len(ss) = 0
  <2> DEFINE off == [k \in 0..0 |-> 0]
  <2>1. FlattenSeq(ss) = ss /\ ss = <<>>
    BY <1>2, EmptySeq DEF FlattenSeq
  <2>2. Offsets(ss, off) /\ off[0] = 0
    BY <1>2 DEF Offsets
  <2>3. \A k \in 1..Len(ss) : FALSE
    BY <1>2
  <2>4. Len(FlattenSeq(ss)) = off[Len(ss)] /\ FlattenSeq(ss) \in Seq(R)
    BY <1>2, <2>1, <2>2, EmptySeq
  <2> HIDE DEF off
  <2> QED BY <2>2, <2>3, <2>4
<1>3. CASE Len(ss) # 0
  <2> DEFINE g == CHOOSE h : FlattensTo(ss, Len(ss), h)
             off == [k \in 0..Len(ss) |-> IF k = 0 THEN 0 ELSE Len(g[k])]
  <2>1. FlattenSeq(ss) = g[Len(ss)]
    BY <1>3 DEF FlattenSeq, FlattensTo
  <2>2. PICK h \in [1..Len(ss) -> Seq(R)] : FlattensTo(ss, Len(ss), h)
    BY <1>1, FlattenExists
  <2>3. FlattensTo(ss, Len(ss), g)
    BY <2>2
  <2> HIDE DEF g
  <2>4. \A i \in 1..Len(ss) : g[i] = IF i = 1 THEN ss[i] ELSE g[i - 1] \o ss[i]
    BY <2>3 DEF FlattensTo
  <2> DEFINE Good(n) == /\ g[n] \in Seq(R)
                        /\ \A k \in 1..n : \A j \in 1..Len(ss[k]) :
                              off[k - 1] + j \in 1..Len(g[n]) /\ g[n][off[k - 1] + j] = ss[k][j]
             K == {n \in Nat : n + 1 <= Len(ss) => Good(n + 1) /\ off[n + 1] = off[n] + Len(ss[n + 1])}
  <2>5. 0 \in K
    <3>1. g[1] = ss[1] /\ off[0] = 0 /\ off[1] = Len(ss[1])
      BY <1>1, <1>3, <2>4
    <3>2. \A k \in 1..1 : k = 1
      OBVIOUS
    <3>3. \A j \in 1..Len(ss[1]) : off[1 - 1] + j = j
      BY <1>1, <1>3, <3>1
    <3> HIDE DEF off
    <3>4. Good(1)
      BY <1>1, <1>3, <3>1, <3>2, <3>3
    <3>5. off[1] = off[0] + Len(ss[1])
      BY <1>1, <1>3, <3>1
    <3> QED BY <3>4, <3>5
  <2>6. ASSUME NEW n \in Nat, n \in K PROVE n + 1 \in K
    <3> SUFFICES ASSUME (n + 1) + 1 <= Len(ss)
                 PROVE  Good((n + 1) + 1) /\ off[(n + 1) + 1] = off[n + 1] + Len(ss[(n + 1) + 1])
      OBVIOUS
    <3> DEFINE m == n + 1
               l == m + 1
    <3>1. m \in 1..Len(ss) /\ l \in 1..Len(ss) /\ l # 1 /\ l - 1 = m /\ m # 0 /\ l # 0 /\ m \in Nat
      BY <1>1
    <3>2. Good(m)
      <4>1. n + 1 <= Len(ss)
        BY <1>1
      <4> HIDE DEF Good, off
      <4> QED BY <2>6, <4>1
    <3>3. g[l] = g[m] \o ss[l]
      BY <2>4, <3>1
    <3>4. off[m] = Len(g[m]) /\ off[l] = Len(g[l])
      BY <3>1
    <3> HIDE DEF off, l, m
    <3>5. g[m] \in Seq(R) /\ ss[l] \in Seq(R)
      BY <1>1, <3>1, <3>2
    <3>6. /\ g[l] \in Seq(R) /\ Len(g[l]) = Len(g[m]) + Len(ss[l])
          /\ \A i \in 1..Len(g[m]) + Len(ss[l]) :
                g[l][i] = IF i <= Len(g[m]) THEN g[m][i] ELSE ss[l][i - Len(g[m])]
      <4>1. ASSUME NEW x \in Seq(R), NEW y \in Seq(R), NEW z, z = x \o y
            PROVE  /\ z \in Seq(R) /\ Len(z) = Len(x) + Len(y)
                   /\ \A i \in 1..Len(x) + Len(y) :
                         z[i] = IF i <= Len(x) THEN x[i] ELSE y[i - Len(x)]
        BY <4>1, ConcatProperties
      <4> DEFINE x == g[m]
                 y == ss[l]
                 z == g[l]
      <4>2. x \in Seq(R) /\ y \in Seq(R) /\ z = x \o y
        BY <3>3, <3>5
      <4> HIDE DEF x, y, z
      <4>3. /\ z \in Seq(R) /\ Len(z) = Len(x) + Len(y)
            /\ \A i \in 1..Len(x) + Len(y) :
                  z[i] = IF i <= Len(x) THEN x[i] ELSE y[i - Len(x)]
        BY <4>1, <4>2
      <4> QED BY <4>3 DEF x, y, z
    <3>7. ASSUME NEW k \in 1..l, NEW j \in 1..Len(ss[k])
          PROVE  off[k - 1] + j \in 1..Len(g[l]) /\ g[l][off[k - 1] + j] = ss[k][j]
      <4>1. CASE k = l
        <5>1. off[k - 1] + j = Len(g[m]) + j /\ j \in 1..Len(ss[l])
          BY <3>1, <3>4, <3>7, <4>1
        <5>2. Len(g[m]) \in Nat /\ Len(ss[l]) \in Nat
          BY <3>5
        <5>3. Len(g[m]) + j \in 1..(Len(g[m]) + Len(ss[l])) /\ ~(Len(g[m]) + j <= Len(g[m]))
              /\ (Len(g[m]) + j) - Len(g[m]) = j
          BY <5>1, <5>2, Shift
        <5>4. g[l][Len(g[m]) + j] = ss[l][j]
          BY <3>6, <5>3
        <5> QED BY <3>6, <4>1, <5>1, <5>3, <5>4
      <4>2. CASE k # l
        <5>1. k \in 1..m
          BY <3>1, <4>2 DEF l
        <5>2. off[k - 1] + j \in 1..Len(g[m]) /\ g[m][off[k - 1] + j] = ss[k][j]
          BY <3>2, <5>1, <3>7
        <5>3. \A i \in 1..Len(g[m]) : i \in 1..Len(g[l]) /\ g[l][i] = g[m][i]
          <6>1. Len(g[m]) \in Nat /\ Len(ss[l]) \in Nat
            BY <3>5
          <6>2. \A i \in 1..Len(g[m]) : i \in 1..(Len(g[m]) + Len(ss[l])) /\ i <= Len(g[m])
            BY <6>1, Shift
          <6> QED BY <3>6, <6>2
        <5> QED BY <5>2, <5>3
      <4> QED BY <4>1, <4>2
    <3>8. Good(l) /\ off[l] = off[m] + Len(ss[l])
      BY <3>4, <3>6, <3>7
    <3> QED BY <3>8 DEF l, m
  <2>7. Nat \subseteq K
    <3> HIDE DEF K
    <3> QED BY <2>5, <2>6, NatSetInduction
  <2>8. \A n \in 1..Len(ss) : Good(n) /\ off[n] = off[n - 1] + Len(ss[n])
    <3> SUFFICES ASSUME NEW n \in 1..Len(ss) PROVE Good(n) /\ off[n] = off[n - 1] + Len(ss[n])
      OBVIOUS
    <3>1. n - 1 \in Nat /\ (n - 1) + 1 = n /\ n <= Len(ss)
      BY <1>1
    <3>2. n - 1 \in K
      BY <2>7, <3>1
    <3> HIDE DEF Good, off
    <3> QED BY <3>1, <3>2
  <2>9. Offsets(ss, off)
    <3>1. \A k \in 0..Len(ss) : k # 0 => k \in 1..Len(ss)
      BY <1>1
    <3>2. \A k \in 1..Len(ss) : Len(g[k]) \in Nat
      BY <2>8
    <3>3. off \in [0..Len(ss) -> Nat]
      BY <3>1, <3>2
    <3>4. off[0] = 0
      BY <1>1
    <3> HIDE DEF off
    <3> QED BY <2>8, <3>3, <3>4 DEF Offsets
  <2>10. Good(Len(ss)) /\ off[Len(ss)] = Len(g[Len(ss)])
    <3>1. Len(ss) \in 1..Len(ss) /\ Len(ss) \in 0..Len(ss)
      BY <1>1, <1>3
    <3>2. off[Len(ss)] = Len(g[Len(ss)])
      BY <1>3, <3>1
    <3> HIDE DEF Good, off
    <3> QED BY <2>8, <3>1, <3>2
  <2> HIDE DEF off
  <2>11. \A k \in 1..Len(ss) : \A j \in 1..Len(ss[k]) : FlattenSeq(ss)[off[k - 1] + j] = ss[k][j]
    BY <2>1, <2>10
  <2> QED BY <2>1, <2>9, <2>10, <2>11
<1> QED BY <1>2, <1>3

-----------------------------------------------------------------------------
(* RowsToSchemaObjects: an object for each block of rows of one table.        *)

SameTable(r, q) == r.ns = q.ns /\ r.name = q.name
RowsOf(rows, i) == {j \in DOMAIN rows : SameTable(rows[j], rows[i])}
FirstRowsOf(rows) == {i \in DOMAIN rows : \A j \in RowsOf(rows, i) : i <= j}
ObjectAt(rows, i) ==
    [ns |-> rows[i].ns, name |-> rows[i].name, comment |-> rows[i].comment, count |-> rows[i].count,
     fields |-> [n \in DOMAIN Pick(rows, RowsOf(rows, i)) |-> Pick(rows, RowsOf(rows, i))[n].field]]

LEMMA ObjectsAre ==
    ASSUME NEW rows
    PROVE  RowsToSchemaObjects(rows) =
              [n \in 1..Cardinality(FirstRowsOf(rows)) |-> ObjectAt(rows, Nth(FirstRowsOf(rows), n))]
BY Zenon DEF RowsToSchemaObjects, FirstRowsOf, RowsOf, SameTable, ObjectAt, Map

\* Rows that come table by table, those of different tables in different
\* blocks: the objects are the blocks that have rows, in order, and the fields
\* of an object are those of the rows of its block, in order.
BlocksOfTables(ss) ==
    /\ \A k \in DOMAIN ss : \A i, j \in DOMAIN ss[k] : SameTable(ss[k][i], ss[k][j])
    /\ \A k, l \in DOMAIN ss : k # l => \A i \in DOMAIN ss[k], j \in DOMAIN ss[l] : ~SameTable(ss[k][i], ss[l][j])

ObjectOfBlock(b) ==
    [ns |-> b[1].ns, name |-> b[1].name, comment |-> b[1].comment, count |-> b[1].count,
     fields |-> [j \in 1..Len(b) |-> b[j].field]]

LEMMA GroupOfBlocks ==
    ASSUME NEW R, NEW ss \in Seq(Seq(R)), BlocksOfTables(ss)
    PROVE  LET filled == {k \in DOMAIN ss : ss[k] # <<>>}
           IN  RowsToSchemaObjects(FlattenSeq(ss)) =
                  [n \in 1..Cardinality(filled) |-> ObjectOfBlock(ss[Nth(filled, n)])]
<1> DEFINE F == FlattenSeq(ss)
           filled == {k \in DOMAIN ss : ss[k] # <<>>}
           firsts == FirstRowsOf(F)
<1>1. Len(ss) \in Nat /\ DOMAIN ss = 1..Len(ss)
  OBVIOUS
<1>2. \A k \in 1..Len(ss) : ss[k] \in Seq(R) /\ Len(ss[k]) \in Nat /\ DOMAIN ss[k] = 1..Len(ss[k])
                            /\ (ss[k] = <<>> <=> Len(ss[k]) = 0)
  <2> SUFFICES ASSUME NEW k \in 1..Len(ss)
               PROVE  ss[k] \in Seq(R) /\ Len(ss[k]) \in Nat /\ DOMAIN ss[k] = 1..Len(ss[k])
                      /\ (ss[k] = <<>> <=> Len(ss[k]) = 0)
    OBVIOUS
  <2>1. ss[k] \in Seq(R)
    OBVIOUS
  <2> QED BY <2>1, LenProperties, EmptySeq
<1>3. F \in Seq(R)
  BY FlattenBlocks
<1>4. PICK off : /\ Offsets(ss, off)
                 /\ Len(F) = off[Len(ss)]
                 /\ \A k \in 1..Len(ss) : \A j \in 1..Len(ss[k]) : F[off[k - 1] + j] = ss[k][j]
  BY FlattenBlocks
<1> HIDE DEF F
<1>5. DOMAIN F = 1..off[Len(ss)]
  BY <1>3, <1>4
<1>6. \A k \in 1..Len(ss) : off[k - 1] \in Nat
  <2>1. \A k \in 1..Len(ss) : k - 1 \in 0..Len(ss)
    BY <1>1
  <2> QED BY <1>4, <2>1 DEF Offsets
<1>7. /\ \A i \in DOMAIN F : \E k \in 1..Len(ss) : \E j \in 1..Len(ss[k]) : i = off[k - 1] + j
      /\ \A k \in 1..Len(ss) : \A j \in 1..Len(ss[k]) : off[k - 1] + j \in DOMAIN F
      /\ \A k, l \in 1..Len(ss) : k < l => \A i \in 1..Len(ss[k]), j \in 1..Len(ss[l]) :
                                               off[k - 1] + i < off[l - 1] + j
  <2>1. Offsets(ss, off)
    BY <1>4
  <2>2. \A i \in 1..off[Len(ss)] : \E k \in 1..Len(ss) : \E j \in 1..Len(ss[k]) : i = off[k - 1] + j
    BY <2>1, OffsetsCover
  <2>3. \A k \in 1..Len(ss) : \A j \in 1..Len(ss[k]) : off[k - 1] + j \in 1..off[Len(ss)]
    BY <2>1, OffsetsCover
  <2>4. \A k, l \in 1..Len(ss) : k < l => \A i \in 1..Len(ss[k]), j \in 1..Len(ss[l]) :
                                               off[k - 1] + i < off[l - 1] + j
    BY <2>1, OffsetsCover
  <2> QED BY <1>5, <2>2, <2>3, <2>4
<1>8. ASSUME NEW k \in 1..Len(ss), NEW j \in 1..Len(ss[k])
      PROVE  RowsOf(F, off[k - 1] + j) = (off[k - 1] + 1)..(off[k - 1] + Len(ss[k]))
  <2> DEFINE I == (off[k - 1] + 1)..(off[k - 1] + Len(ss[k]))
             i == off[k - 1] + j
  <2>1. off[k - 1] \in Nat /\ Len(ss[k]) \in Nat /\ i \in DOMAIN F /\ F[i] = ss[k][j]
    BY <1>2, <1>4, <1>6, <1>7
  <2>2. ASSUME NEW x \in I PROVE x \in RowsOf(F, i)
    <3>1. x - off[k - 1] \in 1..Len(ss[k]) /\ x = off[k - 1] + (x - off[k - 1])
      BY <2>1, SMTT(30)
    <3>2. x \in DOMAIN F /\ F[x] = ss[k][x - off[k - 1]]
      BY <1>4, <1>7, <3>1
    <3>3. SameTable(ss[k][x - off[k - 1]], ss[k][j])
      BY <1>1, <1>2, <3>1 DEF BlocksOfTables
    <3> HIDE DEF i
    <3>4. SameTable(F[x], F[i])
      BY <2>1, <3>2, <3>3
    <3> QED BY <3>2, <3>4 DEF RowsOf
  <2>3. ASSUME NEW x \in RowsOf(F, i) PROVE x \in I
    <3>1. x \in DOMAIN F /\ SameTable(F[x], F[i])
      BY DEF RowsOf
    <3>2. PICK l \in 1..Len(ss) : \E m \in 1..Len(ss[l]) : x = off[l - 1] + m
      BY <1>7, <3>1
    <3>3. PICK m \in 1..Len(ss[l]) : x = off[l - 1] + m
      BY <3>2
    <3>4. F[x] = ss[l][m]
      BY <1>4, <3>3
    <3>5. l = k
      <4>1. m \in DOMAIN ss[l] /\ j \in DOMAIN ss[k] /\ SameTable(ss[l][m], ss[k][j])
        BY <1>2, <2>1, <3>1, <3>4
      <4> QED BY <1>1, <4>1 DEF BlocksOfTables
    <3> QED BY <2>1, <3>3, <3>5, SMTT(30)
  <2> QED BY <2>2, <2>3
<1>9. filled \in SUBSET (1..Len(ss)) /\ \A k \in 1..Len(ss) : k \in filled <=> 1 \in 1..Len(ss[k])
  BY <1>1, <1>2
<1>10. filled \in SUBSET Nat /\ IsFiniteSet(filled)
  <2>1. IsFiniteSet(1..Len(ss))
    BY <1>1, FS_Interval
  <2> QED BY <1>1, <1>9, <2>1, FS_Subset
<1> HIDE DEF filled
<1> DEFINE f == [k \in filled |-> off[k - 1] + 1]
<1>11. firsts = {off[k - 1] + 1 : k \in filled}
  <2>1. ASSUME NEW k \in filled PROVE off[k - 1] + 1 \in firsts
    <3>1. k \in 1..Len(ss) /\ 1 \in 1..Len(ss[k])
      BY <1>9
    <3>2. off[k - 1] + 1 \in DOMAIN F
      BY <1>7, <3>1
    <3>3. RowsOf(F, off[k - 1] + 1) = (off[k - 1] + 1)..(off[k - 1] + Len(ss[k]))
      BY <1>8, <3>1
    <3>4. \A x \in RowsOf(F, off[k - 1] + 1) : off[k - 1] + 1 <= x
      BY <1>2, <1>6, <3>1, <3>3
    <3> QED BY <3>2, <3>4 DEF FirstRowsOf
  <2>2. ASSUME NEW i \in firsts PROVE \E k \in filled : i = off[k - 1] + 1
    <3>1. i \in DOMAIN F /\ \A x \in RowsOf(F, i) : i <= x
      BY DEF FirstRowsOf
    <3>2. PICK k \in 1..Len(ss) : \E j \in 1..Len(ss[k]) : i = off[k - 1] + j
      BY <1>7, <3>1
    <3>3. PICK j \in 1..Len(ss[k]) : i = off[k - 1] + j
      BY <3>2
    <3>4. off[k - 1] \in Nat /\ Len(ss[k]) \in Nat
      BY <1>2, <1>6
    <3>5. 1 \in 1..Len(ss[k]) /\ k \in filled
      BY <1>9, <3>4
    <3>6. off[k - 1] + 1 \in RowsOf(F, i)
      BY <1>8, <3>3, <3>4
    <3>7. i = off[k - 1] + 1
      BY <3>1, <3>3, <3>4, <3>6
    <3> QED BY <3>5, <3>7
  <2> QED BY <2>1, <2>2
<1>12. /\ firsts \in SUBSET Nat /\ IsFiniteSet(firsts)
       /\ f \in [filled -> firsts] /\ \A i \in firsts : \E k \in filled : f[k] = i
       /\ \A k, l \in filled : k < l => f[k] < f[l]
  <2>1. firsts \in SUBSET (1..Len(F))
    <3>1. DOMAIN F = 1..Len(F)
      BY <1>3
    <3> QED BY <3>1 DEF FirstRowsOf
  <2>2. Len(F) \in Nat
    BY <1>3
  <2>3. IsFiniteSet(1..Len(F))
    BY <2>2, FS_Interval
  <2>4. firsts \in SUBSET Nat /\ IsFiniteSet(firsts)
    BY <2>1, <2>2, <2>3, FS_Subset
  <2>5. f \in [filled -> firsts] /\ \A i \in firsts : \E k \in filled : f[k] = i
    BY <1>11
  <2>6. \A k, l \in filled : k < l => f[k] < f[l]
    BY <1>7, <1>9
  <2> QED BY <2>4, <2>5, <2>6
<1> HIDE DEF firsts
<1>13. /\ Cardinality(firsts) = Cardinality(filled)
       /\ \A n \in 1..Cardinality(filled) : Nth(firsts, n) = f[Nth(filled, n)]
  <2> HIDE DEF f
  <2> QED BY <1>10, <1>12, NthOfImage
<1>14. ASSUME NEW k \in filled PROVE ObjectAt(F, off[k - 1] + 1) = ObjectOfBlock(ss[k])
  <2> DEFINE b == ss[k]
             i == off[k - 1] + 1
             I == (off[k - 1] + 1)..(off[k - 1] + Len(b))
  <2>1. k \in 1..Len(ss) /\ 1 \in 1..Len(b) /\ off[k - 1] \in Nat /\ Len(b) \in Nat
    BY <1>2, <1>6, <1>9
  <2>2. F[i] = b[1] /\ RowsOf(F, i) = I
    BY <1>4, <1>8, <2>1
  <2>3. Cardinality(I) = Len(b) /\ \A n \in 1..Len(b) : Nth(I, n) = off[k - 1] + n
    BY <2>1, NthOfInterval
  <2>4. \A n \in 1..Len(b) : F[off[k - 1] + n] = b[n]
    BY <1>4, <2>1
  <2> HIDE DEF b, i, I
  <2>5. Pick(F, I) = [n \in 1..Len(b) |-> b[n]]
    <3>1. \A n \in 1..Len(b) : F[Nth(I, n)] = b[n]
      BY <2>3, <2>4
    <3> QED BY <2>3, <3>1 DEF Pick
  <2>6. [n \in DOMAIN Pick(F, I) |-> Pick(F, I)[n].field] = [n \in 1..Len(b) |-> b[n].field]
    BY <2>5
  <2>7. ObjectAt(F, i) = ObjectOfBlock(b)
    BY <2>2, <2>6 DEF ObjectAt, ObjectOfBlock
  <2> QED BY <2>7 DEF b, i
<1>15. \A n \in 1..Cardinality(filled) : ObjectAt(F, Nth(firsts, n)) = ObjectOfBlock(ss[Nth(filled, n)])
  <2> SUFFICES ASSUME NEW n \in 1..Cardinality(filled)
               PROVE  ObjectAt(F, Nth(firsts, n)) = ObjectOfBlock(ss[Nth(filled, n)])
    OBVIOUS
  <2>1. Nth(filled, n) \in filled
    BY <1>10, NthEnumerates
  <2>2. Nth(firsts, n) = off[Nth(filled, n) - 1] + 1
    BY <1>13, <2>1
  <2> QED BY <1>14, <2>1, <2>2
<1>16. RowsToSchemaObjects(F) = [n \in 1..Cardinality(filled) |-> ObjectOfBlock(ss[Nth(filled, n)])]
  <2>1. RowsToSchemaObjects(F) = [n \in 1..Cardinality(firsts) |-> ObjectAt(F, Nth(firsts, n))]
    BY ObjectsAre DEF firsts
  <2> QED BY <1>13, <1>15, <2>1
<1> QED BY <1>16 DEF F, filled

-----------------------------------------------------------------------------
(* The rows of one table in a catalog query.                                  *)

RowOf(t, c, counted, pk) ==
    [ns |-> t.ns, name |-> t.name, comment |-> t.comment,
     count |-> IF counted THEN t.count ELSE NoCount,
     field |-> [name |-> c.name, type |-> c.type, comment |-> c.comment, pk |-> pk]]
RowsAbout(t, counted) == {RowOf(t, t.cols[j], counted, pk) : j \in DOMAIN t.cols, pk \in BOOLEAN}
ColumnRows(t, c, counted, marks) == [n \in DOMAIN marks |-> RowOf(t, c, counted, marks[n])]
TableRows(t, counted, isPk) ==
    FlattenSeq([j \in DOMAIN t.cols |-> ColumnRows(t, t.cols[j], counted, isPk[t][t.cols[j].name])])

\* Each column of t has marks, that is rows.
Marked(t, isPk) == \A c \in Columns(t) : isPk[t][c] \in Seq(BOOLEAN) /\ isPk[t][c] # <<>>

\* With one row for each column the columns stay in their places.
LEMMA OffsetsOfOnes ==
    ASSUME NEW R, NEW ss \in Seq(Seq(R)), NEW off, Offsets(ss, off), \A k \in 1..Len(ss) : Len(ss[k]) = 1
    PROVE  \A k \in 0..Len(ss) : off[k] = k
<1> DEFINE K == {m \in Nat : m <= Len(ss) => off[m] = m}
<1>1. Len(ss) \in Nat
  OBVIOUS
<1>2. 0 \in K
  BY DEF Offsets
<1>3. ASSUME NEW m \in Nat, m \in K PROVE m + 1 \in K
  <2> SUFFICES ASSUME m + 1 <= Len(ss) PROVE off[m + 1] = m + 1
    OBVIOUS
  <2>1. m + 1 \in 1..Len(ss) /\ (m + 1) - 1 = m /\ m <= Len(ss)
    BY <1>1
  <2>2. off[m + 1] = off[m] + Len(ss[m + 1])
    BY <2>1 DEF Offsets
  <2> QED BY <1>3, <2>1, <2>2
<1>4. Nat \subseteq K
  <2> HIDE DEF K
  <2> QED BY <1>2, <1>3, NatSetInduction
<1> QED BY <1>1, <1>4

\* Each column has a row; and with one mark for each column, one row in its place.
Covers(b, t, counted) ==
    \A j \in DOMAIN t.cols : \E i \in DOMAIN b : \E pk : b[i] = RowOf(t, t.cols[j], counted, pk)
InPlace(b, t, counted, isPk) ==
    /\ Len(b) = Len(t.cols)
    /\ \A j \in DOMAIN t.cols : b[j] = RowOf(t, t.cols[j], counted, isPk[t][t.cols[j].name][1])

LEMMA RowsAreAbout ==
    ASSUME NEW t, NEW counted, NEW r \in RowsAbout(t, counted)
    PROVE  /\ r.ns = t.ns /\ r.name = t.name /\ r.comment = t.comment
           /\ r.count = IF counted THEN t.count ELSE NoCount
           /\ \E j \in DOMAIN t.cols : /\ r.field.name = t.cols[j].name /\ r.field.type = t.cols[j].type
                                       /\ r.field.comment = t.cols[j].comment
<1>1. PICK j \in DOMAIN t.cols, pk \in BOOLEAN : r = RowOf(t, t.cols[j], counted, pk)
  BY DEF RowsAbout
<1> QED BY <1>1 DEF RowOf

LEMMA RowsOfTable ==
    ASSUME NEW t, IsSequence(t.cols), NEW counted, NEW isPk, Marked(t, isPk)
    PROVE  /\ TableRows(t, counted, isPk) \in Seq(RowsAbout(t, counted))
           /\ TableRows(t, counted, isPk) = <<>> <=> t.cols = <<>>
           /\ Covers(TableRows(t, counted, isPk), t, counted)
           /\ (\A c \in Columns(t) : Len(isPk[t][c]) = 1) => InPlace(TableRows(t, counted, isPk), t, counted, isPk)
<1> DEFINE R == RowsAbout(t, counted)
           marks(j) == isPk[t][t.cols[j].name]
           ss == [j \in DOMAIN t.cols |-> ColumnRows(t, t.cols[j], counted, marks(j))]
           F == TableRows(t, counted, isPk)
<1>1. F = FlattenSeq(ss)
  BY DEF TableRows
<1>2. Len(t.cols) \in Nat /\ DOMAIN t.cols = 1..Len(t.cols) /\ (t.cols = <<>> <=> Len(t.cols) = 0)
  <2>1. t.cols \in Seq(ToSet(t.cols))
    BY DEF IsSequence
  <2> QED BY <2>1, LenProperties, EmptySeq
<1>3. \A j \in DOMAIN t.cols : marks(j) \in Seq(BOOLEAN) /\ Len(marks(j)) \in Nat \ {0}
                              /\ DOMAIN marks(j) = 1..Len(marks(j)) /\ \A n \in 1..Len(marks(j)) : marks(j)[n] \in BOOLEAN
  <2> SUFFICES ASSUME NEW j \in DOMAIN t.cols
               PROVE  marks(j) \in Seq(BOOLEAN) /\ Len(marks(j)) \in Nat \ {0}
                      /\ DOMAIN marks(j) = 1..Len(marks(j)) /\ \A n \in 1..Len(marks(j)) : marks(j)[n] \in BOOLEAN
    OBVIOUS
  <2>1. t.cols[j].name \in Columns(t)
    BY DEF Columns
  <2>2. marks(j) \in Seq(BOOLEAN) /\ marks(j) # <<>>
    BY <2>1 DEF Marked
  <2> HIDE DEF marks
  <2> QED BY <2>2, LenProperties, EmptySeq, ElementOfSeq
<1> HIDE DEF marks
<1>4. ASSUME NEW j \in DOMAIN t.cols
      PROVE  /\ ss[j] \in Seq(R) /\ Len(ss[j]) = Len(marks(j))
             /\ \A n \in 1..Len(marks(j)) : ss[j][n] = RowOf(t, t.cols[j], counted, marks(j)[n])
  <2>1. ss[j] = [n \in 1..Len(marks(j)) |-> RowOf(t, t.cols[j], counted, marks(j)[n])]
    BY <1>3 DEF ColumnRows
  <2>2. \A n \in 1..Len(marks(j)) : RowOf(t, t.cols[j], counted, marks(j)[n]) \in R
    BY <1>3 DEF RowsAbout
  <2> HIDE DEF R, ss
  <2>3. ss[j] \in [1..Len(marks(j)) -> R] /\ Len(marks(j)) \in Nat
    BY <1>3, <2>1, <2>2
  <2>4. ss[j] \in Seq(R)
    BY <2>3, SeqDef
  <2>5. Len(ss[j]) = Len(marks(j))
    BY <2>3, <2>4
  <2> QED BY <2>1, <2>4, <2>5
<1>5. ss \in Seq(Seq(R)) /\ Len(ss) = Len(t.cols) /\ DOMAIN ss = 1..Len(t.cols)
  <2>1. DOMAIN ss = 1..Len(t.cols)
    BY <1>2
  <2>2. ss = [j \in 1..Len(t.cols) |-> ss[j]]
    BY <1>2
  <2> HIDE DEF ss, R
  <2>3. ss \in [1..Len(t.cols) -> Seq(R)]
    BY <1>2, <1>4, <2>2
  <2>4. ss \in Seq(Seq(R))
    BY <1>2, <2>3, SeqDef
  <2> QED BY <1>2, <2>1, <2>4
<1> HIDE DEF ss, R, F
<1>6. F \in Seq(R)
  BY <1>1, <1>5, FlattenBlocks
<1>7. PICK off : /\ Offsets(ss, off)
                 /\ Len(F) = off[Len(ss)]
                 /\ \A k \in 1..Len(ss) : \A j \in 1..Len(ss[k]) : F[off[k - 1] + j] = ss[k][j]
  <2>1. \E off : /\ Offsets(ss, off)
                 /\ Len(FlattenSeq(ss)) = off[Len(ss)]
                 /\ \A k \in 1..Len(ss) : \A j \in 1..Len(ss[k]) : FlattenSeq(ss)[off[k - 1] + j] = ss[k][j]
    BY <1>5, FlattenBlocks
  <2> QED BY <1>1, <2>1
<1>8. DOMAIN F = 1..off[Len(ss)]
  BY <1>6, <1>7
<1>9. \A k \in 1..Len(ss) : \A j \in 1..Len(ss[k]) : off[k - 1] + j \in DOMAIN F
  BY <1>5, <1>7, <1>8, OffsetsCover
<1>10. \A j \in DOMAIN t.cols : \E i \in DOMAIN F : \E pk : F[i] = RowOf(t, t.cols[j], counted, pk)
  <2> SUFFICES ASSUME NEW j \in DOMAIN t.cols
               PROVE  \E i \in DOMAIN F : \E pk : F[i] = RowOf(t, t.cols[j], counted, pk)
    OBVIOUS
  <2>1. j \in 1..Len(ss) /\ 1 \in 1..Len(ss[j]) /\ 1 \in 1..Len(marks(j))
    BY <1>2, <1>3, <1>4, <1>5
  <2>2. off[j - 1] + 1 \in DOMAIN F /\ F[off[j - 1] + 1] = ss[j][1]
    BY <1>7, <1>9, <2>1
  <2>3. ss[j][1] = RowOf(t, t.cols[j], counted, marks(j)[1])
    BY <1>4, <2>1
  <2> QED BY <2>2, <2>3
<1>11. F = <<>> <=> t.cols = <<>>
  <2>1. CASE t.cols = <<>>
    <3>1. Len(ss) = 0
      BY <1>2, <1>5, <2>1
    <3>2. Len(F) = 0
      BY <1>7, <3>1 DEF Offsets
    <3> QED BY <1>6, <2>1, <3>2, EmptySeq
  <2>2. CASE t.cols # <<>>
    <3>1. 1 \in DOMAIN t.cols
      BY <1>2, <2>2
    <3>2. DOMAIN F # {}
      BY <1>10, <3>1
    <3> QED BY <2>2, <3>2
  <2> QED BY <2>1, <2>2
<1>12. ASSUME \A c \in Columns(t) : Len(isPk[t][c]) = 1
       PROVE  /\ Len(F) = Len(t.cols)
              /\ \A j \in DOMAIN t.cols : F[j] = RowOf(t, t.cols[j], counted, marks(j)[1])
  <2>1. \A j \in 1..Len(ss) : Len(ss[j]) = 1 /\ Len(marks(j)) = 1
    <3>1. \A j \in DOMAIN t.cols : Len(marks(j)) = 1
      BY <1>12 DEF marks, Columns
    <3> QED BY <1>2, <1>4, <1>5, <3>1
  <2>2. \A k \in 0..Len(ss) : off[k] = k
    BY <1>5, <1>7, <2>1, OffsetsOfOnes
  <2>3. Len(F) = Len(t.cols)
    BY <1>2, <1>5, <1>7, <2>2
  <2>4. ASSUME NEW j \in DOMAIN t.cols PROVE F[j] = RowOf(t, t.cols[j], counted, marks(j)[1])
    <3>1. Len(ss) \in Nat /\ j \in 1..Len(ss)
      BY <1>2, <1>5
    <3>2. j - 1 \in 0..Len(ss) /\ (j - 1) + 1 = j
      BY <3>1
    <3>3. Len(ss[j]) = 1 /\ Len(marks(j)) = 1
      BY <2>1, <3>1
    <3>4. j \in 1..Len(ss) /\ j - 1 \in 0..Len(ss) /\ (j - 1) + 1 = j /\ 1 \in 1..Len(ss[j]) /\ 1 \in 1..Len(marks(j))
      <4>1. 1 \in 1..1
        OBVIOUS
      <4> QED BY <3>1, <3>2, <3>3, <4>1
    <3>5. off[j - 1] = j - 1
      BY <2>2, <3>4
    <3>6. F[off[j - 1] + 1] = ss[j][1]
      BY <1>7, <3>4
    <3> QED BY <1>4, <3>4, <3>5, <3>6
  <2> QED BY <2>3, <2>4
<1>13. Covers(F, t, counted)
  BY <1>10 DEF Covers
<1>14. (\A c \in Columns(t) : Len(isPk[t][c]) = 1) => InPlace(F, t, counted, isPk)
  BY <1>12 DEF InPlace, marks
<1> QED BY <1>6, <1>11, <1>13, <1>14 DEF R, F

-----------------------------------------------------------------------------
(* The objects of a catalog query.                                            *)

\* A name alone.
Bare(n) == [ns |-> "", name |-> n]

LEMMA BareNames ==
    ASSUME NEW a
    PROVE  Valid(Bare(a)) /\ Bare(a).name = a
BY DEF Bare, Valid

LEMMA ValidIsBare ==
    ASSUME NEW ref, IsReference(ref), Valid(ref)
    PROVE  ref = Bare(ref.name)
BY Zenon DEF IsReference, Valid, Bare

\* The tables of a namespace that are asked for and have columns.
WithColumns(d, space, ref) ==
    {i \in DOMAIN d.tables : /\ d.tables[i].ns = space
                             /\ ref \in {All, Bare(d.tables[i].name)}
                             /\ d.tables[i].cols # <<>>}

\* An object for each of them, rebuilt from its rows, in order.
LEMMA SchemaObjects ==
    ASSUME NEW d, IsDatabase(d), NEW ns, NEW ref, NEW counted, NEW isPk,
           \A i \in DOMAIN d.tables : Marked(d.tables[i], isPk)
    PROVE  RowsToSchemaObjects(SchemaRows(d, ns, ref, counted, isPk)) =
              [n \in 1..Cardinality(WithColumns(d, Space(d, ns), ref)) |->
                  ObjectOfBlock(TableRows(d.tables[Nth(WithColumns(d, Space(d, ns), ref), n)], counted, isPk))]
<1> DEFINE space == Space(d, ns)
           I == {i \in DOMAIN d.tables : d.tables[i].ns = space /\ ref \in {All, Bare(d.tables[i].name)}}
           L == WithColumns(d, space, ref)
           tabs == Pick(d.tables, I)
           rows(i) == RowsAbout(d.tables[i], counted)
           R == UNION {rows(i) : i \in DOMAIN d.tables}
           ss == [k \in DOMAIN tabs |-> TableRows(tabs[k], counted, isPk)]
           filled == {k \in DOMAIN ss : ss[k] # <<>>}
<1>1. SchemaRows(d, ns, ref, counted, isPk) = FlattenSeq(ss)
  BY Zenon DEF SchemaRows, TablesIn, Map, TableRows, ColumnRows, RowOf, Bare
<1>2. d.tables \in Seq(ToSet(d.tables)) /\ I \in SUBSET DOMAIN d.tables
  BY DEF IsDatabase, IsSequence
<1>3. I \in SUBSET Nat /\ IsFiniteSet(I)
  <2> HIDE DEF I
  <2> QED BY <1>2, PickIsSeq
<1>4. /\ Cardinality(I) \in Nat /\ DOMAIN tabs = 1..Cardinality(I)
      /\ \A n \in DOMAIN tabs : Nth(I, n) \in I /\ tabs[n] = d.tables[Nth(I, n)]
  <2> HIDE DEF I
  <2> QED BY <1>3, PickEnumerates
<1>5. \A i \in DOMAIN d.tables : IsTable(d, d.tables[i]) /\ IsSequence(d.tables[i].cols)
  BY DEF IsDatabase, IsTable
<1>6. ASSUME NEW i \in DOMAIN d.tables
      PROVE  /\ TableRows(d.tables[i], counted, isPk) \in Seq(rows(i))
             /\ TableRows(d.tables[i], counted, isPk) \in Seq(R)
             /\ TableRows(d.tables[i], counted, isPk) = <<>> <=> d.tables[i].cols = <<>>
  <2>1. /\ TableRows(d.tables[i], counted, isPk) \in Seq(rows(i))
        /\ TableRows(d.tables[i], counted, isPk) = <<>> <=> d.tables[i].cols = <<>>
    BY <1>5, RowsOfTable
  <2>2. rows(i) \subseteq R
    OBVIOUS
  <2>3. \A x : x \in Seq(rows(i)) => x \in Seq(R)
    <3> HIDE DEF rows, R
    <3> SUFFICES ASSUME NEW x \in Seq(rows(i)) PROVE x \in Seq(R)
      OBVIOUS
    <3>1. x \in [1..Len(x) -> rows(i)] /\ Len(x) \in Nat
      OBVIOUS
    <3>2. x \in [1..Len(x) -> R]
      BY <2>2, <3>1
    <3> QED BY <3>1, <3>2, SeqDef
  <2> HIDE DEF R
  <2> QED BY <2>1, <2>3
<1>7. ASSUME NEW k \in DOMAIN tabs
      PROVE  /\ ss[k] = TableRows(d.tables[Nth(I, k)], counted, isPk) /\ ss[k] \in Seq(R)
             /\ ss[k] = <<>> <=> d.tables[Nth(I, k)].cols = <<>>
             /\ \A i \in DOMAIN ss[k] : ss[k][i].ns = tabs[k].ns /\ ss[k][i].name = tabs[k].name
  <2>1. Nth(I, k) \in DOMAIN d.tables /\ tabs[k] = d.tables[Nth(I, k)]
    BY <1>4
  <2>2. ss[k] = TableRows(d.tables[Nth(I, k)], counted, isPk)
    BY <2>1
  <2>3. ss[k] \in Seq(rows(Nth(I, k))) /\ ss[k] \in Seq(R) /\ (ss[k] = <<>> <=> d.tables[Nth(I, k)].cols = <<>>)
    BY <1>6, <2>1, <2>2
  <2>4. \A r \in rows(Nth(I, k)) : r.ns = tabs[k].ns /\ r.name = tabs[k].name
    <3>1. ASSUME NEW t, NEW r \in RowsAbout(t, counted)
          PROVE  r.ns = t.ns /\ r.name = t.name
      BY RowsAreAbout
    <3> HIDE DEF tabs, I
    <3> QED BY <2>1, <3>1
  <2>5. \A i \in DOMAIN ss[k] : ss[k][i] \in rows(Nth(I, k))
    <3> HIDE DEF rows, ss
    <3> QED BY <2>3, LenProperties, ElementOfSeq
  <2> HIDE DEF rows, ss, tabs, R, I
  <2> QED BY <2>2, <2>3, <2>4, <2>5
<1>8. DOMAIN ss = 1..Cardinality(I)
  BY <1>4
<1>9. \A k, l \in DOMAIN tabs : k # l => tabs[k].ns # tabs[l].ns \/ tabs[k].name # tabs[l].name
  <2> SUFFICES ASSUME NEW k \in DOMAIN tabs, NEW l \in DOMAIN tabs, k # l
               PROVE  tabs[k].ns # tabs[l].ns \/ tabs[k].name # tabs[l].name
    OBVIOUS
  <2>1. Nth(I, k) # Nth(I, l)
    <3> HIDE DEF I, tabs
    <3>1. k \in 1..Cardinality(I) /\ l \in 1..Cardinality(I) /\ (k < l \/ l < k)
      BY <1>4
    <3>2. Nth(I, k) < Nth(I, l) \/ Nth(I, l) < Nth(I, k)
      BY <1>3, <3>1, NthEnumerates
    <3>3. Nth(I, k) \in Nat /\ Nth(I, l) \in Nat
      BY <1>3, <1>4
    <3> QED BY <3>2, <3>3
  <2>2. Nth(I, k) \in DOMAIN d.tables /\ Nth(I, l) \in DOMAIN d.tables
    BY <1>4
  <2> HIDE DEF I, tabs
  <2> QED BY <1>4, <2>1, <2>2 DEF IsDatabase
<1> HIDE DEF I, L, tabs, rows, R, ss
<1>10. ss \in Seq(Seq(R))
  <2>1. ss = [k \in 1..Cardinality(I) |-> ss[k]]
    BY <1>8 DEF ss
  <2>2. ss \in [1..Cardinality(I) -> Seq(R)]
    BY <1>4, <1>7, <2>1
  <2> QED BY <1>4, <2>2, SeqDef
<1>11. BlocksOfTables(ss)
  BY <1>4, <1>7, <1>8, <1>9 DEF BlocksOfTables, SameTable
<1>12. RowsToSchemaObjects(FlattenSeq(ss)) = [n \in 1..Cardinality(filled) |-> ObjectOfBlock(ss[Nth(filled, n)])]
  BY <1>10, <1>11, GroupOfBlocks
<1>13. filled \in SUBSET (1..Cardinality(I)) /\ L = {Nth(I, k) : k \in filled}
  <2>1. filled = {k \in 1..Cardinality(I) : d.tables[Nth(I, k)].cols # <<>>}
    BY <1>4, <1>7, <1>8
  <2>2. L = {i \in I : d.tables[i].cols # <<>>}
    BY DEF L, I, WithColumns
  <2>3. \A i \in I : \E k \in 1..Cardinality(I) : Nth(I, k) = i
    BY <1>3, NthEnumerates
  <2>4. \A k \in 1..Cardinality(I) : Nth(I, k) \in I
    BY <1>4
  <2> HIDE DEF filled
  <2> QED BY <2>1, <2>2, <2>3, <2>4
<1>14. /\ IsFiniteSet(filled) /\ Cardinality(L) = Cardinality(filled)
       /\ \A n \in 1..Cardinality(filled) : tabs[Nth(filled, n)] = d.tables[Nth(L, n)]
  <2> HIDE DEF filled
  <2>1. /\ IsFiniteSet(filled) /\ IsFiniteSet(L) /\ Cardinality(L) = Cardinality(filled)
        /\ \A n \in 1..Cardinality(filled) : tabs[Nth(filled, n)] = Pick(d.tables, L)[n]
    BY <1>3, <1>13, PickOfPick DEF tabs
  <2>2. \A n \in 1..Cardinality(L) : Pick(d.tables, L)[n] = d.tables[Nth(L, n)]
    BY DEF Pick
  <2> QED BY <2>1, <2>2
<1>15. \A n \in 1..Cardinality(filled) : ss[Nth(filled, n)] = TableRows(d.tables[Nth(L, n)], counted, isPk)
  <2> SUFFICES ASSUME NEW n \in 1..Cardinality(filled)
               PROVE  ss[Nth(filled, n)] = TableRows(d.tables[Nth(L, n)], counted, isPk)
    OBVIOUS
  <2>1. Nth(filled, n) \in filled
    <3>1. filled \in SUBSET Nat
      BY <1>4, <1>13
    <3> HIDE DEF filled
    <3> QED BY <1>14, <3>1, NthEnumerates
  <2>2. Nth(filled, n) \in DOMAIN tabs
    BY <1>4, <1>8, <2>1
  <2>3. ss[Nth(filled, n)] = TableRows(tabs[Nth(filled, n)], counted, isPk)
    BY <2>2 DEF ss
  <2> QED BY <1>14, <2>3
<1> HIDE DEF filled
<1>16. RowsToSchemaObjects(FlattenSeq(ss)) =
          [n \in 1..Cardinality(L) |-> ObjectOfBlock(TableRows(d.tables[Nth(L, n)], counted, isPk))]
  BY <1>12, <1>14, <1>15
<1> QED BY <1>1, <1>16 DEF L

\* What is certain of an object that stands for the table t, whatever the join
\* made of its key: its fields are the columns of t, each once or more often.
Reflects(o, t) ==
    /\ o.name = t.name
    /\ \E n \in Nat : DOMAIN o.fields = 1..n
    /\ \A j \in DOMAIN o.fields : \E i \in DOMAIN t.cols :
          /\ o.fields[j].name = t.cols[i].name /\ o.fields[j].type = t.cols[i].type
          /\ o.fields[j].comment = t.cols[i].comment
    /\ \A i \in DOMAIN t.cols : \E j \in DOMAIN o.fields : o.fields[j].name = t.cols[i].name

\* And of one whose rows are one for each column.
Describes(o, t, isPk) ==
    /\ DOMAIN o.fields = DOMAIN t.cols /\ Len(o.fields) = Len(t.cols)
    /\ \A j \in DOMAIN t.cols :
          o.fields[j] = [name |-> t.cols[j].name, type |-> t.cols[j].type, comment |-> t.cols[j].comment,
                         pk |-> isPk[t][t.cols[j].name][1]]

LEMMA ObjectOfTable ==
    ASSUME NEW t, IsSequence(t.cols), t.cols # <<>>, NEW counted, NEW isPk, Marked(t, isPk)
    PROVE  LET o == ObjectOfBlock(TableRows(t, counted, isPk))
           IN  /\ Reflects(o, t) /\ o.ns = t.ns
               /\ (\A c \in Columns(t) : Len(isPk[t][c]) = 1) => Describes(o, t, isPk)
<1> DEFINE b == TableRows(t, counted, isPk)
           o == ObjectOfBlock(b)
<1>1. /\ b \in Seq(RowsAbout(t, counted)) /\ b # <<>> /\ Covers(b, t, counted)
      /\ (\A c \in Columns(t) : Len(isPk[t][c]) = 1) => InPlace(b, t, counted, isPk)
  BY RowsOfTable
<1> HIDE DEF b
<1>2. Len(b) \in Nat \ {0} /\ DOMAIN b = 1..Len(b) /\ \A i \in 1..Len(b) : b[i] \in RowsAbout(t, counted)
  BY <1>1, LenProperties, ElementOfSeq, EmptySeq
<1>3. /\ o.ns = b[1].ns /\ o.name = b[1].name
      /\ DOMAIN o.fields = 1..Len(b) /\ Len(o.fields) = Len(b) /\ \A j \in 1..Len(b) : o.fields[j] = b[j].field
  BY <1>2 DEF ObjectOfBlock
<1> HIDE DEF o
<1>4. o.ns = t.ns /\ o.name = t.name
  <2>1. b[1] \in RowsAbout(t, counted)
    BY <1>2
  <2>2. b[1].ns = t.ns /\ b[1].name = t.name
    BY <2>1, RowsAreAbout
  <2> QED BY <1>3, <2>2
<1>5. ASSUME NEW j \in DOMAIN o.fields
      PROVE  \E i \in DOMAIN t.cols : /\ o.fields[j].name = t.cols[i].name /\ o.fields[j].type = t.cols[i].type
                                      /\ o.fields[j].comment = t.cols[i].comment
  <2>1. b[j] \in RowsAbout(t, counted) /\ o.fields[j] = b[j].field
    BY <1>2, <1>3
  <2> QED BY <2>1, RowsAreAbout
<1>6. ASSUME NEW i \in DOMAIN t.cols
      PROVE  \E j \in DOMAIN o.fields : o.fields[j].name = t.cols[i].name
  <2>1. PICK j \in DOMAIN b : \E pk : b[j] = RowOf(t, t.cols[i], counted, pk)
    BY <1>1 DEF Covers
  <2>2. b[j].field.name = t.cols[i].name
    BY <2>1, SMTT(30) DEF RowOf
  <2> QED BY <1>2, <1>3, <2>2
<1>7. Reflects(o, t)
  BY <1>2, <1>3, <1>4, <1>5, <1>6 DEF Reflects
<1>8. ASSUME \A c \in Columns(t) : Len(isPk[t][c]) = 1
      PROVE  Describes(o, t, isPk)
  <2>1. Len(b) = Len(t.cols) /\ DOMAIN t.cols = 1..Len(t.cols)
    BY <1>1, <1>8, LenProperties DEF IsSequence, InPlace
  <2>2. ASSUME NEW j \in DOMAIN t.cols
        PROVE  o.fields[j] = [name |-> t.cols[j].name, type |-> t.cols[j].type, comment |-> t.cols[j].comment,
                              pk |-> isPk[t][t.cols[j].name][1]]
    <3>1. b[j] = RowOf(t, t.cols[j], counted, isPk[t][t.cols[j].name][1]) /\ j \in 1..Len(b)
      BY <1>1, <1>8, <2>1 DEF InPlace
    <3> QED BY <1>3, <3>1 DEF RowOf
  <2> QED BY <1>3, <2>1, <2>2 DEF Describes
<1> QED BY <1>4, <1>7, <1>8 DEF o, b

-----------------------------------------------------------------------------
(* What each engine marks.                                                    *)

LEMMA ImageOfInterval ==
    ASSUME NEW n \in Nat, NEW f, DOMAIN f = 1..n
    PROVE  IsFiniteSet({f[i] : i \in DOMAIN f})
<1> DEFINE T == {f[i] : i \in 1..n}
           g == [i \in 1..n |-> f[i]]
<1>1. IsFiniteSet(1..n)
  BY FS_Interval
<1>2. g \in Surjection(1..n, T)
  BY DEF Surjection
<1> QED BY <1>1, <1>2, FS_Surjection

LEMMA SequencesAreIntervals ==
    ASSUME NEW s, IsSequence(s)
    PROVE  Len(s) \in Nat /\ DOMAIN s = 1..Len(s) /\ IsFiniteSet(DOMAIN s)
<1>1. Len(s) \in Nat /\ DOMAIN s = 1..Len(s)
  BY LenProperties DEF IsSequence
<1> QED BY <1>1, FS_Interval

\* The key columns of a catalog are finitely many.
LEMMA KeyColumnsFinite ==
    ASSUME NEW d, IsDatabase(d)
    PROVE  IsFiniteSet(KeyColumns(d))
<1> DEFINE pks(t) == [p \in DOMAIN t.pk.cols |-> [ns |-> t.ns, table |-> t.name, con |-> t.pk.name, col |-> t.pk.cols[p], pos |-> p]]
           ofKey(t, f) == [p \in DOMAIN t.fks[f].cols |->
                              [ns |-> t.ns, table |-> t.name, con |-> t.fks[f].name, col |-> t.fks[f].cols[p], pos |-> p]]
           fks(t) == [f \in DOMAIN t.fks |-> {ofKey(t, f)[p] : p \in DOMAIN ofKey(t, f)}]
           all == [i \in DOMAIN d.tables |->
                      {pks(d.tables[i])[p] : p \in DOMAIN pks(d.tables[i])} \cup
                      UNION {fks(d.tables[i])[f] : f \in DOMAIN fks(d.tables[i])}]
<1>1. KeyColumns(d) = UNION {all[i] : i \in DOMAIN all}
  <2> DEFINE pkSet(t) == {[ns |-> t.ns, table |-> t.name, con |-> t.pk.name, col |-> t.pk.cols[p], pos |-> p]
                            : p \in DOMAIN t.pk.cols}
             fkSet(t, f) == {[ns |-> t.ns, table |-> t.name, con |-> t.fks[f].name, col |-> t.fks[f].cols[p], pos |-> p]
                            : p \in DOMAIN t.fks[f].cols}
             tableSet(t) == pkSet(t) \cup UNION {fkSet(t, f) : f \in DOMAIN t.fks}
  <2>1. KeyColumns(d) = UNION {tableSet(d.tables[i]) : i \in DOMAIN d.tables}
    BY Zenon DEF KeyColumns
  <2>2. ASSUME NEW t PROVE {pks(t)[p] : p \in DOMAIN pks(t)} = pkSet(t)
    OBVIOUS
  <2>3. ASSUME NEW t, NEW f \in DOMAIN t.fks PROVE fks(t)[f] = fkSet(t, f)
    OBVIOUS
  <2>4. ASSUME NEW t PROVE {fks(t)[f] : f \in DOMAIN fks(t)} = {fkSet(t, f) : f \in DOMAIN t.fks}
    <3>1. DOMAIN fks(t) = DOMAIN t.fks
      OBVIOUS
    <3> HIDE DEF fks, fkSet
    <3> QED BY <2>3, <3>1
  <2>5. ASSUME NEW i \in DOMAIN d.tables PROVE all[i] = tableSet(d.tables[i])
    <3>1. all[i] = {pks(d.tables[i])[p] : p \in DOMAIN pks(d.tables[i])} \cup
                   UNION {fks(d.tables[i])[f] : f \in DOMAIN fks(d.tables[i])}
      BY Zenon
    <3> HIDE DEF all, pks, fks, pkSet, fkSet
    <3> QED BY <2>2, <2>4, <3>1
  <2>6. DOMAIN all = DOMAIN d.tables
    OBVIOUS
  <2> HIDE DEF all, tableSet
  <2> QED BY <2>1, <2>5, <2>6
<1>2. ASSUME NEW i \in DOMAIN d.tables PROVE IsFiniteSet(all[i])
  <2> DEFINE t == d.tables[i]
  <2>1. IsSequence(t.pk.cols) /\ IsSequence(t.fks) /\ \A f \in DOMAIN t.fks : IsSequence(t.fks[f].cols)
    BY DEF IsDatabase, IsTable, IsForeignKey
  <2> HIDE DEF t
  <2>2. IsFiniteSet({pks(t)[p] : p \in DOMAIN pks(t)})
    <3>1. Len(t.pk.cols) \in Nat /\ DOMAIN pks(t) = 1..Len(t.pk.cols)
      BY <2>1, SequencesAreIntervals
    <3> HIDE DEF pks
    <3> QED BY <3>1, ImageOfInterval
  <2>3. \A f \in DOMAIN t.fks : IsFiniteSet(fks(t)[f])
    <3> SUFFICES ASSUME NEW f \in DOMAIN t.fks PROVE IsFiniteSet({ofKey(t, f)[p] : p \in DOMAIN ofKey(t, f)})
      OBVIOUS
    <3>1. Len(t.fks[f].cols) \in Nat /\ DOMAIN ofKey(t, f) = 1..Len(t.fks[f].cols)
      BY <2>1, SequencesAreIntervals
    <3> HIDE DEF ofKey
    <3> QED BY <3>1, ImageOfInterval
  <2>4. IsFiniteSet({fks(t)[f] : f \in DOMAIN fks(t)})
    <3>1. Len(t.fks) \in Nat /\ DOMAIN fks(t) = 1..Len(t.fks)
      BY <2>1, SequencesAreIntervals
    <3> HIDE DEF fks
    <3> QED BY <3>1, ImageOfInterval
  <2>5. IsFiniteSet(UNION {fks(t)[f] : f \in DOMAIN fks(t)})
    <3>1. \A T \in {fks(t)[f] : f \in DOMAIN fks(t)} : IsFiniteSet(T)
      BY <2>3
    <3> HIDE DEF fks
    <3> QED BY <2>4, <3>1, FS_UNION
  <2>6. all[i] = {pks(t)[p] : p \in DOMAIN pks(t)} \cup UNION {fks(t)[f] : f \in DOMAIN fks(t)}
    BY Zenon DEF t
  <2> HIDE DEF pks, fks, all
  <2> QED BY <2>2, <2>5, <2>6, FS_Union, ZenonT(60)
<1>3. IsFiniteSet({all[i] : i \in DOMAIN all})
  <2>1. Len(d.tables) \in Nat /\ DOMAIN all = 1..Len(d.tables)
    BY SequencesAreIntervals DEF IsDatabase
  <2> HIDE DEF all
  <2> QED BY <2>1, ImageOfInterval
<1>4. \A T \in {all[i] : i \in DOMAIN all} : IsFiniteSet(T)
  BY <1>2, ZenonT(60)
<1> HIDE DEF all
<1> QED BY <1>1, <1>3, <1>4, FS_UNION

LEMMA LeftJoinMarks ==
    ASSUME NEW n \in Nat
    PROVE  /\ LeftJoin(n) \in Seq(BOOLEAN) /\ LeftJoin(n) # <<>>
           /\ n = 0 => Len(LeftJoin(n)) = 1 /\ LeftJoin(n)[1] = FALSE
           /\ n = 1 => Len(LeftJoin(n)) = 1 /\ LeftJoin(n)[1] = TRUE
<1>1. CASE n = 0
  BY <1>1 DEF LeftJoin
<1>2. CASE n # 0
  <2>1. LeftJoin(n) = [i \in 1..n |-> TRUE]
    BY <1>2 DEF LeftJoin
  <2>2. LeftJoin(n) \in [1..n -> BOOLEAN]
    BY <2>1
  <2>3. LeftJoin(n) \in Seq(BOOLEAN)
    BY <2>2, SeqDef
  <2>4. Len(LeftJoin(n)) = n /\ DOMAIN LeftJoin(n) = 1..n
    BY <2>1
  <2>5. LeftJoin(n) # <<>>
    BY <1>2, <2>3, <2>4, EmptySeq
  <2> QED BY <1>2, <2>1, <2>3, <2>4, <2>5
<1> QED BY <1>1, <1>2

Exact(e, d) ==
    \/ e \in {"mysql", "clickhouse"}
    \/ /\ e = "postgresql"
       /\ \A x, y \in KeyColumns(d) : x.con = y.con => x.ns = y.ns /\ x.table = y.table

MarkedRightly(t, isPk) == \A c \in Columns(t) : isPk[t][c] = <<Contains(t.pk.cols, c)>>

\* The rows of an engine are those of a query whose join marks each column of
\* each table once or more often; exactly once, and rightly, where e is exact.
AreRowsOf(rows, e, d, ns, ref) ==
    \E counted, isPk :
        /\ rows = RowsToSchemaObjects(SchemaRows(d, ns, ref, counted, isPk))
        /\ \A i \in DOMAIN d.tables : Marked(d.tables[i], isPk)
        /\ Exact(e, d) => \A i \in DOMAIN d.tables : MarkedRightly(d.tables[i], isPk)

LEMMA RightlyIsMarked ==
    ASSUME NEW t, NEW isPk, MarkedRightly(t, isPk)
    PROVE  /\ Marked(t, isPk)
           /\ \A c \in Columns(t) : Len(isPk[t][c]) = 1 /\ isPk[t][c][1] = Contains(t.pk.cols, c)
<1> SUFFICES ASSUME NEW c \in Columns(t)
             PROVE  /\ isPk[t][c] \in Seq(BOOLEAN) /\ isPk[t][c] # <<>>
                    /\ Len(isPk[t][c]) = 1 /\ isPk[t][c][1] = Contains(t.pk.cols, c)
  BY Zenon DEF Marked
<1>1. Contains(t.pk.cols, c) \in BOOLEAN
  BY DEF Contains
<1>2. ASSUME NEW b \in BOOLEAN, NEW s, s = <<b>>
      PROVE  s \in Seq(BOOLEAN) /\ s # <<>> /\ Len(s) = 1 /\ s[1] = b
  BY <1>2
<1>3. isPk[t][c] = <<Contains(t.pk.cols, c)>>
  BY DEF MarkedRightly
<1> QED BY <1>1, <1>2, <1>3, Zenon

LEMMA MarkedOnce ==
    ASSUME NEW e, NEW d, NEW ns, NEW ref, NEW counted
    PROVE  LET isPk == [t \in ToSet(d.tables) |-> [c \in Columns(t) |-> <<Contains(t.pk.cols, c)>>]]
           IN  AreRowsOf(RowsToSchemaObjects(SchemaRows(d, ns, ref, counted, isPk)), e, d, ns, ref)
<1> DEFINE isPk == [t \in ToSet(d.tables) |-> [c \in Columns(t) |-> <<Contains(t.pk.cols, c)>>]]
<1>1. ASSUME NEW i \in DOMAIN d.tables, NEW c \in Columns(d.tables[i])
      PROVE  isPk[d.tables[i]][c] = <<Contains(d.tables[i].pk.cols, c)>>
  BY DEF ToSet
<1> HIDE DEF isPk
<1>3. \A i \in DOMAIN d.tables : MarkedRightly(d.tables[i], isPk)
  BY <1>1 DEF MarkedRightly
<1>4. \A i \in DOMAIN d.tables : Marked(d.tables[i], isPk)
  BY <1>3, RightlyIsMarked
<1>5. AreRowsOf(RowsToSchemaObjects(SchemaRows(d, ns, ref, counted, isPk)), e, d, ns, ref)
  BY <1>3, <1>4, Zenon DEF AreRowsOf
<1> QED BY <1>5 DEF isPk

\* A left join with finitely many matches marks each column.
LEMMA MarkedByJoin ==
    ASSUME NEW d, NEW M, \A i \in DOMAIN d.tables : \A c \in Columns(d.tables[i]) : M[d.tables[i]][c] \in Nat,
           NEW isPk, \A i \in DOMAIN d.tables : \A c \in Columns(d.tables[i]) :
                        isPk[d.tables[i]][c] = LeftJoin(M[d.tables[i]][c])
    PROVE  \A i \in DOMAIN d.tables : Marked(d.tables[i], isPk)
BY LeftJoinMarks, ZenonT(60) DEF Marked

LEMMA MSSQLMarks ==
    ASSUME NEW d, IsDatabase(d), NEW ns, NEW ref
    PROVE  AreRowsOf(MSSQLSchema(d, ns, ref), "mssql", d, ns, ref)
<1> DEFINE Matches(t, c) == {i \in DOMAIN t.indexes : Contains(t.indexes[i].cols, c)}
           M == [t \in ToSet(d.tables) |-> [c \in Columns(t) |-> Cardinality(Matches(t, c))]]
           isPk == [t \in ToSet(d.tables) |-> [c \in Columns(t) |-> LeftJoin(Cardinality(Matches(t, c)))]]
<1>1. ASSUME NEW i \in DOMAIN d.tables, NEW c \in Columns(d.tables[i])
      PROVE  Cardinality(Matches(d.tables[i], c)) \in Nat
  <2>1. IsFiniteSet(DOMAIN d.tables[i].indexes)
    BY SequencesAreIntervals DEF IsDatabase, IsTable
  <2>2. Matches(d.tables[i], c) \in SUBSET DOMAIN d.tables[i].indexes
    OBVIOUS
  <2> HIDE DEF Matches
  <2> QED BY <2>1, <2>2, FS_Subset, FS_CardinalityType
<1> HIDE DEF Matches
<1>2. ASSUME NEW i \in DOMAIN d.tables, NEW c \in Columns(d.tables[i])
      PROVE  /\ M[d.tables[i]][c] = Cardinality(Matches(d.tables[i], c))
             /\ isPk[d.tables[i]][c] = LeftJoin(Cardinality(Matches(d.tables[i], c)))
  BY DEF ToSet
<1>3. MSSQLSchema(d, ns, ref) = RowsToSchemaObjects(SchemaRows(d, ns, ref, FALSE, isPk))
  BY Zenon DEF MSSQLSchema, Matches
<1> HIDE DEF M, isPk
<1>4. \A i \in DOMAIN d.tables : Marked(d.tables[i], isPk)
  <2>1. \A i \in DOMAIN d.tables : \A c \in Columns(d.tables[i]) : M[d.tables[i]][c] \in Nat
    BY <1>1, <1>2
  <2>2. \A i \in DOMAIN d.tables : \A c \in Columns(d.tables[i]) :
           isPk[d.tables[i]][c] = LeftJoin(M[d.tables[i]][c])
    BY <1>2
  <2> QED BY <2>1, <2>2, MarkedByJoin
<1>5. ~Exact("mssql", d)
  BY DEF Exact
<1> QED BY <1>3, <1>4, <1>5, Zenon DEF AreRowsOf

LEMMA TiberoMarks ==
    ASSUME NEW d, IsDatabase(d), NEW ns, NEW ref
    PROVE  AreRowsOf(TiberoSchema(d, ns, ref), "tibero", d, ns, ref)
<1> DEFINE Matches(t, c) == IF ~Contains(t.pk.cols, c) THEN {}
                            ELSE {i \in DOMAIN d.tables : d.tables[i].pk.name = t.pk.name}
           n(t, c) == Cardinality(Matches(t, c))
           isPk == [t \in ToSet(d.tables) |-> [c \in Columns(t) |-> [x \in DOMAIN LeftJoin(n(t, c)) |-> TRUE]]]
<1>1. ASSUME NEW i \in DOMAIN d.tables, NEW c \in Columns(d.tables[i])
      PROVE  n(d.tables[i], c) \in Nat
  <2>1. IsFiniteSet(DOMAIN d.tables)
    BY SequencesAreIntervals DEF IsDatabase
  <2>2. Matches(d.tables[i], c) \in SUBSET DOMAIN d.tables
    OBVIOUS
  <2> HIDE DEF Matches
  <2> QED BY <2>1, <2>2, FS_Subset, FS_CardinalityType
<1>2. TiberoSchema(d, ns, ref) = RowsToSchemaObjects(SchemaRows(d, ns, ref, TRUE, isPk))
  BY Zenon DEF TiberoSchema, Map
<1> HIDE DEF n
<1>3. ASSUME NEW i \in DOMAIN d.tables, NEW c \in Columns(d.tables[i])
      PROVE  isPk[d.tables[i]][c] = [x \in DOMAIN LeftJoin(n(d.tables[i], c)) |-> TRUE]
  BY DEF ToSet
<1> HIDE DEF isPk
<1>4. ASSUME NEW m \in Nat
      PROVE  [x \in DOMAIN LeftJoin(m) |-> TRUE] \in Seq(BOOLEAN) /\ [x \in DOMAIN LeftJoin(m) |-> TRUE] # <<>>
  <2> DEFINE s == LeftJoin(m)
             r == [x \in DOMAIN s |-> TRUE]
  <2>1. s \in Seq(BOOLEAN) /\ s # <<>>
    BY LeftJoinMarks
  <2> HIDE DEF s
  <2>2. Len(s) \in Nat \ {0} /\ DOMAIN s = 1..Len(s)
    BY <2>1, LenProperties, EmptySeq
  <2>3. r \in [1..Len(s) -> BOOLEAN] /\ 1 \in DOMAIN r
    BY <2>2
  <2>4. r \in Seq(BOOLEAN)
    BY <2>2, <2>3, SeqDef
  <2>5. r # <<>>
    BY <2>3
  <2> QED BY <2>4, <2>5 DEF s
<1>5. \A i \in DOMAIN d.tables : Marked(d.tables[i], isPk)
  <2> SUFFICES ASSUME NEW i \in DOMAIN d.tables, NEW c \in Columns(d.tables[i])
               PROVE  isPk[d.tables[i]][c] \in Seq(BOOLEAN) /\ isPk[d.tables[i]][c] # <<>>
    BY Zenon DEF Marked
  <2>1. n(d.tables[i], c) \in Nat
    BY <1>1
  <2> HIDE DEF n
  <2> QED BY <1>3, <1>4, <2>1
<1>6. ~Exact("tibero", d)
  BY DEF Exact
<1> QED BY <1>2, <1>5, <1>6, Zenon DEF AreRowsOf

\* The key columns that match a column of the table at i by the name of its key:
\* finitely many, and where no two tables share the name of a constraint one
\* for a column of the key, none for another.
PKMatches(d, t, c) == IF t.pk.cols = <<>> THEN {} ELSE {k \in KeyColumns(d) : k.con = t.pk.name /\ k.col = c}

LEMMA WhoseKeyColumn ==
    ASSUME NEW d, NEW k
    PROVE  k \in KeyColumns(d) <=>
              \E i \in DOMAIN d.tables :
                 /\ k.ns = d.tables[i].ns /\ k.table = d.tables[i].name
                 /\ \/ \E p \in DOMAIN d.tables[i].pk.cols :
                          k = [ns |-> d.tables[i].ns, table |-> d.tables[i].name, con |-> d.tables[i].pk.name,
                               col |-> d.tables[i].pk.cols[p], pos |-> p]
                    \/ \E f \in DOMAIN d.tables[i].fks : \E p \in DOMAIN d.tables[i].fks[f].cols :
                          k = [ns |-> d.tables[i].ns, table |-> d.tables[i].name, con |-> d.tables[i].fks[f].name,
                               col |-> d.tables[i].fks[f].cols[p], pos |-> p]
<1> DEFINE pkSet(t) == {[ns |-> t.ns, table |-> t.name, con |-> t.pk.name, col |-> t.pk.cols[p], pos |-> p]
                          : p \in DOMAIN t.pk.cols}
           fkSet(t, f) == {[ns |-> t.ns, table |-> t.name, con |-> t.fks[f].name, col |-> t.fks[f].cols[p], pos |-> p]
                          : p \in DOMAIN t.fks[f].cols}
           tableSet(t) == pkSet(t) \cup UNION {fkSet(t, f) : f \in DOMAIN t.fks}
<1>1. KeyColumns(d) = UNION {tableSet(d.tables[i]) : i \in DOMAIN d.tables}
  BY Zenon DEF KeyColumns
<1>2. ASSUME NEW t
      PROVE  k \in tableSet(t) <=>
                \/ \E p \in DOMAIN t.pk.cols :
                      k = [ns |-> t.ns, table |-> t.name, con |-> t.pk.name, col |-> t.pk.cols[p], pos |-> p]
                \/ \E f \in DOMAIN t.fks : \E p \in DOMAIN t.fks[f].cols :
                      k = [ns |-> t.ns, table |-> t.name, con |-> t.fks[f].name, col |-> t.fks[f].cols[p], pos |-> p]
  <2>1. k \in tableSet(t) <=> k \in pkSet(t) \/ \E f \in DOMAIN t.fks : k \in fkSet(t, f)
    <3> HIDE DEF pkSet, fkSet
    <3> QED OBVIOUS
  <2> QED BY <2>1, Zenon
<1>3. k \in KeyColumns(d) <=> \E i \in DOMAIN d.tables : k \in tableSet(d.tables[i])
  <2> HIDE DEF tableSet
  <2> QED BY <1>1, SMTT(30)
<1>4. ASSUME NEW i \in DOMAIN d.tables, k \in tableSet(d.tables[i])
      PROVE  k.ns = d.tables[i].ns /\ k.table = d.tables[i].name
  BY <1>4, <1>2
<1> HIDE DEF tableSet
<1> QED BY <1>2, <1>3, <1>4, ZenonT(60)

LEMMA PKMatchesCount ==
    ASSUME NEW d, IsDatabase(d), NEW i \in DOMAIN d.tables, NEW c
    PROVE  /\ Cardinality(PKMatches(d, d.tables[i], c)) \in Nat
           /\ Exact("postgresql", d) =>
                 Cardinality(PKMatches(d, d.tables[i], c)) = IF Contains(d.tables[i].pk.cols, c) THEN 1 ELSE 0
<1> DEFINE t == d.tables[i]
           K == PKMatches(d, t, c)
<1>1. Cardinality(K) \in Nat
  <2>1. K \in SUBSET KeyColumns(d)
    BY DEF PKMatches
  <2> HIDE DEF K
  <2> QED BY <2>1, KeyColumnsFinite, FS_Subset, FS_CardinalityType
<1>2. /\ IsSequence(t.pk.cols) /\ DOMAIN t.pk.cols = 1..Len(t.pk.cols) /\ Len(t.pk.cols) \in Nat
      /\ \A p, q \in DOMAIN t.pk.cols : t.pk.cols[p] = t.pk.cols[q] => p = q
      /\ \A f \in DOMAIN t.fks : t.fks[f].name # t.pk.name
  <2>1. IsTable(d, t)
    BY DEF IsDatabase
  <2> HIDE DEF t
  <2>2. IsSequence(t.pk.cols)
    BY <2>1 DEF IsTable
  <2> QED BY <2>1, <2>2, SequencesAreIntervals DEF IsTable
<1> DEFINE at(p) == [ns |-> t.ns, table |-> t.name, con |-> t.pk.name, col |-> t.pk.cols[p], pos |-> p]
<1>3. \A p \in DOMAIN t.pk.cols : at(p) \in KeyColumns(d)
  <2> SUFFICES ASSUME NEW p \in DOMAIN t.pk.cols PROVE at(p) \in KeyColumns(d)
    OBVIOUS
  <2>1. at(p).ns = d.tables[i].ns /\ at(p).table = d.tables[i].name
    OBVIOUS
  <2> QED BY <2>1, WhoseKeyColumn
<1>4. ASSUME Exact("postgresql", d), NEW k \in K
      PROVE  \E p \in DOMAIN t.pk.cols : k = at(p) /\ t.pk.cols[p] = c
  <2>1. t.pk.cols # <<>> /\ k \in KeyColumns(d) /\ k.con = t.pk.name /\ k.col = c
    BY DEF PKMatches
  <2>2. 1 \in DOMAIN t.pk.cols
    BY <1>2, <2>1, EmptySeq DEF IsSequence
  <2>3. at(1) \in KeyColumns(d) /\ at(1).con = k.con
    BY <1>3, <2>1, <2>2
  <2>4. \A x, y \in KeyColumns(d) : x.con = y.con => x.ns = y.ns /\ x.table = y.table
    BY <1>4 DEF Exact
  <2>5. k.ns = t.ns /\ k.table = t.name
    <3>1. k.ns = at(1).ns /\ k.table = at(1).table
      <4> HIDE DEF at
      <4> QED BY <2>1, <2>3, <2>4
    <3> QED BY <3>1
  <2>6. PICK l \in DOMAIN d.tables :
           /\ k.ns = d.tables[l].ns /\ k.table = d.tables[l].name
           /\ \/ \E p \in DOMAIN d.tables[l].pk.cols :
                    k = [ns |-> d.tables[l].ns, table |-> d.tables[l].name, con |-> d.tables[l].pk.name,
                         col |-> d.tables[l].pk.cols[p], pos |-> p]
              \/ \E f \in DOMAIN d.tables[l].fks : \E p \in DOMAIN d.tables[l].fks[f].cols :
                    k = [ns |-> d.tables[l].ns, table |-> d.tables[l].name, con |-> d.tables[l].fks[f].name,
                         col |-> d.tables[l].fks[f].cols[p], pos |-> p]
    BY <2>1, WhoseKeyColumn, SMTT(30)
  <2>7. l = i
    BY <2>5, <2>6 DEF IsDatabase
  <2>8. ~\E f \in DOMAIN t.fks : \E p \in DOMAIN t.fks[f].cols :
           k = [ns |-> t.ns, table |-> t.name, con |-> t.fks[f].name, col |-> t.fks[f].cols[p], pos |-> p]
    <3> HIDE DEF t
    <3> QED BY <1>2, <2>1
  <2>9. PICK p \in DOMAIN t.pk.cols : k = at(p)
    BY <2>6, <2>7, <2>8
  <2>10. k.col = t.pk.cols[p]
    BY <2>9
  <2> QED BY <2>1, <2>9, <2>10
<1>5. ASSUME Exact("postgresql", d) PROVE Cardinality(K) = IF Contains(t.pk.cols, c) THEN 1 ELSE 0
  <2>1. CASE Contains(t.pk.cols, c)
    <3>1. PICK p \in DOMAIN t.pk.cols : t.pk.cols[p] = c
      BY <1>2, <2>1 DEF Contains
    <3>2. t.pk.cols # <<>>
      BY <3>1
    <3>3. at(p) \in K
      <4>1. at(p).con = t.pk.name /\ at(p).col = c
        BY <3>1
      <4> HIDE DEF at
      <4> QED BY <1>3, <3>2, <4>1 DEF PKMatches
    <3>4. \A k \in K : k = at(p)
      <4> SUFFICES ASSUME NEW k \in K PROVE k = at(p)
        OBVIOUS
      <4>1. PICK q \in DOMAIN t.pk.cols : k = at(q) /\ t.pk.cols[q] = c
        BY <1>4, <1>5
      <4>2. q = p
        BY <1>2, <3>1, <4>1
      <4> QED BY <4>1, <4>2
    <3>5. K = {at(p)}
      <4> HIDE DEF K, at
      <4> QED BY <3>3, <3>4
    <3>6. Cardinality({at(p)}) = 1
      BY FS_Singleton
    <3> QED BY <2>1, <3>5, <3>6
  <2>2. CASE ~Contains(t.pk.cols, c)
    <3>1. K = {}
      <4> SUFFICES ASSUME NEW k \in K PROVE FALSE
        OBVIOUS
      <4>1. PICK q \in DOMAIN t.pk.cols : k = at(q) /\ t.pk.cols[q] = c
        BY <1>4, <1>5
      <4> QED BY <1>2, <2>2, <4>1 DEF Contains
    <3> QED BY <2>2, <3>1, FS_EmptySet
  <2> QED BY <2>1, <2>2
<1> QED BY <1>1, <1>5

LEMMA PostgreSQLMarks ==
    ASSUME NEW d, IsDatabase(d), NEW ns, NEW ref
    PROVE  AreRowsOf(PostgreSQLSchema(d, ns, ref), "postgresql", d, ns, ref)
<1> DEFINE n(t, c) == Cardinality(PKMatches(d, t, c))
           isPk == [t \in ToSet(d.tables) |-> [c \in Columns(t) |-> LeftJoin(n(t, c))]]
<1>1. PostgreSQLSchema(d, ns, ref) = RowsToSchemaObjects(SchemaRows(d, ns, ref, FALSE, isPk))
  BY Zenon DEF PostgreSQLSchema, PKMatches
<1>2. ASSUME NEW i \in DOMAIN d.tables, NEW c \in Columns(d.tables[i])
      PROVE  isPk[d.tables[i]][c] = LeftJoin(n(d.tables[i], c))
  <2> HIDE DEF n
  <2> QED BY DEF ToSet
<1>3. \A i \in DOMAIN d.tables : \A c : n(d.tables[i], c) \in Nat
  BY PKMatchesCount
<1> HIDE DEF isPk
<1>4. \A i \in DOMAIN d.tables : Marked(d.tables[i], isPk)
  <2> SUFFICES ASSUME NEW i \in DOMAIN d.tables, NEW c \in Columns(d.tables[i])
               PROVE  isPk[d.tables[i]][c] \in Seq(BOOLEAN) /\ isPk[d.tables[i]][c] # <<>>
    BY Zenon DEF Marked
  <2>1. n(d.tables[i], c) \in Nat
    BY <1>3
  <2> HIDE DEF n
  <2> QED BY <1>2, <2>1, LeftJoinMarks
<1>5. ASSUME Exact("postgresql", d), NEW i \in DOMAIN d.tables, NEW c \in Columns(d.tables[i])
      PROVE  isPk[d.tables[i]][c] = <<Contains(d.tables[i].pk.cols, c)>>
  <2>1. n(d.tables[i], c) = IF Contains(d.tables[i].pk.cols, c) THEN 1 ELSE 0
    BY <1>5, PKMatchesCount
  <2> HIDE DEF n
  <2>2. CASE Contains(d.tables[i].pk.cols, c)
    <3>1. LeftJoin(1) = <<TRUE>>
      <4>1. LeftJoin(1) = [x \in 1..1 |-> TRUE]
        BY DEF LeftJoin
      <4>2. ASSUME NEW b PROVE [x \in 1..1 |-> b] = <<b>>
        OBVIOUS
      <4>3. [x \in 1..1 |-> TRUE] = <<TRUE>>
        BY <4>2, Zenon
      <4> QED BY <4>1, <4>3
    <3>2. Contains(d.tables[i].pk.cols, c) = TRUE
      BY <2>2
    <3>3. isPk[d.tables[i]][c] = <<TRUE>>
      BY <1>2, <2>1, <2>2, <3>1
    <3> QED BY <3>2, <3>3, Zenon
  <2>3. CASE ~Contains(d.tables[i].pk.cols, c)
    <3>1. LeftJoin(0) = <<FALSE>>
      BY DEF LeftJoin
    <3>2. Contains(d.tables[i].pk.cols, c) = FALSE
      BY <2>3 DEF Contains
    <3>3. isPk[d.tables[i]][c] = <<FALSE>>
      BY <1>2, <2>1, <2>3, <3>1
    <3> QED BY <3>2, <3>3, Zenon
  <2> QED BY <2>2, <2>3
<1>6. Exact("postgresql", d) => \A i \in DOMAIN d.tables : MarkedRightly(d.tables[i], isPk)
  BY <1>5 DEF MarkedRightly
<1> QED BY <1>1, <1>4, <1>6, Zenon DEF AreRowsOf

-----------------------------------------------------------------------------
(* What get_schema says of the tables, by engine.                             *)

\* The table has no other columns, and its key is marked.
DescribesRightly(o, t) ==
    /\ Len(o.fields) = Len(t.cols)
    /\ \A j \in DOMAIN t.cols :
          o.fields[j] = [name |-> t.cols[j].name, type |-> t.cols[j].type, comment |-> t.cols[j].comment,
                         pk |-> Contains(t.pk.cols, t.cols[j].name)]

LEMMA FunctionsAreSequences ==
    ASSUME NEW n \in Nat, NEW s, s = [i \in 1..n |-> s[i]]
    PROVE  DOMAIN s = 1..n /\ Len(s) = n /\ IsSequence(s)
<1>1. DOMAIN s = 1..n /\ s \in [1..n -> ToSet(s)]
  BY DEF ToSet
<1>2. s \in Seq(ToSet(s))
  BY <1>1, SeqDef
<1> QED BY <1>1, <1>2 DEF IsSequence

\* The objects stand for the tables at the positions L of a namespace, in order.
Shows(rows, e, d, ns, L) ==
    /\ L \in SUBSET DOMAIN d.tables /\ L \in SUBSET Nat /\ IsFiniteSet(L)
    /\ Cardinality(L) \in Nat /\ DOMAIN rows = 1..Cardinality(L) /\ Len(rows) = Cardinality(L)
    /\ IsSequence(rows)
    /\ \A n \in 1..Cardinality(L) :
          /\ Nth(L, n) \in L
          /\ Reflects(rows[n], d.tables[Nth(L, n)]) /\ rows[n].ns = Space(d, ns)
          /\ Exact(e, d) => DescribesRightly(rows[n], d.tables[Nth(L, n)])

LEMMA RowsTell ==
    ASSUME NEW e, NEW d, IsDatabase(d), NEW ns, NEW ref, NEW rows, AreRowsOf(rows, e, d, ns, ref),
           NEW L, L = WithColumns(d, Space(d, ns), ref)
    PROVE  Shows(rows, e, d, ns, L)
<1>1. PICK counted, isPk :
        /\ rows = RowsToSchemaObjects(SchemaRows(d, ns, ref, counted, isPk))
        /\ \A i \in DOMAIN d.tables : Marked(d.tables[i], isPk)
        /\ Exact(e, d) => \A i \in DOMAIN d.tables : MarkedRightly(d.tables[i], isPk)
  BY Zenon DEF AreRowsOf
<1>2. L \in SUBSET DOMAIN d.tables /\ d.tables \in Seq(ToSet(d.tables))
  BY DEF WithColumns, IsDatabase, IsSequence
<1>3. L \in SUBSET Nat /\ IsFiniteSet(L)
  BY <1>2, PickIsSeq
<1>4. Cardinality(L) \in Nat /\ \A n \in 1..Cardinality(L) : Nth(L, n) \in L
  BY <1>3, NthEnumerates
<1>5. rows = [n \in 1..Cardinality(L) |-> ObjectOfBlock(TableRows(d.tables[Nth(L, n)], counted, isPk))]
  BY <1>1, SchemaObjects
<1>6. DOMAIN rows = 1..Cardinality(L) /\ Len(rows) = Cardinality(L) /\ IsSequence(rows)
  BY <1>4, <1>5, FunctionsAreSequences
<1>7. ASSUME NEW n \in 1..Cardinality(L)
      PROVE  /\ Reflects(rows[n], d.tables[Nth(L, n)]) /\ rows[n].ns = Space(d, ns)
             /\ Exact(e, d) => DescribesRightly(rows[n], d.tables[Nth(L, n)])
  <2> DEFINE t == d.tables[Nth(L, n)]
             o == ObjectOfBlock(TableRows(t, counted, isPk))
  <2>1. rows[n] = o
    BY <1>5, SMTT(30)
  <2>2. Nth(L, n) \in DOMAIN d.tables /\ t.cols # <<>> /\ t.ns = Space(d, ns)
    BY <1>4 DEF WithColumns
  <2>3. IsSequence(t.cols) /\ Marked(t, isPk)
    BY <1>1, <2>2 DEF IsDatabase, IsTable
  <2> HIDE DEF t
  <2>4. /\ Reflects(o, t) /\ o.ns = t.ns
        /\ (\A c \in Columns(t) : Len(isPk[t][c]) = 1) => Describes(o, t, isPk)
    BY <2>2, <2>3, ObjectOfTable
  <2> HIDE DEF o
  <2>5. ASSUME Exact(e, d) PROVE DescribesRightly(o, t)
    <3>1. MarkedRightly(t, isPk)
      BY <1>1, <2>2, <2>5 DEF t
    <3>2. \A c \in Columns(t) : Len(isPk[t][c]) = 1 /\ isPk[t][c][1] = Contains(t.pk.cols, c)
      BY <3>1, RightlyIsMarked
    <3>3. Describes(o, t, isPk)
      BY <2>4, <3>2
    <3>4. \A j \in DOMAIN t.cols : isPk[t][t.cols[j].name][1] = Contains(t.pk.cols, t.cols[j].name)
      BY <3>2 DEF Columns
    <3> QED BY <3>3, <3>4, Zenon DEF Describes, DescribesRightly
  <2> QED BY <2>1, <2>2, <2>4, <2>5 DEF t
<1> QED BY <1>2, <1>3, <1>4, <1>6, <1>7 DEF Shows

\* A relational engine and ClickHouse read their objects from rows.
LEMMA SqlSchema ==
    ASSUME NEW e \in Sql, NEW d, IsDatabase(d), NEW ns, NEW ref, Schema(e, d, ns, ref).status = "ok"
    PROVE  Valid(ref) /\ AreRowsOf(Schema(e, d, ns, ref).rows, e, d, ns, ref)
<1>1. Valid(ref)
  BY DEF Schema, Raised
<1>2. CASE e = "mysql"
  <2>1. Schema(e, d, ns, ref).rows = MySQLSchema(d, ns, ref)
    BY <1>1, <1>2 DEF Schema, Ok, Search
  <2>2. AreRowsOf(MySQLSchema(d, ns, ref), e, d, ns, ref)
    BY MarkedOnce, Zenon DEF MySQLSchema
  <2> QED BY <1>1, <2>1, <2>2
<1>3. CASE e = "clickhouse"
  <2>1. Schema(e, d, ns, ref).rows = ClickHouseSchema(d, ns, ref)
    BY <1>1, <1>3 DEF Schema, Ok, Search
  <2>2. AreRowsOf(ClickHouseSchema(d, ns, ref), e, d, ns, ref)
    BY MarkedOnce, Zenon DEF ClickHouseSchema
  <2> QED BY <1>1, <2>1, <2>2
<1>4. CASE e = "postgresql"
  <2>1. Schema(e, d, ns, ref).rows = PostgreSQLSchema(d, ns, ref)
    BY <1>1, <1>4 DEF Schema, Ok, Search
  <2> QED BY <1>1, <1>4, <2>1, PostgreSQLMarks
<1>5. CASE e = "mssql"
  <2>1. Schema(e, d, ns, ref).rows = MSSQLSchema(d, ns, ref)
    BY <1>1, <1>5 DEF Schema, Ok, Search
  <2> QED BY <1>1, <1>5, <2>1, MSSQLMarks
<1>6. CASE e = "tibero"
  <2>1. Schema(e, d, ns, ref).rows = TiberoSchema(d, ns, ref)
    BY <1>1, <1>6 DEF Schema, Ok, Search
  <2> QED BY <1>1, <1>6, <2>1, TiberoMarks
<1> QED BY <1>2, <1>3, <1>4, <1>5, <1>6 DEF Sql, Rdb

LEMMA One ==
    ASSUME NEW x
    PROVE  DOMAIN <<x>> = {1} /\ <<x>>[1] = x /\ Len(<<x>>) = 1 /\ <<x>> # <<>>
<1>1. DOMAIN <<x>> = 1..1
  OBVIOUS
<1> QED BY <1>1

LEMMA None ==
    ASSUME NEW s, IsSequence(s)
    PROVE  DOMAIN s = {} <=> s = <<>>
<1>1. Len(s) \in Nat /\ DOMAIN s = 1..Len(s) /\ (s = <<>> <=> Len(s) = 0)
  BY SequencesAreIntervals, EmptySeq DEF IsSequence
<1> QED BY <1>1

LEMMA Nothing == DOMAIN <<>> = {} /\ IsSequence(<<>>) /\ Len(<<>>) = 0
BY DEF IsSequence

\* The positions of the tables that an operation asks for.
Asked(d, ns, ref) == {k \in DOMAIN d.tables : d.tables[k].ns = ns /\ ref \in {All, Bare(d.tables[k].name)}}

LEMMA AskedArePositions ==
    ASSUME NEW d, IsDatabase(d), NEW ns, NEW ref
    PROVE  /\ Asked(d, ns, ref) \in SUBSET DOMAIN d.tables
           /\ Asked(d, ns, ref) \in SUBSET Nat /\ IsFiniteSet(Asked(d, ns, ref))
           /\ TablesIn(d, ns, ref) = Pick(d.tables, Asked(d, ns, ref))
<1>1. Asked(d, ns, ref) \in SUBSET DOMAIN d.tables /\ d.tables \in Seq(ToSet(d.tables))
  BY DEF Asked, IsDatabase, IsSequence
<1>2. Asked(d, ns, ref) \in SUBSET Nat /\ IsFiniteSet(Asked(d, ns, ref))
  BY <1>1, PickIsSeq
<1>3. TablesIn(d, ns, ref) = Pick(d.tables, Asked(d, ns, ref))
  BY Zenon DEF TablesIn, Asked, Bare
<1> QED BY <1>1, <1>2, <1>3

\* What an operation finds are tables of the namespace.
LEMMA FoundAreTables ==
    ASSUME NEW d, IsDatabase(d), NEW ns, NEW ref
    PROVE  /\ IsSequence(TablesIn(d, ns, ref))
           /\ \A n \in DOMAIN TablesIn(d, ns, ref) : \E i \in DOMAIN d.tables : TablesIn(d, ns, ref)[n] = d.tables[i]
           /\ TablesIn(d, ns, ref) # <<>> => \E i \in DOMAIN d.tables : TablesIn(d, ns, ref)[1] = d.tables[i]
           /\ Found(d, ns, ref) # <<>> => \E i \in DOMAIN d.tables : Found(d, ns, ref)[1] = d.tables[i]
<1> DEFINE I == Asked(d, ns, ref)
           tabs == TablesIn(d, ns, ref)
<1>1. tabs = Pick(d.tables, I) /\ I \in SUBSET DOMAIN d.tables /\ d.tables \in Seq(ToSet(d.tables))
  BY AskedArePositions DEF IsDatabase, IsSequence
<1> HIDE DEF I, tabs
<1>2. tabs \in Seq(ToSet(d.tables))
  BY <1>1, PickIsSeq
<1>3. Len(tabs) \in Nat /\ DOMAIN tabs = 1..Len(tabs) /\ (tabs = <<>> <=> Len(tabs) = 0)
  BY <1>2, LenProperties, EmptySeq
<1>4. \A n \in DOMAIN tabs : \E i \in DOMAIN d.tables : tabs[n] = d.tables[i]
  BY <1>2, <1>3, ElementOfSeq DEF ToSet
<1>5. IsSequence(tabs)
  <2>1. tabs = [n \in 1..Len(tabs) |-> tabs[n]]
    BY <1>2, <1>3
  <2> QED BY <1>3, <2>1, FunctionsAreSequences
<1>6. tabs # <<>> => \E i \in DOMAIN d.tables : tabs[1] = d.tables[i]
  BY <1>3, <1>4
<1>7. ASSUME Take(tabs, 1) # <<>> PROVE tabs # <<>> /\ Take(tabs, 1)[1] = tabs[1]
  <2> DEFINE s == Take(tabs, 1)
  <2>1. s \in Seq(ToSet(d.tables)) /\ \A i \in DOMAIN s : i \in DOMAIN tabs /\ s[i] = tabs[i]
    BY <1>2, TakeShortens
  <2> HIDE DEF s
  <2>2. Len(s) \in Nat \ {0} /\ DOMAIN s = 1..Len(s)
    BY <1>7, <2>1, LenProperties, EmptySeq DEF s
  <2>3. 1 \in DOMAIN s
    BY <2>2
  <2>4. tabs # <<>>
    BY <2>1, <2>3, Nothing
  <2> QED BY <2>1, <2>3, <2>4 DEF s
<1>8. Found(d, ns, ref) = Take(tabs, 1)
  BY DEF Found, tabs
<1> QED BY <1>4, <1>5, <1>6, <1>7, <1>8 DEF tabs

\* The table of a name, if there is one, is the only one.
LEMMA TheTable ==
    ASSUME NEW d, IsDatabase(d), NEW ns, NEW ref, ref.name # All.name, TablesIn(d, ns, ref) # <<>>
    PROVE  \E i \in DOMAIN d.tables :
              /\ d.tables[i].ns = ns /\ ref = Bare(d.tables[i].name)
              /\ Asked(d, ns, ref) = {i}
              /\ TablesIn(d, ns, ref) = <<d.tables[i]>> /\ Found(d, ns, ref) = <<d.tables[i]>>
<1> DEFINE I == Asked(d, ns, ref)
<1>1. TablesIn(d, ns, ref) = Pick(d.tables, I)
  BY AskedArePositions
<1>2. I # {}
  <2> SUFFICES ASSUME I = {} PROVE FALSE
    OBVIOUS
  <2>1. Pick(d.tables, {}) = <<>>
    BY PickNone
  <2> QED BY <1>1, <2>1
<1>3. PICK i : i \in I
  BY <1>2
<1>4. ref # All
  BY Zenon
<1>5. \A k \in I : d.tables[k].ns = ns /\ ref = Bare(d.tables[k].name)
  BY <1>4 DEF Asked
<1>6. I = {i}
  <2> SUFFICES ASSUME NEW k \in I PROVE k = i
    BY <1>3
  <2>1. d.tables[k].ns = d.tables[i].ns /\ d.tables[k].name = d.tables[i].name
    <3> HIDE DEF I
    <3>1. ref = Bare(d.tables[k].name) /\ ref = Bare(d.tables[i].name)
      BY <1>3, <1>5
    <3>3. d.tables[k].name = d.tables[i].name
      BY <3>1, BareNames
    <3> QED BY <1>3, <1>5, <3>3
  <2>2. \A x, y \in DOMAIN d.tables : d.tables[x].ns = d.tables[y].ns /\ d.tables[x].name = d.tables[y].name => x = y
    BY DEF IsDatabase
  <2>3. k \in DOMAIN d.tables /\ i \in DOMAIN d.tables
    BY <1>3 DEF Asked
  <2> QED BY <2>1, <2>2, <2>3
<1>7. i \in DOMAIN d.tables /\ i \in Nat
  <2>1. DOMAIN d.tables = 1..Len(d.tables) /\ Len(d.tables) \in Nat
    BY SequencesAreIntervals DEF IsDatabase
  <2>2. i \in DOMAIN d.tables
    BY <1>3 DEF Asked
  <2> HIDE DEF I
  <2> QED BY <2>1, <2>2
<1>8. Pick(d.tables, {i}) = <<d.tables[i]>>
  BY <1>7, PickOne
<1>9. Take(<<d.tables[i]>>, 1) = <<d.tables[i]>>
  <2>1. ASSUME NEW x PROVE Len(<<x>>) = 1 /\ SubSeq(<<x>>, 1, 1) = <<x>>
    <3>1. <<x>> \in Seq({x}) /\ Len(<<x>>) = 1
      OBVIOUS
    <3> QED BY <3>1, SubSeqFull
  <2> QED BY <2>1 DEF Take, SmallerOf
<1> HIDE DEF I
<1>10. Found(d, ns, ref) = <<d.tables[i]>>
  BY <1>1, <1>6, <1>8, <1>9 DEF Found
<1> QED BY <1>1, <1>3, <1>5, <1>6, <1>7, <1>8, <1>10 DEF I

\* What a search engine says of the tables of its one namespace.
LEMMA SearchSchemaTells ==
    ASSUME NEW d, IsDatabase(d), NEW ref
    PROVE  LET tabs == TablesIn(d, d.default, ref)
               rows == SearchSchema(d, ref)
           IN  /\ IsSequence(rows) /\ DOMAIN rows = DOMAIN tabs /\ IsSequence(tabs)
               /\ \A n \in DOMAIN tabs :
                     Reflects(rows[n], tabs[n]) /\ \E i \in DOMAIN d.tables :
                        /\ tabs[n] = d.tables[i] /\ tabs[n].ns = d.default
                        /\ ref \in {All, Bare(tabs[n].name)}
<1> DEFINE I == Asked(d, d.default, ref)
           tabs == TablesIn(d, d.default, ref)
           rows == SearchSchema(d, ref)
           FieldOf(c) == [name |-> c.name, type |-> c.type, comment |-> c.comment, pk |-> FALSE]
           objectOf(t) == [ns |-> "", name |-> t.name, comment |-> t.comment, count |-> NoCount,
                           fields |-> [j \in DOMAIN t.cols |-> FieldOf(t.cols[j])]]
<1>1. tabs = Pick(d.tables, I) /\ I \in SUBSET Nat /\ IsFiniteSet(I)
  BY AskedArePositions
<1>4. /\ Cardinality(I) \in Nat /\ DOMAIN tabs = 1..Cardinality(I)
      /\ \A n \in DOMAIN tabs : Nth(I, n) \in I /\ tabs[n] = d.tables[Nth(I, n)]
  <2> HIDE DEF I, tabs
  <2> QED BY <1>1, PickEnumerates
<1>5. rows = [n \in DOMAIN tabs |-> objectOf(tabs[n])]
  BY Zenon DEF SearchSchema, Map
<1>6. tabs = [n \in 1..Cardinality(I) |-> tabs[n]]
  BY <1>1 DEF Pick
<1> HIDE DEF tabs, rows, objectOf
<1>7. rows = [n \in 1..Cardinality(I) |-> rows[n]]
  BY <1>4, <1>5
<1>8. IsSequence(rows) /\ IsSequence(tabs) /\ DOMAIN rows = DOMAIN tabs
  <2> HIDE DEF I
  <2> QED BY <1>4, <1>6, <1>7, FunctionsAreSequences
<1>9. ASSUME NEW n \in DOMAIN tabs
      PROVE  Reflects(rows[n], tabs[n]) /\ \E i \in DOMAIN d.tables :
                /\ tabs[n] = d.tables[i] /\ tabs[n].ns = d.default
                /\ ref \in {All, Bare(tabs[n].name)}
  <2>1. Nth(I, n) \in I /\ tabs[n] = d.tables[Nth(I, n)]
    BY <1>4, SMTT(30)
  <2>2. /\ Nth(I, n) \in DOMAIN d.tables /\ d.tables[Nth(I, n)].ns = d.default
        /\ ref \in {All, Bare(d.tables[Nth(I, n)].name)}
    BY <2>1 DEF Asked
  <2> DEFINE t == tabs[n]
  <2>3. IsSequence(t.cols)
    BY <2>1, <2>2 DEF IsDatabase, IsTable
  <2>4. Len(t.cols) \in Nat /\ DOMAIN t.cols = 1..Len(t.cols)
    BY <2>3, SequencesAreIntervals
  <2>5. rows[n] = objectOf(t)
    BY <1>5
  <2> HIDE DEF t
  <2>6. Reflects(objectOf(t), t)
    BY <2>4 DEF Reflects, objectOf
  <2> HIDE DEF I
  <2> QED BY <2>1, <2>2, <2>5, <2>6 DEF t
<1> QED BY <1>8, <1>9 DEF tabs, rows

\* Asked about one name, the engines that keep a catalog answer with nothing or
\* with the one table of that name.
LEMMA SchemaOfOne ==
    ASSUME NEW e \in Sql \cup Search, NEW d, IsDatabase(d), NEW ref, ref.name # All.name,
           NEW ns, Space(d, ns) = d.default,
           Schema(e, d, ns, ref).status = "ok", NEW objects, objects = Schema(e, d, ns, ref).rows
    PROVE  /\ IsSequence(objects)
           /\ \/ objects = <<>>
              \/ \E i \in DOMAIN d.tables :
                    /\ d.tables[i].ns = d.default /\ ref = Bare(d.tables[i].name)
                    /\ TablesIn(d, d.default, ref) = <<d.tables[i]>>
                    /\ DOMAIN objects = {1} /\ Reflects(objects[1], d.tables[i])
<1> DEFINE I == Asked(d, d.default, ref)
           tabs == TablesIn(d, d.default, ref)
<1>1. CASE e \in Sql
  <2> DEFINE L == WithColumns(d, d.default, ref)
  <2>1. AreRowsOf(objects, e, d, ns, ref) /\ L = WithColumns(d, Space(d, ns), ref)
    BY <1>1, SqlSchema
  <2> HIDE DEF L
  <2>2. /\ L \in SUBSET DOMAIN d.tables /\ L \in SUBSET Nat /\ IsFiniteSet(L)
        /\ Cardinality(L) \in Nat /\ DOMAIN objects = 1..Cardinality(L) /\ Len(objects) = Cardinality(L)
        /\ IsSequence(objects)
        /\ \A n \in 1..Cardinality(L) : Nth(L, n) \in L /\ Reflects(objects[n], d.tables[Nth(L, n)])
    <3> HIDE DEF I, tabs
    <3>1. Shows(objects, e, d, ns, L)
      BY <2>1, RowsTell
    <3> QED BY <3>1 DEF Shows
  <2>3. CASE Cardinality(L) = 0
    <3>1. objects = <<>>
      BY <2>2, <2>3, EmptySeq, SMTT(30) DEF IsSequence
    <3> QED BY <2>2, <3>1
  <2>4. CASE Cardinality(L) # 0
    <3>1. 1 \in 1..Cardinality(L)
      <4>1. Cardinality(L) \in Nat
        BY <2>2, SMTT(30)
      <4> QED BY <2>4, <4>1
    <3>2. Nth(L, 1) \in L /\ L \subseteq I
      BY <2>2, <3>1 DEF L, WithColumns, Asked
    <3>3. tabs # <<>>
      <4>1. tabs = Pick(d.tables, I) /\ I \in SUBSET Nat /\ IsFiniteSet(I)
        BY AskedArePositions
      <4> HIDE DEF I, tabs
      <4>2. \E n \in DOMAIN tabs : Nth(I, n) = Nth(L, 1)
        <5>1. \A i \in I : \E n \in DOMAIN tabs : Nth(I, n) = i
          BY <4>1, PickEnumerates
        <5>2. Nth(L, 1) \in I
          BY <3>2
        <5> QED BY <5>1, <5>2
      <4>3. DOMAIN <<>> = {}
        OBVIOUS
      <4> QED BY <4>2, <4>3
    <3>4. PICK i \in DOMAIN d.tables :
             /\ d.tables[i].ns = d.default /\ ref = Bare(d.tables[i].name)
             /\ I = {i} /\ tabs = <<d.tables[i]>>
      BY <3>3, TheTable
    <3>5. L = {i}
      <4> HIDE DEF I
      <4> QED BY <3>2, <3>4
    <3>6. Cardinality(L) = 1 /\ Nth(L, 1) = i
      <4>1. Cardinality({i}) = 1
        BY FS_Singleton
      <4> QED BY <3>2, <3>5, <4>1
    <3>7. DOMAIN objects = {1} /\ Reflects(objects[1], d.tables[i])
      <4>1. DOMAIN objects = 1..1
        BY <2>2, <3>6
      <4>2. Reflects(objects[1], d.tables[i])
        BY <2>2, <3>1, <3>6
      <4> QED BY <4>1, <4>2
    <3> QED BY <2>2, <3>4, <3>7
  <2> QED BY <2>3, <2>4
<1> HIDE DEF I
<1>2. CASE e \in Search
  <2>1. objects = SearchSchema(d, ref)
    BY <1>2 DEF Schema, Sql, Rdb, Search, Ok, Raised
  <2>2. /\ IsSequence(objects) /\ DOMAIN objects = DOMAIN tabs /\ IsSequence(tabs)
        /\ \A n \in DOMAIN tabs : Reflects(objects[n], tabs[n])
    BY <2>1, SearchSchemaTells
  <2>3. CASE tabs = <<>>
    <3> HIDE DEF tabs
    <3>1. objects = <<>>
      BY <2>2, <2>3, None
    <3> QED BY <2>2, <3>1
  <2>4. CASE tabs # <<>>
    <3>1. PICK i \in DOMAIN d.tables :
             /\ d.tables[i].ns = d.default /\ ref = Bare(d.tables[i].name)
             /\ tabs = <<d.tables[i]>>
      BY <2>4, TheTable
    <3>2. DOMAIN tabs = {1} /\ tabs[1] = d.tables[i]
      BY <3>1, One
    <3> HIDE DEF tabs
    <3>3. DOMAIN objects = {1} /\ Reflects(objects[1], d.tables[i])
      BY <2>2, <3>2
    <3> QED BY <2>2, <3>1, <3>3 DEF tabs
  <2> QED BY <2>3, <2>4
<1> QED BY <1>1, <1>2

-----------------------------------------------------------------------------
(* What every engine's objects have in common.                                *)

\* The comment the engine gives of a column of the table of that name.
CommentOf(e, d, n, c) ==
    IF e = "mongodb"
    THEN LET props == TablesIn(d, d.default, Bare(n))[1].cols
         IN  UNION {props[i].comment : i \in {j \in DOMAIN props : props[j].name = c}}
    ELSE CHOOSE x : \E i \in DOMAIN d.tables :
            /\ d.tables[i].ns = d.default /\ d.tables[i].name = n
            /\ \E k \in DOMAIN d.tables[i].cols : d.tables[i].cols[k].name = c /\ d.tables[i].cols[k].comment = x

LEMMA CommentOfColumn ==
    ASSUME NEW e, e # "mongodb", NEW d, IsDatabase(d), NEW i \in DOMAIN d.tables, d.tables[i].ns = d.default,
           NEW k \in DOMAIN d.tables[i].cols
    PROVE  CommentOf(e, d, d.tables[i].name, d.tables[i].cols[k].name) = d.tables[i].cols[k].comment
<1> DEFINE P(x) == \E l \in DOMAIN d.tables :
                      /\ d.tables[l].ns = d.default /\ d.tables[l].name = d.tables[i].name
                      /\ \E m \in DOMAIN d.tables[l].cols :
                            d.tables[l].cols[m].name = d.tables[i].cols[k].name /\ d.tables[l].cols[m].comment = x
<1>1. CommentOf(e, d, d.tables[i].name, d.tables[i].cols[k].name) = CHOOSE x : P(x)
  BY Zenon DEF CommentOf
<1>2. P(d.tables[i].cols[k].comment)
  OBVIOUS
<1>3. ASSUME NEW x, P(x) PROVE x = d.tables[i].cols[k].comment
  <2>1. PICK l \in DOMAIN d.tables :
           /\ d.tables[l].ns = d.default /\ d.tables[l].name = d.tables[i].name
           /\ \E m \in DOMAIN d.tables[l].cols :
                 d.tables[l].cols[m].name = d.tables[i].cols[k].name /\ d.tables[l].cols[m].comment = x
    BY <1>3
  <2>2. l = i
    BY <2>1 DEF IsDatabase
  <2>3. PICK m \in DOMAIN d.tables[i].cols :
           d.tables[i].cols[m].name = d.tables[i].cols[k].name /\ d.tables[i].cols[m].comment = x
    BY <2>1, <2>2
  <2>4. m = k
    BY <2>3 DEF IsDatabase, IsTable
  <2> QED BY <2>3, <2>4
<1> HIDE DEF P
<1>4. P(CHOOSE x : P(x))
  BY <1>2
<1> QED BY <1>1, <1>3, <1>4

\* Asked about one name, an engine answers with objects of that name.
NamedSo(objects, e, d, n) ==
    /\ IsSequence(objects)
    /\ \A m \in DOMAIN objects :
          /\ objects[m].name = n
          /\ \A j \in DOMAIN objects[m].fields :
                objects[m].fields[j].comment = CommentOf(e, d, n, objects[m].fields[j].name)

LEMMA CollectionNamed ==
    ASSUME NEW d, IsDatabase(d), NEW ref, ref.name # All.name
    PROVE  NamedSo(<<Collection(d, ref)>>, "mongodb", d, ref.name)
<1> DEFINE o == Collection(d, ref)
           found == Found(d, d.default, ref)
<1>1. o.name = ref.name /\ o.fields = IF found = <<>> THEN <<>> ELSE InferFields(found[1].rows, found[1].cols)
  BY DEF Collection
<1>2. ASSUME NEW j \in DOMAIN o.fields
      PROVE  o.fields[j].comment = CommentOf("mongodb", d, ref.name, o.fields[j].name)
  <2>1. found # <<>> /\ o.fields = InferFields(found[1].rows, found[1].cols)
    <3>1. DOMAIN <<>> = {}
      OBVIOUS
    <3> HIDE DEF o, found
    <3> QED BY <1>1, <1>2, <3>1
  <2>2. TablesIn(d, d.default, ref) # <<>>
    <3>1. Take(<<>>, 1) = <<>>
      BY DEF Take, SmallerOf
    <3> QED BY <2>1, <3>1 DEF Found
  <2>3. PICK i \in DOMAIN d.tables :
           /\ ref = Bare(d.tables[i].name)
           /\ TablesIn(d, d.default, ref) = <<d.tables[i]>> /\ found = <<d.tables[i]>>
    BY <2>2, TheTable
  <2>4. Bare(ref.name) = ref
    BY <2>3, BareNames
  <2> DEFINE props == d.tables[i].cols
             G(c) == UNION {props[k].comment : k \in {l \in DOMAIN props : props[l].name = c}}
  <2>5. found[1] = d.tables[i] /\ TablesIn(d, d.default, Bare(ref.name))[1] = d.tables[i]
    BY <2>3, <2>4, One
  <2>6. ASSUME NEW c PROVE CommentOf("mongodb", d, ref.name, c) = G(c)
    BY <2>5, Zenon DEF CommentOf
  <2>7. ASSUME NEW rows PROVE \A m \in DOMAIN InferFields(rows, props) :
           InferFields(rows, props)[m].comment = G(InferFields(rows, props)[m].name)
    <3> HIDE DEF props
    <3> DEFINE names == SetToSeq(UNION {DOMAIN rows[k] : k \in DOMAIN rows})
               T(n) == {rows[k][n].t : k \in {l \in DOMAIN rows : n \in DOMAIN rows[l]}}
               F(n) == [name |-> n, pk |-> n.w = <<"_id">>, type |-> T(n), comment |-> G(n)]
    <3>1. InferFields(rows, props) = [k \in DOMAIN names |-> F(names[k])]
      BY Zenon DEF InferFields, Map
    <3> HIDE DEF G, T, names
    <3>2. \A n : F(n).name = n /\ F(n).comment = G(n)
      OBVIOUS
    <3> HIDE DEF F
    <3> QED BY <3>1, <3>2
  <2> HIDE DEF G, props
  <2>8. o.fields[j].comment = G(o.fields[j].name)
    BY <1>2, <2>1, <2>5, <2>7 DEF props
  <2> QED BY <2>6, <2>8
<1>3. IsSequence(<<o>>) /\ DOMAIN <<o>> = {1} /\ <<o>>[1] = o
  <2> HIDE DEF o
  <2>1. <<o>> \in Seq({o}) /\ ToSet(<<o>>) = {o}
    BY One DEF ToSet
  <2> QED BY <2>1, One DEF IsSequence
<1> HIDE DEF o
<1>4. \A m \in DOMAIN <<o>> :
         /\ <<o>>[m].name = ref.name
         /\ \A j \in DOMAIN <<o>>[m].fields :
               <<o>>[m].fields[j].comment = CommentOf("mongodb", d, ref.name, <<o>>[m].fields[j].name)
  BY <1>1, <1>2, <1>3, Zenon
<1> QED BY <1>3, <1>4, Zenon DEF NamedSo, o

\* Every field of an object that reflects a table has the comment the catalog
\* has for it.
LEMMA ReflectedComment ==
    ASSUME NEW e, e # "mongodb", NEW d, IsDatabase(d), NEW i \in DOMAIN d.tables, d.tables[i].ns = d.default,
           NEW o, Reflects(o, d.tables[i]), NEW j \in DOMAIN o.fields
    PROVE  o.fields[j].comment = CommentOf(e, d, d.tables[i].name, o.fields[j].name)
<1>1. PICK k \in DOMAIN d.tables[i].cols :
         /\ o.fields[j].name = d.tables[i].cols[k].name
         /\ o.fields[j].comment = d.tables[i].cols[k].comment
  BY DEF Reflects
<1>2. CommentOf(e, d, d.tables[i].name, d.tables[i].cols[k].name) = d.tables[i].cols[k].comment
  BY <1>1, CommentOfColumn
<1> QED BY <1>1, <1>2

LEMMA OneObjectNamed ==
    ASSUME NEW e, e # "mongodb", NEW d, IsDatabase(d), NEW i \in DOMAIN d.tables, d.tables[i].ns = d.default,
           NEW objects, IsSequence(objects), DOMAIN objects = {1}, Reflects(objects[1], d.tables[i])
    PROVE  NamedSo(objects, e, d, d.tables[i].name)
<1> PICK o : o = objects[1]
  OBVIOUS
<1>1. o.name = d.tables[i].name
  BY DEF Reflects
<1>2. ASSUME NEW j \in DOMAIN o.fields
      PROVE  o.fields[j].comment = CommentOf(e, d, d.tables[i].name, o.fields[j].name)
  <2>1. Reflects(o, d.tables[i])
    OBVIOUS
  <2> QED BY <1>2, <2>1, ReflectedComment
<1> QED BY <1>1, <1>2 DEF NamedSo

LEMMA ObjectsNamed ==
    ASSUME NEW e \in Engines, e # "redis", NEW d, IsDatabase(d), NEW ref, ref.name # All.name,
           NEW ns, Space(d, ns) = d.default,
           Schema(e, d, ns, ref).status = "ok", NEW objects, objects = Schema(e, d, ns, ref).rows
    PROVE  NamedSo(objects, e, d, ref.name)
<1>1. CASE e \in Sql \cup Search
  <2>1. e # "mongodb"
    BY <1>1 DEF Sql, Rdb, Search
  <2>2. CASE objects = <<>>
    <3>1. IsSequence(<<>>) /\ DOMAIN <<>> = {}
      BY DEF IsSequence
    <3> QED BY <2>2, <3>1 DEF NamedSo
  <2>3. ASSUME NEW i \in DOMAIN d.tables, d.tables[i].ns = d.default, ref = Bare(d.tables[i].name),
               DOMAIN objects = {1}, Reflects(objects[1], d.tables[i])
        PROVE  NamedSo(objects, e, d, ref.name)
    <3>1. IsSequence(objects)
      BY <1>1, SchemaOfOne
    <3>2. ref.name = d.tables[i].name
      BY <2>3, BareNames
    <3>3. NamedSo(objects, e, d, d.tables[i].name)
      BY <2>1, <2>3, <3>1, OneObjectNamed
    <3> QED BY <3>2, <3>3, Zenon
  <2> QED BY <1>1, <2>2, <2>3, SchemaOfOne
<1>2. CASE e = "mongodb"
  <2>1. ref # All
    BY Zenon
  <2>2. objects = MongoDBSchema(d, ref)
    BY <1>2 DEF Schema, Sql, Rdb, Search, Ok
  <2>3. objects = <<Collection(d, ref)>>
    BY <2>1, <2>2 DEF MongoDBSchema
  <2> QED BY <1>2, <2>3, CollectionNamed
<1> QED BY <1>1, <1>2 DEF Engines

\* Asked about all tables, it answers with objects that have names of tables.
LEMMA AllNamed ==
    ASSUME NEW e \in Engines, e # "redis", NEW d, IsDatabase(d), NEW ns,
           Schema(e, d, ns, All).status = "ok", NEW objects, objects = Schema(e, d, ns, All).rows
    PROVE  IsSequence(objects) /\ \A n \in DOMAIN objects : objects[n].name # All.name
<1>1. \A i \in DOMAIN d.tables : d.tables[i].name # All.name
  BY DEF IsDatabase, IsTable
<1>2. CASE e \in Sql
  <2> DEFINE L == WithColumns(d, Space(d, ns), All)
  <2>1. AreRowsOf(objects, e, d, ns, All)
    BY <1>2, SqlSchema
  <2>2. Shows(objects, e, d, ns, L)
    BY <2>1, RowsTell
  <2> HIDE DEF L
  <2>3. IsSequence(objects)
    BY <2>2 DEF Shows
  <2>4. \A n \in DOMAIN objects : Nth(L, n) \in DOMAIN d.tables /\ objects[n].name = d.tables[Nth(L, n)].name
    BY <2>2 DEF Shows, Reflects
  <2> QED BY <1>1, <2>3, <2>4
<1>3. CASE e \in Search
  <2>1. objects = SearchSchema(d, All)
    BY <1>3 DEF Schema, Sql, Rdb, Search, Ok, Raised
  <2> DEFINE tabs == TablesIn(d, d.default, All)
  <2>2. /\ IsSequence(objects) /\ DOMAIN objects = DOMAIN tabs
        /\ \A n \in DOMAIN tabs : Reflects(objects[n], tabs[n]) /\ \E i \in DOMAIN d.tables : tabs[n] = d.tables[i]
    BY <2>1, SearchSchemaTells
  <2> HIDE DEF tabs
  <2>3. \A n \in DOMAIN objects : objects[n].name = tabs[n].name /\ \E i \in DOMAIN d.tables : tabs[n] = d.tables[i]
    BY <2>2 DEF Reflects
  <2> QED BY <1>1, <2>2, <2>3
<1>4. CASE e = "mongodb"
  <2> DEFINE tabs == TablesIn(d, d.default, All)
  <2>1. objects = MongoDBSchema(d, All)
    BY <1>4 DEF Schema, Sql, Rdb, Search, Ok
  <2>2. objects = [n \in DOMAIN tabs |-> Collection(d, Bare(tabs[n].name))]
    BY <2>1, Zenon DEF MongoDBSchema, Map, Bare
  <2>3. IsSequence(tabs) /\ \A n \in DOMAIN tabs : \E i \in DOMAIN d.tables : tabs[n] = d.tables[i]
    <3>1. IsSequence(tabs)
      BY SearchSchemaTells
    <3>2. \A n \in DOMAIN tabs : Reflects(SearchSchema(d, All)[n], tabs[n]) /\ \E i \in DOMAIN d.tables : tabs[n] = d.tables[i]
      BY SearchSchemaTells
    <3> QED BY <3>1, <3>2
  <2> HIDE DEF tabs
  <2>4. \A n \in DOMAIN objects : objects[n].name = tabs[n].name
    <3>1. \A a : Collection(d, Bare(a)).name = Bare(a).name
      BY DEF Collection
    <3> QED BY <2>2, <3>1, BareNames
  <2>5. IsSequence(objects)
    <3>1. Len(tabs) \in Nat /\ DOMAIN tabs = 1..Len(tabs)
      BY <2>3, SequencesAreIntervals
    <3>2. objects = [n \in 1..Len(tabs) |-> objects[n]]
      BY <2>2, <3>1
    <3> QED BY <3>1, <3>2, FunctionsAreSequences
  <2> QED BY <1>1, <2>2, <2>3, <2>4, <2>5
<1> QED BY <1>2, <1>3, <1>4 DEF Engines

-----------------------------------------------------------------------------
\* The elements of sequences put one after the other are the elements of each.
LEMMA FlattenElements ==
    ASSUME NEW ss, IsSequence(ss), \A k \in DOMAIN ss : IsSequence(ss[k])
    PROVE  /\ \A i \in DOMAIN FlattenSeq(ss) : \E k \in DOMAIN ss : \E j \in DOMAIN ss[k] : FlattenSeq(ss)[i] = ss[k][j]
           /\ \A k \in DOMAIN ss : \A j \in DOMAIN ss[k] : \E i \in DOMAIN FlattenSeq(ss) : FlattenSeq(ss)[i] = ss[k][j]
           /\ IsSequence(FlattenSeq(ss))
<1> DEFINE R == UNION {ToSet(ss[k]) : k \in DOMAIN ss}
           F == FlattenSeq(ss)
<1>1. Len(ss) \in Nat /\ DOMAIN ss = 1..Len(ss)
  BY SequencesAreIntervals
<1>2. ASSUME NEW k \in DOMAIN ss
      PROVE  ss[k] \in Seq(R) /\ Len(ss[k]) \in Nat /\ DOMAIN ss[k] = 1..Len(ss[k])
  <2>1. Len(ss[k]) \in Nat /\ DOMAIN ss[k] = 1..Len(ss[k]) /\ ss[k] \in [1..Len(ss[k]) -> ToSet(ss[k])]
    BY SequencesAreIntervals, LenProperties DEF IsSequence
  <2>2. ToSet(ss[k]) \subseteq R
    OBVIOUS
  <2> HIDE DEF R
  <2>3. ss[k] \in [1..Len(ss[k]) -> R]
    BY <2>1, <2>2
  <2> QED BY <2>1, <2>3, SeqDef
<1>3. \A r \in R : \E k \in DOMAIN ss : \E j \in DOMAIN ss[k] : r = ss[k][j]
  BY DEF ToSet
<1> HIDE DEF R
<1>4. ss \in Seq(Seq(R))
  <2>1. ss = [k \in DOMAIN ss |-> ss[k]]
    BY DEF IsSequence
  <2>2. ss \in [1..Len(ss) -> Seq(R)]
    BY <1>1, <1>2, <2>1
  <2> QED BY <1>1, <2>2, SeqDef
<1>5. F \in Seq(R)
  BY <1>4, FlattenBlocks
<1>6. PICK off : /\ Offsets(ss, off)
                 /\ Len(F) = off[Len(ss)]
                 /\ \A k \in 1..Len(ss) : \A j \in 1..Len(ss[k]) : F[off[k - 1] + j] = ss[k][j]
  BY <1>4, FlattenBlocks
<1> HIDE DEF F
<1>7. Len(F) \in Nat /\ DOMAIN F = 1..Len(F) /\ \A i \in DOMAIN F : F[i] \in R
  BY <1>5, LenProperties, ElementOfSeq
<1>8. \A k \in DOMAIN ss : \A j \in DOMAIN ss[k] : \E i \in DOMAIN F : F[i] = ss[k][j]
  <2> SUFFICES ASSUME NEW k \in DOMAIN ss, NEW j \in DOMAIN ss[k]
               PROVE  \E i \in DOMAIN F : F[i] = ss[k][j]
    OBVIOUS
  <2>1. k \in 1..Len(ss) /\ j \in 1..Len(ss[k])
    BY <1>1, <1>2
  <2>2. off[k - 1] + j \in 1..off[Len(ss)]
    BY <1>4, <1>6, <2>1, OffsetsCover
  <2> QED BY <1>6, <1>7, <2>1, <2>2
<1>9. IsSequence(F)
  <2>1. F \in [1..Len(F) -> ToSet(F)]
    <3>1. F = [i \in 1..Len(F) |-> F[i]]
      BY <1>5, <1>7
    <3> QED BY <1>7, <3>1 DEF ToSet
  <2> QED BY <1>7, <2>1, SeqDef DEF IsSequence
<1>10. \A i \in DOMAIN F : \E k \in DOMAIN ss : \E j \in DOMAIN ss[k] : F[i] = ss[k][j]
  BY <1>3, <1>7
<1> QED BY <1>8, <1>9, <1>10 DEF F
=============================================================================
