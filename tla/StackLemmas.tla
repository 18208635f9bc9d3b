---------------------------- MODULE StackLemmas ----------------------------
(***************************************************************************)
(* What the proofs about stacks of calls, pools, operands and slots share. *)
(***************************************************************************)
EXTENDS Integers, Sequences, FiniteSets, FiniteSetsExt, FiniteSetTheorems,
        SequenceTheorems, WellFoundedInduction, TLAPS

\* What is left of a stack once some is popped.
LEMMA PrefixOf ==
  ASSUME NEW S, NEW s \in Seq(S), NEW n \in 0 .. Len(s)
  PROVE  /\ SubSeq(s, 1, n) \in Seq(S) /\ Len(SubSeq(s, 1, n)) = n
         /\ \A i \in 1 .. n : SubSeq(s, 1, n)[i] = s[i]
<1>1. n \in Nat /\ \A i \in 1 .. n : s[i] \in S
  OBVIOUS
<1>2. /\ SubSeq(s, 1, n) \in Seq(S)
      /\ Len(SubSeq(s, 1, n)) = IF 1 <= n THEN n - 1 + 1 ELSE 0
      /\ \A i \in 1 .. n - 1 + 1 : SubSeq(s, 1, n)[i] = s[1 + i - 1]
  BY <1>1, SubSeqProperties
<1> QED
  BY <1>1, <1>2

\* A nonempty set of levels has a highest one.
LEMMA MaxExists ==
  ASSUME NEW k \in Nat, NEW T, T \subseteq 1 .. k, T # {}
  PROVE  Max(T) \in T /\ \A y \in T : y <= Max(T)
<1> DEFINE D == {d \in Nat : k - d \in T}
           R == OpToRel(<, Nat)
<1>1. D \subseteq Nat /\ D # {}
  <2>1. PICK y \in T : TRUE
    OBVIOUS
  <2>2. k - y \in Nat /\ k - (k - y) = y
    OBVIOUS
  <2> QED
    BY <2>1, <2>2
<1>2. \A x, y \in Nat : x < y => <<x, y>> \in R
  BY DEF OpToRel
<1>3. IsWellFoundedOn(R, Nat)
  BY NatLessThanWellFounded
<1> HIDE DEF R
<1>4. PICK d \in D : \A e \in D : <<e, d>> \notin R
  BY <1>1, <1>3, WFMin
<1>5. \A y \in T : k - y \in D
  OBVIOUS
<1>6. \A y \in T : k - d >= y
  <2> SUFFICES ASSUME NEW y \in T, k - d < y PROVE FALSE
    OBVIOUS
  <2>1. k - y \in Nat /\ d \in Nat /\ k - y < d
    OBVIOUS
  <2> QED
    BY <1>2, <1>4, <1>5, <2>1
<1>7. k - d \in T
  OBVIOUS
<1>8. \E x \in T : \A y \in T : x >= y
  BY <1>6, <1>7
<1> QED
  BY <1>8 DEF Max

\* How many of the first i calls have a pool of their own.
Own(f, i) == Cardinality({j \in 1 .. i : f[j].isolated})

LEMMA OwnNat ==
  ASSUME NEW f, NEW i \in Nat
  PROVE  /\ Own(f, i) \in Nat /\ Own(f, 0) = 0
         /\ Own(f, i + 1) = Own(f, i) + (IF f[i + 1].isolated THEN 1 ELSE 0)
<1> DEFINE S(n) == {j \in 1 .. n : f[j].isolated}
<1>1. IsFiniteSet(S(i)) /\ Cardinality(S(i)) \in Nat
  <2>1. i \in Int /\ 1 \in Int
    OBVIOUS
  <2>2. IsFiniteSet(1 .. i)
    BY <2>1, FS_Interval
  <2>3. S(i) \subseteq 1 .. i
    OBVIOUS
  <2> HIDE DEF S
  <2>4. IsFiniteSet(S(i))
    BY <2>2, <2>3, FS_Subset
  <2> QED
    BY <2>4, FS_CardinalityType
<1>2. S(0) = {} /\ Cardinality({}) = 0
  BY FS_EmptySet
<1>3. /\ f[i + 1].isolated => S(i + 1) = S(i) \cup {i + 1} /\ i + 1 \notin S(i)
      /\ ~f[i + 1].isolated => S(i + 1) = S(i)
  OBVIOUS
<1>4. Own(f, i) = Cardinality(S(i)) /\ Own(f, i + 1) = Cardinality(S(i + 1))
      /\ Own(f, 0) = Cardinality(S(0))
  BY DEF Own
<1> HIDE DEF S
<1>5. i + 1 \notin S(i) => Cardinality(S(i) \cup {i + 1}) = Cardinality(S(i)) + 1
  BY <1>1, FS_AddElement
<1>6. CASE f[i + 1].isolated
  BY <1>1, <1>2, <1>3, <1>4, <1>5, <1>6
<1>7. CASE ~f[i + 1].isolated
  BY <1>1, <1>2, <1>3, <1>4, <1>7
<1> QED
  BY <1>6, <1>7

LEMMA OwnGrows ==
  ASSUME NEW f, NEW i \in Nat, NEW j \in Nat, i <= j
  PROVE  Own(f, i) <= Own(f, j) /\ Own(f, i) \in Nat /\ Own(f, j) \in Nat
<1> DEFINE S(n) == {x \in 1 .. n : f[x].isolated}
<1>1. j \in Int /\ 1 \in Int
  OBVIOUS
<1>2. IsFiniteSet(1 .. j)
  BY <1>1, FS_Interval
<1>3. S(i) \subseteq S(j) /\ S(j) \subseteq 1 .. j
  OBVIOUS
<1>4. Own(f, i) = Cardinality(S(i)) /\ Own(f, j) = Cardinality(S(j))
  BY DEF Own
<1> HIDE DEF S
<1>5. IsFiniteSet(S(j))
  BY <1>2, <1>3, FS_Subset
<1>6. Cardinality(S(i)) <= Cardinality(S(j))
  BY <1>3, <1>5, FS_Subset
<1> QED
  BY <1>4, <1>6, OwnNat

LEMMA SameOwn ==
  ASSUME NEW f, NEW g, NEW i \in Nat, \A j \in 1 .. i : f[j].isolated = g[j].isolated
  PROVE  Own(f, i) = Own(g, i)
<1>1. {j \in 1 .. i : f[j].isolated} = {j \in 1 .. i : g[j].isolated}
  OBVIOUS
<1> QED
  BY <1>1 DEF Own

\* How many members of a stack belong to k.
Tally(s, k) == Cardinality({i \in 1 .. Len(s) : s[i] = k})

LEMMA TallyNat ==
  ASSUME NEW s \in Seq(Nat), NEW k \in Nat
  PROVE  /\ IsFiniteSet({i \in 1 .. Len(s) : s[i] = k}) /\ Tally(s, k) \in Nat
         /\ Tally(s, k) = 0 => \A i \in 1 .. Len(s) : s[i] # k
<1> DEFINE T == {i \in 1 .. Len(s) : s[i] = k}
<1>1. 1 \in Int /\ Len(s) \in Int
  OBVIOUS
<1>2. IsFiniteSet(1 .. Len(s))
  BY <1>1, FS_Interval
<1>3. T \subseteq 1 .. Len(s)
  OBVIOUS
<1>4. Tally(s, k) = Cardinality(T)
  BY DEF Tally
<1> HIDE DEF T
<1>5. IsFiniteSet(T)
  BY <1>2, <1>3, FS_Subset
<1>6. Cardinality(T) \in Nat /\ (Cardinality(T) = 0 <=> T = {})
  BY <1>5, FS_CardinalityType, FS_EmptySet
<1> QED
  BY <1>4, <1>5, <1>6 DEF T

\* A stack has n members and others, of e, above them.
LEMMA TallyAbove ==
  ASSUME NEW s \in Seq(Nat), NEW p \in Seq(Nat), NEW n \in 0 .. Len(s), NEW e \in Nat, NEW k \in Nat,
         Len(p) = n, \A i \in 1 .. n : p[i] = s[i],
         \A i \in n + 1 .. Len(s) : s[i] = e
  PROVE  Tally(s, k) = Tally(p, k) + (IF k = e THEN Len(s) - n ELSE 0)
<1> DEFINE T == {i \in 1 .. Len(s) : s[i] = k}
           U == {i \in 1 .. Len(p) : p[i] = k}
           V == n + 1 .. Len(s)
<1>1. p \in Seq(Nat) /\ Len(p) = n /\ \A i \in 1 .. n : p[i] = s[i]
  OBVIOUS
<1>2. n \in Nat /\ Len(s) \in Nat /\ n + 1 \in Int /\ Len(s) \in Int /\ n <= Len(s)
  OBVIOUS
<1>3. IsFiniteSet(U) /\ Cardinality(U) = Tally(p, k) /\ Tally(p, k) \in Nat
  BY <1>1, TallyNat DEF Tally
<1>4. Cardinality(T) = Tally(s, k)
  BY DEF Tally
<1>5. IsFiniteSet(V) /\ Cardinality(V) = Len(s) - n
  <2>1. /\ IsFiniteSet(V)
        /\ Cardinality(V) = IF n + 1 > Len(s) THEN 0 ELSE Len(s) - (n + 1) + 1
    BY <1>2, FS_Interval
  <2> QED
    BY <1>2, <2>1
<1>6. CASE k = e
  <2>1. T = U \cup V /\ U \cap V = {}
    BY <1>1, <1>2, <1>6
  <2> HIDE DEF T, U, V
  <2>2. Cardinality(U \cup V) = Cardinality(U) + Cardinality(V) - Cardinality(U \cap V)
    BY <1>3, <1>5, FS_Union
  <2>3. Cardinality(U \cup V) = Cardinality(U) + Cardinality(V) - 0
    BY <2>1, <2>2, FS_EmptySet
  <2>4. Tally(s, k) = Tally(p, k) + (Len(s) - n)
    BY <1>3, <1>4, <1>5, <2>1, <2>3
  <2> QED
    BY <1>6, <2>4
<1>7. CASE k # e
  <2>1. T = U
    BY <1>1, <1>2, <1>7
  <2> HIDE DEF T, U
  <2> QED
    BY <1>3, <1>4, <1>7, <2>1
<1> QED
  BY <1>6, <1>7

LEMMA TallyAppend ==
  ASSUME NEW s \in Seq(Nat), NEW e \in Nat, NEW k \in Nat
  PROVE  Tally(Append(s, e), k) = Tally(s, k) + (IF k = e THEN 1 ELSE 0)
<1>1. PICK t : t = Append(s, e)
  OBVIOUS
<1>2. PICK n : n = Len(s)
  OBVIOUS
<1>3. /\ t \in Seq(Nat) /\ n \in 0 .. Len(t) /\ Len(s) = n /\ Len(t) - n = 1
      /\ \A i \in 1 .. n : s[i] = t[i]
      /\ \A i \in n + 1 .. Len(t) : t[i] = e
  BY <1>1, <1>2
<1>4. Tally(t, k) = Tally(s, k) + (IF k = e THEN Len(t) - n ELSE 0)
  BY <1>3, TallyAbove
<1> QED
  BY <1>1, <1>3, <1>4

\* The members of the last to come are on top of those of the others.
LEMMA TopIsOwn ==
  ASSUME NEW s \in Seq(Nat), NEW l \in Nat, NEW n \in Nat, n <= Tally(s, l),
         \A i \in 1 .. Len(s) : s[i] <= l,
         \A i, j \in 1 .. Len(s) : i < j => s[i] <= s[j]
  PROVE  n <= Len(s) /\ \A i \in Len(s) - n + 1 .. Len(s) : s[i] = l
<1> DEFINE T == {i \in 1 .. Len(s) : s[i] = l}
<1>1. /\ IsFiniteSet(T) /\ Cardinality(T) = Tally(s, l) /\ Tally(s, l) \in Nat
      /\ Len(s) \in Nat
  <2>1. IsFiniteSet({i \in 1 .. Len(s) : s[i] = l}) /\ Tally(s, l) \in Nat
    BY TallyNat
  <2> QED
    BY <2>1 DEF Tally
<1>2. ASSUME NEW m \in 0 .. Len(s), T \subseteq m + 1 .. Len(s) PROVE n <= Len(s) - m
  <2> DEFINE V == m + 1 .. Len(s)
  <2>1. m + 1 \in Int /\ Len(s) \in Int
    OBVIOUS
  <2>2. /\ IsFiniteSet(V)
        /\ Cardinality(V) = IF m + 1 > Len(s) THEN 0 ELSE Len(s) - (m + 1) + 1
    BY <2>1, FS_Interval
  <2>3. Cardinality(V) = Len(s) - m
    BY <2>2
  <2>4. T \subseteq V
    BY <1>2
  <2> HIDE DEF T, V
  <2>5. Cardinality(T) <= Cardinality(V)
    BY <2>2, <2>4, FS_Subset
  <2> QED
    BY <1>1, <2>3, <2>5
<1>3. n <= Len(s)
  <2>1. T \subseteq 0 + 1 .. Len(s) /\ 0 \in 0 .. Len(s)
    BY <1>1
  <2>2. n <= Len(s) - 0
    BY <1>2, <2>1
  <2> QED
    BY <1>1, <2>2
<1>4. ASSUME NEW i \in Len(s) - n + 1 .. Len(s), s[i] # l PROVE FALSE
  <2>1. i \in 1 .. Len(s) /\ i \in 0 .. Len(s) /\ s[i] < l
    BY <1>1, <1>3, <1>4
  <2>2. T \subseteq i + 1 .. Len(s)
    <3> SUFFICES ASSUME NEW j \in 1 .. Len(s), s[j] = l PROVE j \in i + 1 .. Len(s)
      OBVIOUS
    <3>1. j # i /\ ~(j < i)
      BY <2>1
    <3> QED
      BY <2>1, <3>1
  <2>3. n <= Len(s) - i
    BY <1>2, <2>1, <2>2
  <2> QED
    BY <1>1, <2>1, <2>3
<1> QED
  BY <1>3, <1>4
=============================================================================
