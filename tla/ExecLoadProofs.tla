--------------------------- MODULE ExecLoadProofs ---------------------------
(***************************************************************************)
(* What a load of IRXLOAD hands back, for every library, every format and  *)
(* blocking of the records, either reader and any growth of the tables.    *)
(***************************************************************************)
EXTENDS JclJobProofs, FunctionTheorems, FiniteSetTheorems

-----------------------------------------------------------------------------
(* Numbers, and sequences put together one by one.                         *)

\* A set of numbers that has 0, and k + 1 with every k, has them all: if n were
\* missing, k -> k + 1 would map its numbers below n into one fewer.
LEMMA AllNumbers ==
  ASSUME NEW P, 0 \in P, \A k \in Nat : k \in P => k + 1 \in P, NEW n \in Nat
  PROVE  n \in P
<1> SUFFICES ASSUME n \notin P PROVE FALSE
  OBVIOUS
<1> DEFINE A == P \cap (0 .. n)
           B == A \ {0}
           f == [k \in A |-> k + 1]
<1>1. IsFiniteSet(A) /\ Cardinality(A) \in Nat
  <2>1. IsFiniteSet(0 .. n) /\ A \in SUBSET (0 .. n)
    BY FS_Interval
  <2> HIDE DEF A
  <2> QED
    BY <2>1, FS_Subset, FS_CardinalityType
<1>2. IsFiniteSet(B) /\ Cardinality(B) = Cardinality(A) - 1
  <2>1. 0 \in A
    OBVIOUS
  <2> HIDE DEF A
  <2> QED
    BY <1>1, <2>1, FS_RemoveElement
<1>3. f \in [A -> B]
  <2>1. ASSUME NEW k \in A PROVE k + 1 \in B
    <3>1. k \in Nat /\ k \in P /\ k <= n /\ k # n
      OBVIOUS
    <3> QED
      BY <3>1
  <2> QED
    BY <2>1
<1>4. \A x, y \in A : x # y => f[x] # f[y]
  OBVIOUS
<1> HIDE DEF A, B, f
<1> QED
  BY <1>1, <1>2, <1>3, <1>4, FS_PigeonHole

\* The first n sequences of ss, put together: what FlattenSeq computes.
Joins(ss, n, f) == f = [i \in 1 .. n |-> IF i = 1 THEN ss[i] ELSE f[i - 1] \o ss[i]]

LEMMA JoinsExist ==
  ASSUME NEW ss, NEW n \in Nat
  PROVE  \E f : Joins(ss, n, f)
<1> DEFINE P == {k \in Nat : \E f : Joins(ss, k, f)}
<1>1. 0 \in P
  <2>1. Joins(ss, 0, [i \in 1 .. 0 |-> ss[i]])
    BY DEF Joins
  <2> QED
    BY <2>1
<1>2. ASSUME NEW k \in Nat, k \in P PROVE k + 1 \in P
  <2>1. PICK f : Joins(ss, k, f)
    BY <1>2
  <2> DEFINE e == IF k = 0 THEN ss[1] ELSE f[k] \o ss[k + 1]
             g == [i \in 1 .. k + 1 |-> IF i = k + 1 THEN e ELSE f[i]]
  <2>2. ASSUME NEW i \in 1 .. k + 1
        PROVE  g[i] = IF i = 1 THEN ss[i] ELSE g[i - 1] \o ss[i]
    <3>1. CASE i = k + 1
      <4>1. g[i] = e /\ (i # 1 => i - 1 = k /\ k # k + 1 /\ k \in 1 .. k + 1 /\ k # 0)
        BY <3>1
      <4>2. i # 1 => g[i - 1] = f[k]
        BY <4>1
      <4> QED
        BY <3>1, <4>1, <4>2
    <3>2. CASE i # k + 1
      <4>1. i \in 1 .. k /\ g[i] = f[i]
        BY <3>2
      <4>2. f[i] = IF i = 1 THEN ss[i] ELSE f[i - 1] \o ss[i]
        BY <2>1, <4>1 DEF Joins
      <4>3. i # 1 => i - 1 \in 1 .. k + 1 /\ i - 1 # k + 1
        BY <4>1
      <4>4. i # 1 => g[i - 1] = f[i - 1]
        BY <4>3
      <4> QED
        BY <4>1, <4>2, <4>4
    <3> QED
      BY <3>1, <3>2
  <2>3. g = [i \in 1 .. k + 1 |-> g[i]]
    OBVIOUS
  <2> HIDE DEF g
  <2>4. Joins(ss, k + 1, g)
    BY <2>2, <2>3 DEF Joins
  <2> QED
    BY <2>4
<1> HIDE DEF P
<1>3. n \in P
  BY <1>1, <1>2, AllNumbers
<1> QED
  BY <1>3 DEF P

LEMMA JoinsAt ==
  ASSUME NEW ss, NEW n \in Nat, NEW f, Joins(ss, n, f), NEW i \in 1 .. n
  PROVE  f[i] = IF i = 1 THEN ss[i] ELSE f[i - 1] \o ss[i]
  BY DEF Joins

LEMMA JoinsAgree ==
  ASSUME NEW ss, NEW tt, NEW n \in Nat, NEW m \in Nat, NEW f, NEW g,
         Joins(ss, n, f), Joins(tt, m, g), n <= m,
         \A i \in 1 .. n : ss[i] = tt[i]
  PROVE  \A i \in 1 .. n : f[i] = g[i]
<1> DEFINE P == {k \in Nat : k \in 1 .. n => f[k] = g[k]}
<1>1. 0 \in P
  OBVIOUS
<1>2. ASSUME NEW k \in Nat, k \in P PROVE k + 1 \in P
  <2> SUFFICES ASSUME k + 1 \in 1 .. n PROVE f[k + 1] = g[k + 1]
    OBVIOUS
  <2>1. k + 1 \in 1 .. n /\ k + 1 \in 1 .. m /\ k + 1 - 1 = k
    OBVIOUS
  <2>2. /\ f[k + 1] = IF k + 1 = 1 THEN ss[k + 1] ELSE f[k] \o ss[k + 1]
        /\ g[k + 1] = IF k + 1 = 1 THEN tt[k + 1] ELSE g[k] \o tt[k + 1]
    <3>1. /\ f[k + 1] = IF k + 1 = 1 THEN ss[k + 1] ELSE f[k + 1 - 1] \o ss[k + 1]
          /\ g[k + 1] = IF k + 1 = 1 THEN tt[k + 1] ELSE g[k + 1 - 1] \o tt[k + 1]
      BY <2>1, JoinsAt
    <3> QED
      BY <2>1, <3>1
  <2>3. k + 1 # 1 => k \in 1 .. n /\ f[k] = g[k]
    BY <1>2
  <2> QED
    BY <2>2, <2>3
<1> HIDE DEF P
<1>3. \A k \in Nat : k \in P
  BY <1>1, <1>2, AllNumbers
<1> QED
  BY <1>3 DEF P

LEMMA FlattenIs ==
  ASSUME NEW ss, Len(ss) \in Nat, Len(ss) # 0
  PROVE  \E f : Joins(ss, Len(ss), f) /\ FlattenSeq(ss) = f[Len(ss)]
<1> DEFINE f == CHOOSE f : f = [i \in 1 .. Len(ss) |->
                                  IF i = 1 THEN ss[i] ELSE f[i - 1] \o ss[i]]
<1>1. \E g : g = [i \in 1 .. Len(ss) |-> IF i = 1 THEN ss[i] ELSE g[i - 1] \o ss[i]]
  BY JoinsExist DEF Joins
<1>2. f = [i \in 1 .. Len(ss) |-> IF i = 1 THEN ss[i] ELSE f[i - 1] \o ss[i]]
  BY <1>1
<1>3. FlattenSeq(ss) = f[Len(ss)]
  BY DEF FlattenSeq
<1> HIDE DEF f
<1> QED
  BY <1>2, <1>3 DEF Joins

\* What FlattenSeq makes of the empty sequence, and of one sequence more.
LEMMA FlattenSteps ==
  ASSUME NEW ss, Len(ss) \in Nat, NEW tt, Len(tt) = Len(ss) + 1,
         \A i \in 1 .. Len(ss) : tt[i] = ss[i]
  PROVE  FlattenSeq(tt) = IF Len(ss) = 0 THEN tt[1]
                          ELSE FlattenSeq(ss) \o tt[Len(ss) + 1]
<1> DEFINE n == Len(ss)
<1>1. n \in Nat /\ Len(tt) = n + 1 /\ n + 1 \in Nat /\ n + 1 # 0 /\ n + 1 \in 1 .. n + 1
      /\ n + 1 - 1 = n /\ n <= n + 1 /\ Len(ss) = n
      /\ \A i \in 1 .. n : ss[i] = tt[i]
  OBVIOUS
<1> HIDE DEF n
<1>2. PICK g : Joins(tt, n + 1, g) /\ FlattenSeq(tt) = g[n + 1]
  BY <1>1, FlattenIs
<1>3. g[n + 1] = IF n + 1 = 1 THEN tt[n + 1] ELSE g[n] \o tt[n + 1]
  <2>1. g[n + 1] = IF n + 1 = 1 THEN tt[n + 1] ELSE g[n + 1 - 1] \o tt[n + 1]
    BY <1>1, <1>2, JoinsAt
  <2> QED
    BY <1>1, <2>1
<1>4. CASE n = 0
  BY <1>1, <1>2, <1>3, <1>4
<1>5. CASE n # 0
  <2>1. PICK f : Joins(ss, n, f) /\ FlattenSeq(ss) = f[n]
    BY <1>1, <1>5, FlattenIs
  <2>2. \A i \in 1 .. n : f[i] = g[i]
    BY <1>1, <1>2, <2>1, JoinsAgree
  <2>3. n \in 1 .. n
    BY <1>1, <1>5
  <2>4. g[n + 1] = f[n] \o tt[n + 1]
    <3>1. f[n] = g[n]
      BY <2>2, <2>3
    <3>2. n + 1 # 1
      BY <1>1, <1>5
    <3> QED
      BY <1>3, <3>1, <3>2
  <2>5. FlattenSeq(tt) = FlattenSeq(ss) \o tt[n + 1]
    BY <1>2, <2>1, <2>4
  <2> QED
    BY <1>1, <1>5, <2>5
<1> QED
  BY <1>4, <1>5

LEMMA FlattenNone ==
  ASSUME NEW ss, Len(ss) = 0
  PROVE  FlattenSeq(ss) = ss
  BY DEF FlattenSeq

LEMMA LargestNumber ==
  ASSUME NEW n \in Nat, NEW T \in SUBSET (0 .. n), T # {}
  PROVE  \E m \in T : \A k \in T : m >= k
<1> DEFINE P == {j \in Nat : \A U \in SUBSET (0 .. j) :
                                U # {} => \E m \in U : \A k \in U : m >= k}
<1>1. 0 \in P
  <2>1. ASSUME NEW U \in SUBSET (0 .. 0), U # {}
        PROVE  \E m \in U : \A k \in U : m >= k
    <3>1. PICK m \in U : TRUE
      BY <2>1
    <3>2. \A k \in U : k \in Nat /\ k = m
      OBVIOUS
    <3>3. \A k \in U : m >= k
      BY <3>2
    <3> QED
      BY <3>3
  <2> QED
    BY <2>1
<1>2. ASSUME NEW j \in Nat, j \in P PROVE j + 1 \in P
  <2>1. ASSUME NEW U \in SUBSET (0 .. j + 1), U # {}
        PROVE  \E m \in U : \A k \in U : m >= k
    <3>1. CASE j + 1 \in U
      <4>1. \A k \in U : j + 1 >= k
        OBVIOUS
      <4> QED
        BY <3>1, <4>1
    <3>2. CASE j + 1 \notin U
      <4>1. U \in SUBSET (0 .. j)
        BY <3>2
      <4> QED
        BY <1>2, <2>1, <4>1
    <3> QED
      BY <3>1, <3>2
  <2> QED
    BY <2>1
<1> HIDE DEF P
<1>3. n \in P
  BY <1>1, <1>2, AllNumbers
<1> QED
  BY <1>3 DEF P

-----------------------------------------------------------------------------
(* Trimming.                                                               *)

\* TrimEnd cuts a text where what follows is all in S.
LEMMA TrimEndIs ==
  ASSUME NEW C, NEW text \in Seq(C), NEW S
  PROVE  \E n \in 0 .. Len(text) :
            /\ TrimEnd(text, S) = SubSeq(text, 1, n)
            /\ n > 0 => text[n] \notin S
            /\ \A i \in n + 1 .. Len(text) : text[i] \in S
<1> DEFINE I == {i \in 1 .. Len(text) : text[i] \notin S}
           n == IF I # {} THEN Max(I) ELSE 0
<1>1. TrimEnd(text, S) = SubSeq(text, 1, n)
  BY DEF TrimEnd, SelectLastInSeq
<1>2. Len(text) \in Nat /\ I \in SUBSET (0 .. Len(text))
  OBVIOUS
<1>3. CASE I = {}
  <2>1. n = 0 /\ \A i \in 1 .. Len(text) : text[i] \in S
    BY <1>3
  <2>2. 0 \in 0 .. Len(text) /\ 0 + 1 = 1
    BY <1>2
  <2> HIDE DEF n, I
  <2> QED
    BY <1>1, <2>1, <2>2
<1>4. CASE I # {}
  <2>1. \E m \in I : \A k \in I : m >= k
    <3> HIDE DEF I
    <3> QED
      BY <1>2, <1>4, LargestNumber
  <2>2. n \in I /\ \A k \in I : n >= k
    <3>1. n = Max(I)
      BY <1>4
    <3> HIDE DEF n, I
    <3>2. Max(I) \in I /\ \A k \in I : Max(I) >= k
      BY <2>1 DEF Max
    <3> QED
      BY <3>1, <3>2
  <2> HIDE DEF n
  <2>3. n \in 1 .. Len(text) /\ text[n] \notin S
    BY <2>2
  <2>4. \A i \in n + 1 .. Len(text) : text[i] \in S
    <3> SUFFICES ASSUME NEW i \in n + 1 .. Len(text), text[i] \notin S PROVE FALSE
      OBVIOUS
    <3>1. i \in I
      BY <1>2, <2>3
    <3>2. n >= i
      BY <2>2, <3>1
    <3> QED
      BY <2>3, <3>2
  <2> QED
    BY <1>1, <2>3, <2>4
<1> QED
  BY <1>3, <1>4

\* There is one way to do so.
LEMMA TrimIsOne ==
  ASSUME NEW C, NEW text \in Seq(C), NEW S, NEW n \in 0 .. Len(text), NEW m \in 0 .. Len(text),
         n > 0 => text[n] \notin S, \A i \in n + 1 .. Len(text) : text[i] \in S,
         m > 0 => text[m] \notin S, \A i \in m + 1 .. Len(text) : text[i] \in S
  PROVE  n = m
<1>1. ~(n < m) /\ ~(m < n)
  OBVIOUS
<1> QED
  BY <1>1

LEMMA PrefixTyped ==
  ASSUME NEW C, NEW text \in Seq(C), NEW n \in 0 .. Len(text)
  PROVE  /\ SubSeq(text, 1, n) \in Seq(C) /\ Len(SubSeq(text, 1, n)) = n
         /\ \A i \in 1 .. n : SubSeq(text, 1, n)[i] = text[i]
<1>1. n \in Int /\ 1 \in Int /\ n >= 0
  OBVIOUS
<1>2. \A i \in 1 .. n : text[i] \in C
  OBVIOUS
<1>3. /\ SubSeq(text, 1, n) \in Seq(C)
      /\ Len(SubSeq(text, 1, n)) = IF 1 <= n THEN n - 1 + 1 ELSE 0
      /\ \A i \in 1 .. n - 1 + 1 : SubSeq(text, 1, n)[i] = text[1 + i - 1]
  BY <1>1, <1>2, SubSeqProperties
<1> QED
  BY <1>1, <1>3

\* Taking the blanks off is what a line promises.
LEMMA BlanksTrimmed ==
  ASSUME NEW C, NEW text \in Seq(C)
  PROVE  TrimEnd(text, {Blank}) = WithoutBlanks(text) /\ WithoutBlanks(text) \in Seq(C)
<1> DEFINE Ends(p) == /\ p = <<>> \/ p[Len(p)] # Blank
                      /\ \A i \in Len(p) + 1 .. Len(text) : text[i] = Blank
<1>1. PICK n \in 0 .. Len(text) : /\ TrimEnd(text, {Blank}) = SubSeq(text, 1, n)
                                  /\ n > 0 => text[n] # Blank
                                  /\ \A i \in n + 1 .. Len(text) : text[i] = Blank
  <2>1. \E n \in 0 .. Len(text) : /\ TrimEnd(text, {Blank}) = SubSeq(text, 1, n)
                                  /\ n > 0 => text[n] \notin {Blank}
                                  /\ \A i \in n + 1 .. Len(text) : text[i] \in {Blank}
    BY TrimEndIs
  <2> QED
    BY <2>1
<1>2. ASSUME NEW m \in 0 .. Len(text)
      PROVE  Ends(SubSeq(text, 1, m)) <=> /\ m > 0 => text[m] # Blank
                                          /\ \A i \in m + 1 .. Len(text) : text[i] = Blank
  <2> DEFINE p == SubSeq(text, 1, m)
  <2>1. p \in Seq(C) /\ Len(p) = m /\ \A i \in 1 .. m : p[i] = text[i]
    BY PrefixTyped
  <2> HIDE DEF p
  <2>2. (p = <<>> <=> m = 0) /\ (m > 0 => p[m] = text[m])
    BY <2>1, EmptySeq
  <2>3. Ends(p) <=> /\ m > 0 => text[m] # Blank
                    /\ \A i \in m + 1 .. Len(text) : text[i] = Blank
    BY <2>1, <2>2
  <2> QED
    BY <2>3 DEF p
<1> HIDE DEF Ends
<1>3. SubSeq(text, 1, n) \in Prefixes(text) /\ Ends(SubSeq(text, 1, n))
  BY <1>1, <1>2 DEF Prefixes
<1>4. ASSUME NEW p \in Prefixes(text), Ends(p) PROVE p = SubSeq(text, 1, n)
  <2>1. PICK m \in 0 .. Len(text) : p = SubSeq(text, 1, m)
    BY DEF Prefixes
  <2>2. /\ m > 0 => text[m] # Blank
        /\ \A i \in m + 1 .. Len(text) : text[i] = Blank
    BY <1>2, <1>4, <2>1
  <2>3. n = m
    BY <1>1, <2>2, TrimIsOne
  <2> QED
    BY <2>1, <2>3
<1>5. WithoutBlanks(text) = CHOOSE p \in Prefixes(text) : Ends(p)
  BY DEF WithoutBlanks, Ends
<1>6. WithoutBlanks(text) = SubSeq(text, 1, n)
  BY <1>3, <1>4, <1>5
<1> QED
  BY <1>1, <1>6, PrefixTyped

-----------------------------------------------------------------------------
(* The tables.                                                             *)

\* What is loaded of the records D.
IsNumbered(m, D) == D # <<>> /\ FirstRecordNumbered(m, D[1])
Bare(m, numbered, r) == IF numbered THEN Unnumbered(m, r) ELSE r
LinesOf(m, D) == [i \in 1 .. Len(D) |-> WithoutBlanks(Bare(m, IsNumbered(m, D), D[i]))]

TableEntry == [offset : Nat, length : Nat]
AccRec(C) == [lt : Seq(TableEntry), src : Seq(C), ltcap : Nat \ {0}, srccap : Nat,
              numbered : SUBSET BOOLEAN]

\* The tables have just the lines of the records D.
Accumulated(acc, m, D) ==
    /\ Len(acc.lt) = Len(D)
    /\ acc.numbered = IF D = <<>> THEN {} ELSE {FirstRecordNumbered(m, D[1])}
    /\ \A i \in 1 .. Len(D) : Statements(acc)[i] = LinesOf(m, D)[i]

LEMMA StatementAt ==
  ASSUME NEW C, NEW b, b.lt \in Seq(TableEntry), NEW i \in 1 .. Len(b.lt)
  PROVE  Statements(b)[i]
            = SubSeq(b.src, b.lt[i].offset + 1, b.lt[i].offset + b.lt[i].length)
<1>1. i \in DOMAIN b.lt
  OBVIOUS
<1> QED
  BY <1>1 DEF Statements

\* A part of a text that does not leave it stays when the text is extended, and
\* what is appended is found after it.
LEMMA PartsStay ==
  ASSUME NEW C, NEW s \in Seq(C), NEW t \in Seq(C), NEW o \in Nat, NEW n \in Nat,
         o + n <= Len(s)
  PROVE  SubSeq(s \o t, o + 1, o + n) = SubSeq(s, o + 1, o + n)
<1>1. Len(s) \in Nat
  OBVIOUS
<1>2. CASE n = 0
  <2>1. o + n < o + 1 /\ o + n \in Int /\ o + 1 \in Int
    BY <1>2
  <2> QED
    BY <2>1, SubSeqEmpty
<1>3. CASE n # 0
  <2>1. o + 1 \in 1 .. Len(s) /\ o + n \in 1 .. Len(s)
    BY <1>1, <1>3
  <2> QED
    BY <2>1, SubSeqOfConcat1
<1> QED
  BY <1>2, <1>3

LEMMA PartAdded ==
  ASSUME NEW C, NEW s \in Seq(C), NEW t \in Seq(C)
  PROVE  SubSeq(s \o t, Len(s) + 1, Len(s) + Len(t)) = t
<1>1. Len(s) \in Nat /\ Len(t) \in Nat
  OBVIOUS
<1>2. CASE t = <<>>
  <2>1. /\ Len(s) + Len(t) < Len(s) + 1 /\ Len(s) + Len(t) \in Int /\ Len(s) + 1 \in Int
    BY <1>1, <1>2
  <2> QED
    BY <1>2, <2>1, SubSeqEmpty
<1>3. CASE t # <<>>
  <2>1. Len(t) > 0
    BY <1>1, <1>3, EmptySeq
  <2> DEFINE a == Len(s) + 1
             b == Len(s) + Len(t)
  <2>2. /\ a \in Len(s) + 1 .. Len(s) + Len(t) /\ b \in Len(s) + 1 .. Len(s) + Len(t)
        /\ a - Len(s) = 1 /\ b - Len(s) = Len(t)
    BY <1>1, <2>1
  <2> HIDE DEF a, b
  <2>3. SubSeq(s \o t, a, b) = SubSeq(t, a - Len(s), b - Len(s))
    BY <2>2, SubSeqOfConcat2
  <2>4. SubSeq(t, 1, Len(t)) = t
    BY SubSeqFull
  <2> QED
    BY <2>2, <2>3, <2>4 DEF a, b
<1> QED
  BY <1>2, <1>3

\* The part of a text an entry points at.
Part(src, e) == SubSeq(src, e.offset + 1, e.offset + e.length)
Within(src, e) == e.offset + e.length <= Len(src)

\* An entry stays where it is in a text that grows, the new one is what is added.
LEMMA EntryStays ==
  ASSUME NEW C, NEW s \in Seq(C), NEW t \in Seq(C), NEW e \in TableEntry, Within(s, e)
  PROVE  Part(s \o t, e) = Part(s, e) /\ Within(s \o t, e)
<1>1. PICK o \in Nat, n \in Nat : o = e.offset /\ n = e.length
  BY DEF TableEntry
<1>2. o + n <= Len(s)
  BY <1>1 DEF Within
<1>3. SubSeq(s \o t, o + 1, o + n) = SubSeq(s, o + 1, o + n)
  BY <1>2, PartsStay
<1>4. Len(s \o t) = Len(s) + Len(t) /\ Len(s) \in Nat /\ Len(t) \in Nat
  BY ConcatProperties
<1>5. o + n <= Len(s \o t)
  BY <1>2, <1>4
<1> QED
  BY <1>1, <1>3, <1>5 DEF Part, Within

LEMMA EntryAdded ==
  ASSUME NEW C, NEW s \in Seq(C), NEW t \in Seq(C), NEW e,
         e = [offset |-> Len(s), length |-> Len(t)]
  PROVE  e \in TableEntry /\ Part(s \o t, e) = t /\ Within(s \o t, e)
<1>1. Len(s \o t) = Len(s) + Len(t) /\ Len(s) \in Nat /\ Len(t) \in Nat
  BY ConcatProperties
<1>2. e.offset = Len(s) /\ e.length = Len(t)
  OBVIOUS
<1>3. e \in TableEntry
  BY <1>1 DEF TableEntry
<1>4. SubSeq(s \o t, Len(s) + 1, Len(s) + Len(t)) = t
  BY PartAdded
<1> QED
  BY <1>1, <1>2, <1>3, <1>4 DEF Part, Within

\* What AddLine sets.
LEMMA AddLineFields ==
  ASSUME NEW C, NEW acc \in AccRec(C), NEW numbered, NEW line,
         NEW a, a = AddLine(acc, numbered, line),
         NEW e, e = [offset |-> Len(acc.src), length |-> Len(line)]
  PROVE  /\ a.lt = Append(acc.lt, e)
         /\ a.src = acc.src \o line /\ a.numbered = {numbered}
         /\ a.ltcap = LtNeeded(acc) /\ a.srccap = SrcNeeded(acc, Len(line))
         /\ numbered \in BOOLEAN /\ a.lt \in Seq(TableEntry) /\ a.src \in Seq(C)
            /\ a.ltcap \in Nat \ {0} /\ a.srccap \in Nat => a \in AccRec(C)
<1> DEFINE L == LtNeeded(acc)
           N == SrcNeeded(acc, Len(line))
           A == Append(acc.lt, e)
           B == acc.src \o line
           M == {numbered}
<1>1. a = [acc EXCEPT !.numbered = M, !.lt = A, !.src = B, !.ltcap = L, !.srccap = N]
  BY DEF AddLine
<1>2. numbered \in BOOLEAN => M \in SUBSET BOOLEAN
  OBVIOUS
<1> HIDE DEF L, N, A, B, M
<1>3. PICK lt, src, ltcap, srccap, num :
         acc = [lt |-> lt, src |-> src, ltcap |-> ltcap, srccap |-> srccap, numbered |-> num]
  BY DEF AccRec
<1>4. a.lt = A /\ a.src = B /\ a.numbered = M /\ a.ltcap = L /\ a.srccap = N
  <2> USE <1>1, <1>3
  <2>1. a.lt = A
    OBVIOUS
  <2>2. a.src = B
    OBVIOUS
  <2>3. a.numbered = M
    OBVIOUS
  <2>4. a.ltcap = L
    OBVIOUS
  <2>5. a.srccap = N
    OBVIOUS
  <2> QED
    BY <2>1, <2>2, <2>3, <2>4, <2>5
<1>5. ASSUME M \in SUBSET BOOLEAN, A \in Seq(TableEntry), B \in Seq(C), L \in Nat \ {0}, N \in Nat
      PROVE  a \in AccRec(C)
  BY <1>1, <1>5 DEF AccRec
<1> QED
  BY <1>2, <1>4, <1>5 DEF L, N, A, B, M

\* One more line in the tables: the lines there are stay, it is the last.
LEMMA AddLineFits ==
  ASSUME NEW C, NEW acc \in AccRec(C), Fits(acc), NEW numbered \in BOOLEAN, NEW line \in Seq(C),
         NEW a, a = AddLine(acc, numbered, line)
  PROVE  /\ a \in AccRec(C) /\ Fits(a)
         /\ Len(a.lt) = Len(acc.lt) + 1 /\ a.numbered = {numbered}
         /\ \A i \in 1 .. Len(acc.lt) : Statements(a)[i] = Statements(acc)[i]
         /\ Statements(a)[Len(acc.lt) + 1] = line
<1> DEFINE e == [offset |-> Len(acc.src), length |-> Len(line)]
<1>0. e = [offset |-> Len(acc.src), length |-> Len(line)]
  OBVIOUS
<1>1. PICK n \in Nat : n = Len(acc.lt)
  BY DEF AccRec
<1>2. /\ acc.lt \in Seq(TableEntry) /\ acc.src \in Seq(C) /\ acc.ltcap \in Nat \ {0}
      /\ acc.srccap \in Nat
  BY DEF AccRec
<1>3. /\ a.lt = Append(acc.lt, e) /\ a.src = acc.src \o line /\ a.numbered = {numbered}
      /\ a.ltcap = LtNeeded(acc) /\ a.srccap = SrcNeeded(acc, Len(line))
      /\ a.lt \in Seq(TableEntry) /\ a.src \in Seq(C)
         /\ a.ltcap \in Nat \ {0} /\ a.srccap \in Nat => a \in AccRec(C)
  <2> HIDE DEF e
  <2>1. a.lt = Append(acc.lt, e)
    BY <1>0, AddLineFields
  <2>2. a.src = acc.src \o line
    BY <1>0, AddLineFields
  <2>3. a.numbered = {numbered}
    BY <1>0, AddLineFields
  <2>4. a.ltcap = LtNeeded(acc)
    BY <1>0, AddLineFields
  <2>5. a.srccap = SrcNeeded(acc, Len(line))
    BY <1>0, AddLineFields
  <2>6. a.lt \in Seq(TableEntry) /\ a.src \in Seq(C)
        /\ a.ltcap \in Nat \ {0} /\ a.srccap \in Nat => a \in AccRec(C)
    BY <1>0, AddLineFields
  <2> QED
    BY <2>1, <2>2, <2>3, <2>4, <2>5, <2>6
<1>4. e \in TableEntry /\ Part(acc.src \o line, e) = line /\ Within(acc.src \o line, e)
  BY <1>2, EntryAdded
<1> HIDE DEF e
<1>5. /\ a.lt \in Seq(TableEntry) /\ Len(a.lt) = n + 1 /\ a.lt[n + 1] = e
      /\ \A i \in 1 .. n : a.lt[i] = acc.lt[i]
  BY <1>1, <1>2, <1>3, <1>4, AppendProperties
<1>6. a.src \in Seq(C) /\ Len(a.src) = Len(acc.src) + Len(line)
  BY <1>2, <1>3, ConcatProperties
<1>7. /\ Len(acc.src) \in Nat /\ Len(line) \in Nat
      /\ n <= acc.ltcap /\ Len(acc.src) <= acc.srccap
  BY <1>1, <1>2 DEF Fits
<1>8. LtNeeded(acc) \in Nat \ {0} /\ n + 1 <= LtNeeded(acc)
  <2>1. LtNeeded(acc) = IF n >= acc.ltcap THEN 2 * acc.ltcap ELSE acc.ltcap
    BY <1>1 DEF LtNeeded
  <2> QED
    BY <1>2, <1>7, <2>1
<1>9. SrcNeeded(acc, Len(line)) \in Nat /\ Len(acc.src) + Len(line) <= SrcNeeded(acc, Len(line))
  <2> DEFINE t == Len(acc.src) + Len(line)
  <2>1. SrcNeeded(acc, Len(line))
          = IF t <= acc.srccap \/ Len(line) = 0 THEN acc.srccap
            ELSE IF 2 * acc.srccap < t THEN 2 * t ELSE 2 * acc.srccap
    BY DEF SrcNeeded
  <2>2. t \in Nat /\ (Len(line) = 0 => t <= acc.srccap)
    BY <1>7
  <2> HIDE DEF t
  <2>3. SrcNeeded(acc, Len(line)) \in Nat /\ t <= SrcNeeded(acc, Len(line))
    BY <1>2, <2>1, <2>2
  <2> QED
    BY <2>3 DEF t
<1>10. a \in AccRec(C)
  BY <1>3, <1>5, <1>6, <1>8, <1>9
<1>11. ASSUME NEW i \in 1 .. n
       PROVE  /\ acc.lt[i] \in TableEntry
              /\ Part(a.src, a.lt[i]) = Part(acc.src, acc.lt[i]) /\ Within(a.src, a.lt[i])
  <2>1. acc.lt[i] \in TableEntry
    BY <1>1, <1>2
  <2>2. Within(acc.src, acc.lt[i])
    BY <1>1 DEF Fits, Within
  <2>3. /\ Part(acc.src \o line, acc.lt[i]) = Part(acc.src, acc.lt[i])
        /\ Within(acc.src \o line, acc.lt[i])
    BY <1>2, <2>1, <2>2, EntryStays
  <2> QED
    BY <1>3, <1>5, <2>1, <2>3
<1>12. Fits(a)
  <2>1. ASSUME NEW i \in 1 .. n + 1 PROVE Within(a.src, a.lt[i])
    <3>1. CASE i = n + 1
      BY <1>3, <1>4, <1>5, <3>1
    <3>2. CASE i # n + 1
      <4>1. i \in 1 .. n
        BY <3>2
      <4> QED
        BY <1>11, <4>1
    <3> QED
      BY <3>1, <3>2
  <2>2. \A i \in 1 .. Len(a.lt) : a.lt[i].offset + a.lt[i].length <= Len(a.src)
    BY <1>5, <2>1 DEF Within
  <2>3. Len(a.lt) <= a.ltcap /\ Len(a.src) <= a.srccap
    BY <1>3, <1>5, <1>6, <1>8, <1>9
  <2> QED
    BY <2>2, <2>3 DEF Fits
<1>13. ASSUME NEW b \in {a, acc}, NEW i \in 1 .. Len(b.lt)
       PROVE  Statements(b)[i] = Part(b.src, b.lt[i])
  BY <1>2, <1>5, StatementAt DEF Part
<1>14. ASSUME NEW i \in 1 .. n PROVE Statements(a)[i] = Statements(acc)[i]
  <2>1. i \in 1 .. Len(a.lt) /\ i \in 1 .. Len(acc.lt)
    BY <1>1, <1>5
  <2>2. Statements(a)[i] = Part(a.src, a.lt[i]) /\ Statements(acc)[i] = Part(acc.src, acc.lt[i])
    BY <1>13, <2>1
  <2> QED
    BY <1>11, <2>2
<1>15. Statements(a)[n + 1] = line
  <2>1. n + 1 \in 1 .. Len(a.lt)
    BY <1>5
  <2>2. Statements(a)[n + 1] = Part(a.src, a.lt[n + 1])
    BY <1>13, <2>1
  <2> QED
    BY <1>3, <1>4, <1>5, <2>2
<1> QED
  BY <1>1, <1>3, <1>5, <1>10, <1>12, <1>14, <1>15

LEMMA PieceTyped ==
  ASSUME NEW C, NEW text \in Seq(C), NEW i \in Nat \ {0}, NEW n \in Int, n <= Len(text)
  PROVE  SubSeq(text, i, n) \in Seq(C)
<1>1. \A k \in i .. n : text[k] \in C
  OBVIOUS
<1>2. i \in Int
  OBVIOUS
<1> QED
  BY <1>1, <1>2, SubSeqProperties

\* What the sequence numbers of a member are found from and taken off.
LEMMA NumbersTyped ==
  ASSUME NEW C, NEW m, HasMember(m), Readable(m, C), NEW text \in Seq(C)
  PROVE  FirstRecordNumbered(m, text) \in BOOLEAN /\ Unnumbered(m, text) \in Seq(C)
<1>1. FirstRecordNumbered(m, text) \in BOOLEAN
  <2>1. \A t : AllDigits(t) \in BOOLEAN
    BY DEF AllDigits
  <2> QED
    BY <2>1 DEF FirstRecordNumbered
<1>2. Len(text) \in Nat
  OBVIOUS
<1>3. CASE m.recfm = "F"
  <2>1. m.lrecl \in Nat
    BY <1>3 DEF Readable
  <2> DEFINE d == m.lrecl - SeqLen
             k == Min({Len(text), d})
  <2>2. d \in Int
    BY LoadAssumption, <2>1
  <2> HIDE DEF d
  <2>3. k = IF Len(text) <= d THEN Len(text) ELSE d
    BY <1>2, <2>2 DEF Min
  <2> HIDE DEF k
  <2>4. k \in Int /\ k <= Len(text)
    BY <1>2, <2>2, <2>3
  <2>5. SubSeq(text, 1, k) \in Seq(C)
    BY <2>4, PieceTyped
  <2> QED
    BY <1>1, <1>3, <2>5 DEF Unnumbered, k, d
<1>4. CASE m.recfm # "F"
  <2>1. SeqLen + 1 \in Nat \ {0} /\ Len(text) \in Int /\ Len(text) <= Len(text)
    BY LoadAssumption, <1>2
  <2>2. SubSeq(text, SeqLen + 1, Len(text)) \in Seq(C)
    BY <2>1, PieceTyped
  <2> QED
    BY <1>1, <1>4, <2>2 DEF Unnumbered
<1> QED
  BY <1>3, <1>4

LEMMA NumberedByFirst ==
  ASSUME NEW m, NEW D, D # <<>>, FirstRecordNumbered(m, D[1]) \in BOOLEAN
  PROVE  IsNumbered(m, D) = FirstRecordNumbered(m, D[1])
<1>1. CASE FirstRecordNumbered(m, D[1]) = TRUE
  BY <1>1 DEF IsNumbered
<1>2. CASE FirstRecordNumbered(m, D[1]) = FALSE
  BY <1>2 DEF IsNumbered
<1> QED
  BY <1>1, <1>2

\* One more record: its line is the one that is promised of it.
LEMMA RecordAdded ==
  ASSUME NEW C, NEW acc \in AccRec(C), Fits(acc), NEW m, HasMember(m), Readable(m, C),
         NEW D \in Seq(LineText(C)), Accumulated(acc, m, D),
         NEW r \in LineText(C), NEW record, TrimEnd(record, {Newline}) = r,
         NEW numbered, numbered = Numbered(m, acc, r),
         NEW a, a = AddLine(acc, numbered, LineOf(m, numbered, record))
  PROVE  a \in AccRec(C) /\ Fits(a) /\ Accumulated(a, m, Append(D, r))
<1> DEFINE line == LineOf(m, numbered, record)
           E == Append(D, r)
<1>1. PICK n \in Nat : n = Len(D)
  OBVIOUS
<1>2. /\ Len(E) = n + 1 /\ E[n + 1] = r /\ E # <<>>
      /\ \A i \in 1 .. n : E[i] = D[i]
  BY <1>1, AppendProperties
<1>3. numbered = FirstRecordNumbered(m, E[1])
  <2>1. CASE D = <<>>
    <3>1. acc.numbered = {} /\ E[1] = r
      BY <1>1, <1>2, <2>1 DEF Accumulated
    <3> QED
      BY <3>1 DEF Numbered
  <2>2. CASE D # <<>>
    <3>1. 1 \in 1 .. n /\ D[1] \in Seq(C)
      BY <1>1, <2>2, EmptySeq DEF LineText
    <3>2. acc.numbered = {FirstRecordNumbered(m, D[1])} /\ E[1] = D[1]
      BY <1>2, <2>2, <3>1 DEF Accumulated
    <3>3. FirstRecordNumbered(m, D[1]) \in BOOLEAN
      BY <3>1, NumbersTyped
    <3>4. numbered = (TRUE \in {FirstRecordNumbered(m, D[1])})
      BY <3>2 DEF Numbered
    <3> HIDE DEF E
    <3>5. CASE FirstRecordNumbered(m, D[1]) = TRUE
      BY <3>2, <3>4, <3>5
    <3>6. CASE FirstRecordNumbered(m, D[1]) = FALSE
      <4>0. (TRUE \in {FALSE}) = FALSE
        OBVIOUS
      <4>1. numbered = FALSE
        BY <3>4, <3>6, <4>0, Zenon
      <4> QED
        BY <3>2, <3>6, <4>1
    <3> QED
      BY <3>3, <3>5, <3>6
  <2> QED
    BY <2>1, <2>2
<1>4. r \in Seq(C) /\ E[1] \in Seq(C)
  <2>1. 1 \in 1 .. n + 1
    BY <1>1
  <2>2. E \in Seq(LineText(C))
    BY AppendProperties
  <2>3. E[1] \in LineText(C)
    BY <1>2, <2>1, <2>2
  <2> QED
    BY <2>3 DEF LineText
<1>5. numbered \in BOOLEAN
  BY <1>3, <1>4, NumbersTyped
<1>6. Bare(m, numbered, r) \in Seq(C)
  BY <1>4, NumbersTyped DEF Bare
<1>7. line = WithoutBlanks(Bare(m, numbered, r)) /\ line \in Seq(C)
  <2>1. line = TrimEnd(Bare(m, numbered, r), {Blank})
    BY DEF LineOf, Bare
  <2> QED
    BY <1>6, <2>1, BlanksTrimmed
<1>0. a = AddLine(acc, numbered, line)
  OBVIOUS
<1> HIDE DEF line
<1>8. /\ a \in AccRec(C) /\ Fits(a)
      /\ Len(a.lt) = Len(acc.lt) + 1 /\ a.numbered = {numbered}
      /\ \A i \in 1 .. Len(acc.lt) : Statements(a)[i] = Statements(acc)[i]
      /\ Statements(a)[Len(acc.lt) + 1] = line
  BY <1>5, <1>7, <1>0, AddLineFits
<1> HIDE DEF E
<1>9. Len(acc.lt) = n
  BY <1>1 DEF Accumulated
<1>10. IsNumbered(m, E) = numbered
  BY <1>2, <1>3, <1>5, NumberedByFirst
<1>11. ASSUME NEW i \in 1 .. n + 1 PROVE Statements(a)[i] = LinesOf(m, E)[i]
  <2>1. LinesOf(m, E)[i] = WithoutBlanks(Bare(m, numbered, E[i]))
    BY <1>2, <1>10 DEF LinesOf
  <2>2. CASE i = n + 1
    BY <1>2, <1>7, <1>8, <1>9, <2>1, <2>2
  <2>3. CASE i # n + 1
    <3>1. i \in 1 .. n /\ D # <<>>
      BY <1>1, <2>3, EmptySeq
    <3>2. Statements(acc)[i] = LinesOf(m, D)[i]
      BY <1>1, <3>1 DEF Accumulated
    <3>3. 1 \in 1 .. n
      BY <3>1
    <3>4. IsNumbered(m, D) = FirstRecordNumbered(m, D[1]) /\ D[1] = E[1]
      BY <1>2, <1>3, <1>5, <3>1, <3>3, NumberedByFirst
    <3>5. LinesOf(m, D)[i] = WithoutBlanks(Bare(m, IsNumbered(m, D), D[i]))
      BY <1>1, <3>1 DEF LinesOf
    <3> QED
      BY <1>2, <1>3, <1>8, <1>9, <2>1, <3>1, <3>2, <3>4, <3>5
  <2> QED
    BY <2>2, <2>3
<1>12. Accumulated(a, m, E)
  BY <1>2, <1>3, <1>8, <1>9, <1>11 DEF Accumulated
<1> QED
  BY <1>8, <1>12 DEF E

-----------------------------------------------------------------------------
(* The readers.                                                            *)

WithNewline(r) == r \o <<Newline>>

\* A newline at the end of a line is all that is trimmed off.
LEMMA NewlineTrimmed ==
  ASSUME NEW C, NEW r \in LineText(C)
  PROVE  TrimEnd(r, {Newline}) = r /\ TrimEnd(WithNewline(r), {Newline}) = r
<1> DEFINE B == C \cup {Newline}
           w == WithNewline(r)
<1>1. PICK n \in Nat : n = Len(r)
  BY DEF LineText
<1>2. r \in Seq(B) /\ (n > 0 => r[n] \notin {Newline})
  <2>1. r \in Seq(C) /\ (r # <<>> => r[n] # Newline)
    BY <1>1 DEF LineText
  <2> QED
    BY <1>1, <2>1, EmptySeq
<1>3. <<Newline>> \in Seq(B) /\ Len(<<Newline>>) = 1 /\ <<Newline>>[1] = Newline
  OBVIOUS
<1>4. w \in Seq(B) /\ Len(w) = n + 1 /\ w[n + 1] = Newline /\ \A i \in 1 .. n : w[i] = r[i]
  BY <1>1, <1>2, <1>3, ConcatProperties DEF WithNewline
<1> HIDE DEF B, w
<1>5. SubSeq(r, 1, n) = r
  BY <1>1, <1>2, SubSeqFull
<1>6. TrimEnd(r, {Newline}) = r
  <2>1. PICK m \in 0 .. Len(r) : /\ TrimEnd(r, {Newline}) = SubSeq(r, 1, m)
                                 /\ m > 0 => r[m] \notin {Newline}
                                 /\ \A i \in m + 1 .. Len(r) : r[i] \in {Newline}
    BY <1>2, TrimEndIs
  <2>2. n \in 0 .. Len(r) /\ \A i \in n + 1 .. Len(r) : r[i] \in {Newline}
    BY <1>1
  <2>3. m = n
    BY <1>2, <2>1, <2>2, TrimIsOne
  <2> QED
    BY <1>5, <2>1, <2>3
<1>7. TrimEnd(w, {Newline}) = r
  <2>1. PICK m \in 0 .. Len(w) : /\ TrimEnd(w, {Newline}) = SubSeq(w, 1, m)
                                 /\ m > 0 => w[m] \notin {Newline}
                                 /\ \A i \in m + 1 .. Len(w) : w[i] \in {Newline}
    BY <1>4, TrimEndIs
  <2>2. n \in 0 .. Len(w) /\ \A i \in n + 1 .. Len(w) : w[i] \in {Newline}
    BY <1>4
  <2>3. n > 0 => w[n] \notin {Newline}
    BY <1>2, <1>4
  <2>4. m = n
    BY <1>4, <2>1, <2>2, <2>3, TrimIsOne
  <2>5. SubSeq(w, 1, n) = r
    <3>1. /\ SubSeq(w, 1, n) \in Seq(B) /\ Len(SubSeq(w, 1, n)) = n
          /\ \A i \in 1 .. n : SubSeq(w, 1, n)[i] = w[i]
      BY <1>4, <2>2, PrefixTyped
    <3> DEFINE q == SubSeq(w, 1, n)
    <3> HIDE DEF q
    <3>2. q \in Seq(B) /\ Len(q) = Len(r) /\ \A i \in 1 .. Len(q) : q[i] = r[i]
      BY <1>1, <1>4, <3>1 DEF q
    <3>3. q = r
      BY <1>2, <3>2, SeqEqual
    <3> QED
      BY <3>3 DEF q
  <2> QED
    BY <2>1, <2>4, <2>5
<1> QED
  BY <1>6, <1>7 DEF w

\* A line that fits the buffer is one piece.
LEMMA OnePiece ==
  ASSUME NEW C, NEW r \in LineText(C)
  PROVE  FgetsPieces(r) = <<WithNewline(r)>>
<1> DEFINE w == WithNewline(r)
           size == LineBuf - 1
           count == (Len(w) + size - 1) \div size
<1>1. w \in Seq(C \cup {Newline}) /\ Len(w) = Len(r) + 1 /\ Len(r) \in Nat
  <2>1. r \in Seq(C \cup {Newline}) /\ <<Newline>> \in Seq(C \cup {Newline})
    BY DEF LineText
  <2> QED
    BY <2>1, ConcatProperties DEF WithNewline
<1> HIDE DEF w
<1>2. Len(r) + 1 < LineBuf
  BY DEF LineText
<1>3. size \in Nat /\ Len(w) <= size /\ Len(w) >= 1 /\ Len(w) \in Nat
  BY LoadAssumption, <1>1, <1>2
<1> HIDE DEF size
<1>4. count = 1
  <2> DEFINE a == Len(w) + size - 1
  <2>1. a \in Nat /\ size <= a /\ a < 2 * size /\ size > 0
    BY <1>3
  <2> HIDE DEF a
  <2>2. a \div size = 1
    BY <1>3, <2>1
  <2> QED
    BY <2>2 DEF a
<1> HIDE DEF count
<1>5. FgetsPieces(r) = [i \in 1 .. count |->
                          SubSeq(w, (i - 1) * size + 1, IF i = count THEN Len(w) ELSE i * size)]
  BY DEF FgetsPieces, w, size, count, WithNewline
<1>6. ASSUME NEW i \in 1 .. 1
      PROVE  SubSeq(w, (i - 1) * size + 1, IF i = 1 THEN Len(w) ELSE i * size) = w
  <2>1. i = 1 /\ (i - 1) * size + 1 = 1
    BY <1>3
  <2>2. SubSeq(w, 1, Len(w)) = w
    BY <1>1, SubSeqFull
  <2> QED
    BY <2>1, <2>2
<1>7. FgetsPieces(r) = [i \in 1 .. 1 |-> w]
  BY <1>4, <1>5, <1>6
<1>8. <<w>> = [i \in 1 .. 1 |-> w]
  OBVIOUS
<1> QED
  BY <1>7, <1>8 DEF w

\* FlattenSeq of sequences of one.
LEMMA FlattenOnes ==
  ASSUME NEW S, NEW x \in Seq(S), NEW ss, ss = [i \in 1 .. Len(x) |-> <<x[i]>>]
  PROVE  FlattenSeq(ss) = x
<1> DEFINE First(k) == [i \in 1 .. k |-> <<x[i]>>]
           P == {k \in Nat : k <= Len(x) => FlattenSeq(First(k)) = SubSeq(x, 1, k)}
<1>0. \A k \in Nat : Len(First(k)) = k /\ \A i \in 1 .. k : First(k)[i] = <<x[i]>>
  OBVIOUS
<1>n. Len(x) \in Nat
  OBVIOUS
<1> HIDE DEF First
<1>1. 0 \in P
  <2>1. FlattenSeq(First(0)) = First(0)
    BY <1>0, FlattenNone
  <2>2. First(0) = <<>> /\ SubSeq(x, 1, 0) = <<>>
    BY SubSeqEmpty DEF First
  <2> QED
    BY <2>1, <2>2
<1>2. ASSUME NEW k \in Nat, k \in P PROVE k + 1 \in P
  <2> SUFFICES ASSUME k + 1 <= Len(x)
               PROVE  FlattenSeq(First(k + 1)) = SubSeq(x, 1, k + 1)
    OBVIOUS
  <2>1. FlattenSeq(First(k)) = SubSeq(x, 1, k)
    BY <1>2, <1>n
  <2>2. FlattenSeq(First(k + 1)) = IF k = 0 THEN <<x[1]>>
                                   ELSE SubSeq(x, 1, k) \o <<x[k + 1]>>
    <3> DEFINE s == First(k)
               t == First(k + 1)
    <3>1. /\ Len(s) = k /\ Len(t) = k + 1 /\ t[1] = <<x[1]>> /\ t[k + 1] = <<x[k + 1]>>
          /\ \A i \in 1 .. k : t[i] = s[i]
      <4>1. k + 1 \in Nat /\ 1 \in 1 .. k + 1 /\ k + 1 \in 1 .. k + 1
        OBVIOUS
      <4>2. Len(t) = k + 1 /\ \A i \in 1 .. k + 1 : t[i] = <<x[i]>>
        BY <1>0, <4>1
      <4>3. Len(s) = k /\ \A i \in 1 .. k : s[i] = <<x[i]>>
        BY <1>0
      <4>4. \A i \in 1 .. k : i \in 1 .. k + 1
        OBVIOUS
      <4> HIDE DEF s, t
      <4> QED
        BY <4>1, <4>2, <4>3, <4>4
    <3> HIDE DEF s, t
    <3>2. FlattenSeq(t) = IF Len(s) = 0 THEN t[1] ELSE FlattenSeq(s) \o t[Len(s) + 1]
      BY <3>1, FlattenSteps
    <3> QED
      BY <2>1, <3>1, <3>2 DEF s, t
  <2>3. k + 1 \in 1 .. Len(x)
    BY <1>n
  <2>4. SubSeq(x, 1, k + 1) = SubSeq(x, 1, k) \o <<x[k + 1]>>
    <3> DEFINE n == k + 1
    <3>1. 1 \in 1 .. Len(x) /\ n \in 1 .. Len(x) /\ n - 1 = k
      BY <1>n, <2>3
    <3> HIDE DEF n
    <3>2. SubSeq(x, 1, n) = SubSeq(x, 1, n - 1) \o <<x[n]>>
      BY <3>1, SubSeqRecursiveSecond
    <3> QED
      BY <3>1, <3>2 DEF n
  <2>5. k = 0 => SubSeq(x, 1, k + 1) = <<x[1]>>
    <3>1. SubSeq(x, 1, 0) = <<>> /\ <<>> \o <<x[1]>> = <<x[1]>>
      <4>1. <<x[1]>> \in Seq({x[1]})
        OBVIOUS
      <4> QED
        BY <4>1, SubSeqEmpty, ConcatEmptySeq
    <3>2. k = 0 => SubSeq(x, 1, k + 1) = SubSeq(x, 1, 0) \o <<x[1]>>
      BY <2>4
    <3> QED
      BY <3>1, <3>2
  <2> QED
    BY <2>2, <2>4, <2>5
<1> HIDE DEF P
<1>3. Len(x) \in P
  BY <1>n, <1>1, <1>2, AllNumbers
<1>4. FlattenSeq(First(Len(x))) = SubSeq(x, 1, Len(x))
  BY <1>n, <1>3 DEF P
<1>5. SubSeq(x, 1, Len(x)) = x
  BY SubSeqFull
<1> QED
  BY <1>4, <1>5 DEF First

\* The stdio reader hands a line with its newline.
LEMMA PiecesAre ==
  ASSUME NEW C, NEW R \in Seq(LineText(C))
  PROVE  /\ Pieces(R) = [i \in 1 .. Len(R) |-> WithNewline(R[i])]
         /\ Pieces(R) \in Seq(Seq(C \cup {Newline}))
<1> DEFINE S == Seq(C \cup {Newline})
           x == [i \in 1 .. Len(R) |-> WithNewline(R[i])]
<1>1. ASSUME NEW i \in 1 .. Len(R)
      PROVE  WithNewline(R[i]) \in S /\ FgetsPieces(R[i]) = <<WithNewline(R[i])>>
  <2>1. R[i] \in LineText(C)
    OBVIOUS
  <2>2. R[i] \in S /\ <<Newline>> \in S
    BY LoadAssumption, <2>1 DEF LineText
  <2> QED
    BY <2>1, <2>2, OnePiece, ConcatProperties DEF WithNewline
<1>2. x \in Seq(S) /\ Len(x) = Len(R) /\ \A i \in 1 .. Len(R) : x[i] = WithNewline(R[i])
  <2>1. Len(R) \in Nat
    OBVIOUS
  <2> HIDE DEF S
  <2> QED
    BY <1>1, <2>1
<1> HIDE DEF S
<1>3. Pieces(R) = FlattenSeq([i \in 1 .. Len(x) |-> <<x[i]>>])
  <2>1. DOMAIN R = 1 .. Len(R)
    OBVIOUS
  <2> HIDE DEF x
  <2>2. [i \in DOMAIN R |-> FgetsPieces(R[i])] = [i \in 1 .. Len(x) |-> <<x[i]>>]
    BY <1>1, <1>2, <2>1
  <2> QED
    BY <2>2 DEF Pieces
<1>4. Pieces(R) = x
  <2> HIDE DEF x
  <2> QED
    BY <1>2, <1>3, FlattenOnes
<1> QED
  BY <1>2, <1>4 DEF S

-----------------------------------------------------------------------------
(* Blocks.                                                                 *)

\* The records of the first k blocks of a member.
Joined(m, k) == FlattenSeq([b \in 1 .. k |-> Deblock(m, m.blocks[b])])

LEMMA JoinedNone ==
  ASSUME NEW m
  PROVE  Joined(m, 0) = <<>>
<1>1. /\ [b \in 1 .. 0 |-> Deblock(m, m.blocks[b])] = <<>>
      /\ Len([b \in 1 .. 0 |-> Deblock(m, m.blocks[b])]) = 0
  OBVIOUS
<1> QED
  BY <1>1, FlattenNone DEF Joined

LEMMA JoinedNext ==
  ASSUME NEW S, NEW m, NEW k \in Nat, Joined(m, k) \in Seq(S),
         Deblock(m, m.blocks[k + 1]) \in Seq(S)
  PROVE  /\ Joined(m, k + 1) = Joined(m, k) \o Deblock(m, m.blocks[k + 1])
         /\ Joined(m, k + 1) \in Seq(S)
<1> DEFINE s == [b \in 1 .. k |-> Deblock(m, m.blocks[b])]
           t == [b \in 1 .. k + 1 |-> Deblock(m, m.blocks[b])]
           r == Deblock(m, m.blocks[k + 1])
<1>1. /\ Len(s) = k /\ Len(t) = k + 1 /\ \A i \in 1 .. k : t[i] = s[i]
      /\ t[k + 1] = r
  <2>1. k + 1 \in Nat /\ k + 1 \in 1 .. k + 1 /\ \A i \in 1 .. k : i \in 1 .. k + 1
    OBVIOUS
  <2> QED
    BY <2>1
<1>2. Joined(m, k) = FlattenSeq(s) /\ Joined(m, k + 1) = FlattenSeq(t)
  BY DEF Joined
<1> HIDE DEF s, t, r
<1>3. FlattenSeq(t) = IF k = 0 THEN t[1] ELSE FlattenSeq(s) \o t[k + 1]
  BY <1>1, FlattenSteps
<1>4. r \in Seq(S)
  BY DEF r
<1>5. CASE k = 0
  <2>1. Joined(m, k) = <<>>
    BY <1>5, JoinedNone
  <2>2. <<>> \o r = r
    BY <1>4, ConcatEmptySeq
  <2>3. Joined(m, k + 1) = r
    BY <1>1, <1>2, <1>3, <1>5
  <2> QED
    BY <1>4, <2>1, <2>2, <2>3 DEF r
<1>6. CASE k # 0
  <2>1. Joined(m, k + 1) = Joined(m, k) \o r
    BY <1>1, <1>2, <1>3, <1>6
  <2> QED
    BY <1>4, <2>1, ConcatProperties DEF r
<1> QED
  BY <1>5, <1>6

\* All the blocks of a member.
LEMMA JoinedAll ==
  ASSUME NEW m, NEW S, m.blocks \in Seq(S)
  PROVE  RecordsOf(m) = Joined(m, Len(m.blocks))
<1>1. DOMAIN m.blocks = 1 .. Len(m.blocks)
  OBVIOUS
<1> QED
  BY <1>1 DEF RecordsOf, Joined

\* The blocks that are left after k.
Rest(m, k) == SubSeq(m.blocks, k + 1, Len(m.blocks))

LEMMA RestSteps ==
  ASSUME NEW m, NEW S, m.blocks \in Seq(S)
  PROVE  /\ Rest(m, 0) = m.blocks
         /\ \A k \in 0 .. Len(m.blocks) :
              /\ Rest(m, k) = <<>> => k = Len(m.blocks)
              /\ Rest(m, k) # <<>> =>
                    /\ k + 1 \in 1 .. Len(m.blocks)
                    /\ Head(Rest(m, k)) = m.blocks[k + 1]
                    /\ Tail(Rest(m, k)) = Rest(m, k + 1)
<1> DEFINE x == m.blocks
<1>1. x \in Seq(S) /\ Len(x) \in Nat
  OBVIOUS
<1>2. \A k : Rest(m, k) = SubSeq(x, k + 1, Len(x))
  BY DEF Rest
<1> HIDE DEF x
<1>3. Rest(m, 0) = x
  BY <1>1, <1>2, SubSeqFull
<1>4. ASSUME NEW k \in 0 .. Len(x)
      PROVE  /\ Rest(m, k) = <<>> => k = Len(x)
             /\ Rest(m, k) # <<>> =>
                   /\ k + 1 \in 1 .. Len(x)
                   /\ Head(Rest(m, k)) = x[k + 1]
                   /\ Tail(Rest(m, k)) = Rest(m, k + 1)
  <2>1. CASE k = Len(x)
    <3>1. k + 1 \in Int /\ Len(x) \in Int /\ Len(x) < k + 1
      BY <1>1, <2>1
    <3>2. Rest(m, k) = <<>>
      BY <1>2, <3>1, SubSeqEmpty
    <3> QED
      BY <2>1, <3>2
  <2>2. CASE k # Len(x)
    <3> DEFINE n == k + 1
    <3>1. n \in 1 .. Len(x) /\ Len(x) \in n .. Len(x) /\ n \in Int /\ Len(x) \in Int
      BY <1>1, <2>2
    <3>2. Rest(m, k) = SubSeq(x, n, Len(x)) /\ Rest(m, k + 1) = SubSeq(x, n + 1, Len(x))
      BY <1>2
    <3> HIDE DEF n
    <3>3. Head(SubSeq(x, n, Len(x))) = x[n] /\ Tail(SubSeq(x, n, Len(x))) = SubSeq(x, n + 1, Len(x))
      BY <1>1, <3>1, HeadTailOfSubSeq
    <3>4. SubSeq(x, n, Len(x)) # <<>>
      <4>1. \A i \in n .. Len(x) : x[i] \in S
        BY <1>1, <3>1
      <4>2. Len(SubSeq(x, n, Len(x))) = IF n <= Len(x) THEN Len(x) - n + 1 ELSE 0
        BY <3>1, <4>1, SubSeqProperties
      <4>3. Len(SubSeq(x, n, Len(x))) # 0
        BY <3>1, <4>2
      <4> QED
        BY <4>3, EmptySeq
    <3>5. n = k + 1
      BY DEF n
    <3> QED
      BY <3>1, <3>2, <3>3, <3>4, <3>5
  <2> QED
    BY <2>1, <2>2
<1> QED
  BY <1>3, <1>4 DEF x

\* What a reader hands of the records R.
Handed(reader, R) ==
    IF reader = "stdio" THEN [i \in 1 .. Len(R) |-> WithNewline(R[i])] ELSE R

LEMMA HandedSteps ==
  ASSUME NEW C, NEW R \in Seq(LineText(C)), NEW reader
  PROVE  /\ Handed(reader, R) = <<>> <=> R = <<>>
         /\ R # <<>> =>
              /\ Head(R) \in LineText(C) /\ Tail(R) \in Seq(LineText(C))
              /\ TrimEnd(Head(Handed(reader, R)), {Newline}) = Head(R)
              /\ Tail(Handed(reader, R)) = Handed(reader, Tail(R))
<1> DEFINE x == Handed(reader, R)
           N(n, q) == [i \in 1 .. n |-> WithNewline(q[i])]
           V == {WithNewline(r) : r \in LineText(C)}
<1>1. PICK n \in Nat : n = Len(R)
  OBVIOUS
<1>0. \A r \in LineText(C) : WithNewline(r) \in V
  OBVIOUS
<1> HIDE DEF V
<1>2. R # <<>> => /\ n > 0 /\ Head(R) = R[1] /\ Head(R) \in LineText(C)
                  /\ Tail(R) \in Seq(LineText(C)) /\ Len(Tail(R)) = n - 1
                  /\ \A i \in 1 .. n - 1 : Tail(R)[i] = R[i + 1]
  BY <1>1, EmptySeq, HeadTailProperties
<1>3. R = <<>> <=> n = 0
  BY <1>1, EmptySeq
<1>4. CASE reader # "stdio"
  <2>1. x = R /\ Handed(reader, Tail(R)) = Tail(R)
    BY <1>4 DEF Handed
  <2> QED
    BY <1>2, <2>1, NewlineTrimmed
<1>5. CASE reader = "stdio"
  <2>1. x = N(n, R) /\ (R # <<>> => Handed(reader, Tail(R)) = N(n - 1, Tail(R)))
    BY <1>1, <1>2, <1>5 DEF Handed
  <2>2. ASSUME NEW k \in Nat, NEW q \in Seq(LineText(C)), k = Len(q)
        PROVE  /\ N(k, q) \in Seq(V) /\ Len(N(k, q)) = k
               /\ \A i \in 1 .. k : N(k, q)[i] = WithNewline(q[i])
    <3>1. \A i \in 1 .. k : WithNewline(q[i]) \in V
      BY <1>0, <2>2
    <3> QED
      BY <3>1
  <2> HIDE DEF N
  <2>3. N(n, R) = <<>> <=> n = 0
    BY <1>1, <2>2, EmptySeq
  <2>4. ASSUME R # <<>>
        PROVE  /\ Head(N(n, R)) = WithNewline(Head(R))
               /\ Tail(N(n, R)) = N(n - 1, Tail(R))
    <3> DEFINE y == N(n, R)
               z == N(n - 1, Tail(R))
    <3>1. /\ y \in Seq(V) /\ Len(y) = n /\ y # <<>>
          /\ \A i \in 1 .. n : y[i] = WithNewline(R[i])
      BY <1>1, <1>2, <2>2, <2>3, <2>4
    <3>2. /\ z \in Seq(V) /\ Len(z) = n - 1
          /\ \A i \in 1 .. n - 1 : z[i] = WithNewline(Tail(R)[i])
      <4> DEFINE k == n - 1
                 q == Tail(R)
      <4>1. k \in Nat /\ q \in Seq(LineText(C)) /\ k = Len(q)
        BY <1>2, <2>4
      <4> HIDE DEF k, q
      <4>2. /\ N(k, q) \in Seq(V) /\ Len(N(k, q)) = k
            /\ \A i \in 1 .. k : N(k, q)[i] = WithNewline(q[i])
        BY <2>2, <4>1
      <4> QED
        BY <4>2 DEF k, q
    <3> HIDE DEF y, z
    <3>4. /\ Head(y) = y[1] /\ Tail(y) \in Seq(V)
          /\ Len(Tail(y)) = n - 1 /\ \A i \in 1 .. n - 1 : Tail(y)[i] = y[i + 1]
      BY <1>2, <2>4, <3>1, HeadTailProperties
    <3>5. ASSUME NEW i \in 1 .. n - 1 PROVE Tail(y)[i] = z[i]
      <4>1. i + 1 \in 1 .. n /\ Tail(R)[i] = R[i + 1]
        BY <1>2, <2>4
      <4> QED
        BY <3>1, <3>2, <3>4, <4>1
    <3>7. Tail(y) = z
      BY <3>2, <3>4, <3>5, SeqEqual
    <3>8. 1 \in 1 .. n
      BY <1>2, <2>4
    <3> QED
      BY <1>2, <2>4, <3>1, <3>4, <3>7, <3>8 DEF y, z
  <2> QED
    BY <1>2, <1>3, <2>1, <2>3, <2>4, NewlineTrimmed
<1> QED
  BY <1>4, <1>5

\* The tables of a member that begins.
LEMMA MemberBegins ==
  ASSUME NEW C, NEW acc \in AccRec(C), NEW m
  PROVE  LET a == BeginMember(acc) IN
         a \in AccRec(C) /\ Fits(a) /\ Accumulated(a, m, <<>>)
<1> DEFINE a == BeginMember(acc)
<1>1. a = [acc EXCEPT !.lt = <<>>, !.src = <<>>, !.numbered = {}]
  BY DEF BeginMember
<1> HIDE DEF a
<1>2. <<>> \in Seq(TableEntry) /\ <<>> \in Seq(C) /\ {} \in SUBSET BOOLEAN
  OBVIOUS
<1>3. a \in AccRec(C) /\ a.lt = <<>> /\ a.src = <<>> /\ a.numbered = {}
  BY <1>1, <1>2 DEF AccRec
<1>4. Len(<<>>) = 0
  OBVIOUS
<1>5. a.ltcap \in Nat /\ a.srccap \in Nat
  BY <1>3 DEF AccRec
<1>6. Fits(a)
  BY <1>3, <1>4, <1>5 DEF Fits
<1>7. Accumulated(a, m, <<>>)
  BY <1>3, <1>4 DEF Accumulated
<1> QED
  BY <1>3, <1>6, <1>7 DEF a

LEMMA NewTables ==
  ASSUME NEW C
  PROVE  NewAcc \in AccRec(C) /\ Fits(NewAcc)
<1>1. <<>> \in Seq(TableEntry) /\ <<>> \in Seq(C) /\ {} \in SUBSET BOOLEAN /\ Len(<<>>) = 0
  OBVIOUS
<1>2. NewAcc \in AccRec(C) /\ NewAcc.lt = <<>> /\ NewAcc.src = <<>>
  BY LoadAssumption, <1>1 DEF NewAcc, AccRec
<1>3. NewAcc.ltcap \in Nat /\ NewAcc.srccap \in Nat
  BY <1>2 DEF AccRec
<1> QED
  BY <1>1, <1>2, <1>3 DEF Fits

-----------------------------------------------------------------------------
(* The load of the innermost level, and what it has read.                  *)

Found(lib, l) == lib[SearchDDs[l.dd]]
NoneBefore(lib, l) == \A d \in 1 .. l.dd - 1 : ~HasMember(lib[SearchDDs[d]])
IsFound(lib, l) ==
    l.dd \in 1 .. Len(SearchDDs) /\ HasMember(Found(lib, l)) /\ NoneBefore(lib, l)

\* The first k blocks are read, D are their records that are in the tables.
Read(C, m, l, k, D) ==
    /\ k \in 0 .. Len(m.blocks) /\ \A b \in 1 .. k : WellFormed(m, m.blocks[b])
    /\ l.blocks = Rest(m, k)
    /\ D \in Seq(LineText(C)) /\ Accumulated(l.acc, m, D)

TablesOK(C, l) == {"acc", "dd"} \subseteq DOMAIN l /\ l.acc \in AccRec(C) /\ Fits(l.acc)

SearchOK(C, lib, l) ==
    TablesOK(C, l) /\ l.dd \in 1 .. Len(SearchDDs) + 1 /\ NoneBefore(lib, l)

ReadOK(C, lib, l) ==
    /\ TablesOK(C, l) /\ IsFound(lib, l) /\ "blocks" \in DOMAIN l
    /\ LET m == Found(lib, l) IN
       \/ \E k, D : Read(C, m, l, k, D) /\ D = Joined(m, k)
       \/ l.reader = "stdio" /\ ~Intact(m) /\ l.blocks = <<>>

\* R are the records of the last block that are not in the tables.
LineOK(C, lib, l) ==
    /\ TablesOK(C, l) /\ IsFound(lib, l) /\ {"blocks", "records"} \subseteq DOMAIN l
    /\ LET m == Found(lib, l) IN
       \E k, D, R : /\ Read(C, m, l, k, D) /\ R \in Seq(LineText(C))
                    /\ D \o R = Joined(m, k) /\ l.records = Handed(l.reader, R)

LoadedOK(lib, l) ==
    l.loadrc = "OK" =>
       /\ LET m == lib[SearchDDs[l.instblk.dd]] IN
          IF Intact(m) THEN Statements(l.instblk) = Promised(m) ELSE l.reader = "stdio"
       /\ \A d \in 1 .. l.instblk.dd - 1 : ~HasMember(lib[SearchDDs[d]])

LoadOK(C, lib, l) ==
    /\ l.reader \in {"stdio", "bpam"}
    /\ l.step = "search" => SearchOK(C, lib, l)
    /\ l.step = "read" => ReadOK(C, lib, l)
    /\ l.step = "line" => LineOK(C, lib, l)
    /\ l.step = "loaded" => LoadedOK(lib, l)

LoadInv(C) ==
    library \in Libraries
    /\ (levels # <<>> /\ Top.step \in LoadSteps => LoadOK(C, library, Top))

\* The innermost level after a step that sets fields of it.
LEMMA NextTop ==
  ASSUME RunInv, levels # <<>>, NEW f, Update(f)
  PROVE  levels' # <<>> /\ Top' = Overlay(f, Top)
<1>1. levels' # <<>> /\ levels'[Depth] = Overlay(f, Top) /\ Depth' = Depth
  BY UpdateLevels
<1> QED
  BY <1>1 DEF Top

\* The load goes on, has ended without an exec, or is behind.
LEMMA LoadStays ==
  ASSUME NEW C, RunInv, LoadInv(C), levels # <<>>, NEW f, Update(f), UNCHANGED library,
         LoadOK(C, library, Overlay(f, Top))
  PROVE  LoadInv(C)'
  BY NextTop DEF LoadInv

LEMMA LoadBehind ==
  ASSUME NEW C, RunInv, LoadInv(C), levels # <<>>, NEW f, Update(f), UNCHANGED library,
         "step" \in DOMAIN f, f.step \notin LoadSteps
  PROVE  LoadInv(C)'
<1>1. Overlay(f, Top).step = f.step
  BY DEF Overlay
<1> QED
  BY <1>1, NextTop DEF LoadInv

LEMMA SameReader ==
  ASSUME NEW C, RunInv, LoadInv(C), levels # <<>>, Top.step \in LoadSteps, NEW f,
         "reader" \notin DOMAIN f
  PROVE  /\ Overlay(f, Top).reader = Top.reader
         /\ Overlay(f, Top).reader \in {"stdio", "bpam"}
<1>1. Overlay(f, Top).reader = Top.reader
  BY KeptFields DEF Fields
<1> QED
  BY <1>1 DEF LoadInv, LoadOK

LEMMA LoadFailed ==
  ASSUME NEW C, RunInv, LoadInv(C), levels # <<>>, Top.step \in LoadSteps,
         NEW rc, rc # "OK", Update(Unloaded(rc)), UNCHANGED library
  PROVE  LoadInv(C)'
<1> DEFINE f == [step |-> "loaded", loadrc |-> rc]
           l == Overlay(f, Top)
<1>1. DOMAIN f = {"step", "loadrc"} /\ f.step = "loaded" /\ f.loadrc = rc /\ Update(f)
  BY DEF Unloaded
<1> HIDE DEF f
<1>2. l.step = "loaded" /\ l.loadrc = rc
  BY <1>1 DEF Overlay
<1>3. l.reader \in {"stdio", "bpam"}
  BY <1>1, SameReader
<1>4. LoadOK(C, library, l)
  BY <1>2, <1>3 DEF LoadOK, LoadedOK
<1> QED
  BY <1>1, <1>4, LoadStays

\* A step of a search, of a read.
LEMMA Searches ==
  ASSUME NEW C, RunInv, LoadInv(C), levels # <<>>, Top.step \in LoadSteps,
         NEW f, Update(f), UNCHANGED library, "reader" \notin DOMAIN f,
         Overlay(f, Top).step = "search", SearchOK(C, library, Overlay(f, Top))
  PROVE  LoadInv(C)'
<1>1. Overlay(f, Top).reader \in {"stdio", "bpam"}
  BY SameReader
<1>2. LoadOK(C, library, Overlay(f, Top))
  BY <1>1 DEF LoadOK
<1> QED
  BY <1>2, LoadStays

LEMMA Reads ==
  ASSUME NEW C, RunInv, LoadInv(C), levels # <<>>, Top.step \in LoadSteps,
         NEW f, Update(f), UNCHANGED library, "reader" \notin DOMAIN f,
         \/ Overlay(f, Top).step = "read" /\ ReadOK(C, library, Overlay(f, Top))
         \/ Overlay(f, Top).step = "line" /\ LineOK(C, library, Overlay(f, Top))
  PROVE  LoadInv(C)'
<1>1. Overlay(f, Top).reader \in {"stdio", "bpam"}
  BY SameReader
<1>2. LoadOK(C, library, Overlay(f, Top))
  BY <1>1 DEF LoadOK
<1> QED
  BY <1>2, LoadStays

LEMMA LoadBeginPromise ==
  ASSUME NEW C, RunInv, LoadInv(C), LoadBegin
  PROVE  LoadInv(C)'
<1>1. levels # <<>> /\ Top.step \in LoadSteps /\ UNCHANGED library
  BY AtStep DEF LoadBegin, LoadSteps
<1>2. ASSUME Update([step |-> "search", acc |-> NewAcc, dd |-> 1]) PROVE LoadInv(C)'
  <2> DEFINE f == [step |-> "search", acc |-> NewAcc, dd |-> 1]
             l == Overlay(f, Top)
  <2>1. /\ DOMAIN f = {"step", "acc", "dd"} /\ Update(f)
        /\ f.step = "search" /\ f.acc = NewAcc /\ f.dd = 1
    BY <1>2
  <2> HIDE DEF f
  <2>2. l.step = "search" /\ l.acc = NewAcc /\ l.dd = 1 /\ {"acc", "dd"} \subseteq DOMAIN l
    BY <2>1 DEF Overlay
  <2> HIDE DEF l
  <2>3. TablesOK(C, l)
    BY <2>2, NewTables DEF TablesOK
  <2>4. 1 \in 1 .. Len(SearchDDs) + 1
    <3>1. Len(SearchDDs) \in Nat
      BY LoadAssumption
    <3> QED
      BY <3>1
  <2>5. NoneBefore(library, l)
    BY <2>2 DEF NoneBefore
  <2>6. SearchOK(C, library, l)
    BY <2>2, <2>3, <2>4, <2>5 DEF SearchOK
  <2> QED
    BY <1>1, <2>1, <2>2, <2>6, Searches DEF l
<1> QED
  BY <1>1, <1>2, LoadFailed DEF LoadBegin

LEMMA LoadNotFoundPromise ==
  ASSUME NEW C, RunInv, LoadInv(C), LoadNotFound
  PROVE  LoadInv(C)'
<1>1. levels # <<>> /\ Top.step \in LoadSteps /\ UNCHANGED library
  BY AtStep DEF LoadNotFound, LoadSteps
<1> QED
  BY <1>1, LoadFailed DEF LoadNotFound

\* A DD without the member is passed over.
LEMMA NextDDPromise ==
  ASSUME NEW C, RunInv, LoadInv(C), levels # <<>>, Top.step = "search", UNCHANGED library,
         Top.dd <= Len(SearchDDs), ~HasMember(Here), Update([dd |-> Top.dd + 1])
  PROVE  LoadInv(C)'
<1> DEFINE f == [dd |-> Top.dd + 1]
           l == Overlay(f, Top)
<1>1. DOMAIN f = {"dd"} /\ f.dd = Top.dd + 1 /\ Update(f)
  OBVIOUS
<1> HIDE DEF f
<1>2. Top.step \in LoadSteps
  BY DEF LoadSteps
<1>3. SearchOK(C, library, Top)
  BY <1>2 DEF LoadInv, LoadOK
<1>4. {"acc", "dd"} \subseteq DOMAIN Top
  BY <1>3 DEF SearchOK, TablesOK
<1>5. l.dd = Top.dd + 1 /\ l.acc = Top.acc /\ {"acc", "dd"} \subseteq DOMAIN l
  BY <1>1, <1>4 DEF Overlay
<1>6. l.step = "search"
  BY <1>1, KeptFields DEF Fields
<1> HIDE DEF l
<1>7. PICK n \in Nat, d \in Nat : n = Len(SearchDDs) /\ d = Top.dd /\ d \in 1 .. n
  BY <1>3, LoadAssumption DEF SearchOK
<1>8. l.dd \in 1 .. Len(SearchDDs) + 1
  BY <1>5, <1>7
<1>9. NoneBefore(library, l)
  <2>1. \A i \in 1 .. d - 1 : ~HasMember(library[SearchDDs[i]])
    BY <1>3, <1>7 DEF SearchOK, NoneBefore
  <2>2. ~HasMember(library[SearchDDs[d]])
    BY <1>7 DEF Here
  <2>3. l.dd - 1 = d
    BY <1>5, <1>7
  <2>4. ASSUME NEW i \in 1 .. d PROVE ~HasMember(library[SearchDDs[i]])
    <3>1. i = d \/ i \in 1 .. d - 1
      BY <1>7
    <3> QED
      BY <2>1, <2>2, <3>1
  <2> QED
    BY <2>3, <2>4 DEF NoneBefore
<1>10. SearchOK(C, library, l)
  BY <1>3, <1>5, <1>8, <1>9 DEF SearchOK, TablesOK
<1> QED
  BY <1>1, <1>2, <1>6, <1>10, Searches DEF l

\* The member is found in this DD: nothing of it is read.
LEMMA ReadingPromise ==
  ASSUME NEW C, RunInv, LoadInv(C), levels # <<>>, Top.step = "search", UNCHANGED library,
         MembersReadable(C), Top.dd <= Len(SearchDDs), HasMember(Here),
         Update(Reading(Here))
  PROVE  LoadInv(C)'
<1> DEFINE f == Reading(Here)
           l == Overlay(f, Top)
           m == Here
<1>1. /\ DOMAIN f = {"step", "acc", "blocks"} /\ f.step = "read" /\ f.blocks = m.blocks
      /\ f.acc = BeginMember(Top.acc)
  BY DEF Reading
<1> HIDE DEF f
<1>2. Top.step \in LoadSteps
  BY DEF LoadSteps
<1>3. SearchOK(C, library, Top) /\ library \in Libraries
  BY <1>2 DEF LoadInv, LoadOK
<1>4. {"acc", "dd"} \subseteq DOMAIN Top
  BY <1>3 DEF SearchOK, TablesOK
<1>5. /\ l.dd = Top.dd /\ l.acc = BeginMember(Top.acc) /\ l.blocks = m.blocks /\ l.step = "read"
      /\ {"acc", "dd", "blocks"} \subseteq DOMAIN l
  BY <1>1, <1>4 DEF Overlay
<1> HIDE DEF l, m
<1>6. Top.dd \in 1 .. Len(SearchDDs)
  <2>1. Len(SearchDDs) \in Nat
    BY LoadAssumption
  <2> QED
    BY <1>3, <2>1 DEF SearchOK
<1>7. m = Found(library, l) /\ HasMember(m)
  BY <1>5 DEF m, Here, Found
<1>8. Readable(m, C)
  BY <1>3, <1>6 DEF MembersReadable, m, Here
<1>9. IsFound(library, l)
  BY <1>3, <1>5, <1>6, <1>7 DEF IsFound, SearchOK, NoneBefore
<1>10. l.acc \in AccRec(C) /\ Fits(l.acc) /\ Accumulated(l.acc, m, <<>>)
  BY <1>3, <1>5, MemberBegins DEF SearchOK, TablesOK
<1>11. Read(C, m, l, 0, <<>>) /\ <<>> = Joined(m, 0)
  <2>1. PICK S : m.blocks \in Seq(S)
    BY <1>7, <1>8 DEF Readable
  <2>2. l.blocks = Rest(m, 0)
    BY <1>5, <2>1, RestSteps
  <2>3. 0 \in 0 .. Len(m.blocks) /\ <<>> \in Seq(LineText(C))
    BY <2>1
  <2>4. \A b \in 1 .. 0 : WellFormed(m, m.blocks[b])
    OBVIOUS
  <2> QED
    BY <1>10, <2>2, <2>3, <2>4, JoinedNone DEF Read
<1>12. ReadOK(C, library, l)
  BY <1>5, <1>7, <1>9, <1>10, <1>11 DEF ReadOK, TablesOK
<1> QED
  BY <1>1, <1>2, <1>5, <1>12, Reads DEF l, f

LEMMA LoadFopenPromise ==
  ASSUME NEW C, MembersReadable(C), RunInv, LoadInv(C), LoadFopen
  PROVE  LoadInv(C)'
<1>1. /\ levels # <<>> /\ Top.step = "search" /\ UNCHANGED library
      /\ Top.dd <= Len(SearchDDs)
  BY AtStep DEF LoadFopen
<1>2. CASE HasMember(Here)
  BY <1>1, <1>2, ReadingPromise DEF LoadFopen
<1>3. CASE ~HasMember(Here)
  BY <1>1, <1>3, NextDDPromise DEF LoadFopen
<1> QED
  BY <1>2, <1>3

LEMMA LoadOpenPromise ==
  ASSUME NEW C, MembersReadable(C), RunInv, LoadInv(C), LoadOpen
  PROVE  LoadInv(C)'
<1>1. /\ levels # <<>> /\ Top.step = "search" /\ UNCHANGED library
      /\ Top.dd <= Len(SearchDDs) /\ Top.step \in LoadSteps
  BY AtStep DEF LoadOpen, LoadSteps
<1>2. ASSUME HasMember(Here), Update(Reading(Here)) PROVE LoadInv(C)'
  BY <1>1, <1>2, ReadingPromise
<1>3. ASSUME Here \in {NoDD, NoMember}, Update([dd |-> Top.dd + 1]) PROVE LoadInv(C)'
  <2>1. ~HasMember(Here)
    BY <1>3 DEF HasMember, NoDD, NoMember
  <2> QED
    BY <1>1, <1>3, <2>1, NextDDPromise
<1>4. ASSUME NEW rc \in {"ERROR", "NOMEM"}, Update(Unloaded(rc)) PROVE LoadInv(C)'
  BY <1>1, <1>4, LoadFailed
<1> QED
  BY <1>2, <1>3, <1>4 DEF LoadOpen

\* A load that reads has found a member that can be read.
LEMMA ReadingIt ==
  ASSUME NEW C, MembersReadable(C), RunInv, LoadInv(C), levels # <<>>, Top.step \in {"read", "line"}
  PROVE  /\ Top.step \in LoadSteps /\ Here = Found(library, Top)
         /\ TablesOK(C, Top) /\ IsFound(library, Top) /\ Top.reader \in {"stdio", "bpam"}
         /\ HasMember(Here) /\ Readable(Here, C) /\ \E S : Here.blocks \in Seq(S)
<1>1. Top.step \in LoadSteps
  BY DEF LoadSteps
<1>2. LoadOK(C, library, Top) /\ library \in Libraries
  BY <1>1 DEF LoadInv
<1>3. TablesOK(C, Top) /\ IsFound(library, Top) /\ Top.reader \in {"stdio", "bpam"}
  BY <1>2 DEF LoadOK, ReadOK, LineOK
<1>4. Here = Found(library, Top)
  BY DEF Here, Found
<1>5. HasMember(Here) /\ Top.dd \in 1 .. Len(SearchDDs)
  BY <1>3, <1>4 DEF IsFound
<1>6. Readable(Here, C)
  BY <1>2, <1>4, <1>5 DEF MembersReadable, Found
<1>7. \E S : Here.blocks \in Seq(S)
  BY <1>5, <1>6 DEF Readable
<1> QED
  BY <1>1, <1>3, <1>4, <1>5, <1>6, <1>7

\* The next block, and what is read before it.
LEMMA BlockAhead ==
  ASSUME NEW C, MembersReadable(C), RunInv, LoadInv(C), levels # <<>>, Top.step = "read",
         Top.blocks # <<>>
  PROVE  \E k, D :
            /\ k \in Nat /\ Read(C, Here, Top, k, D) /\ D = Joined(Here, k)
            /\ k + 1 \in 1 .. Len(Here.blocks) /\ k + 1 \in DOMAIN Here.blocks
            /\ Head(Top.blocks) = Here.blocks[k + 1] /\ Tail(Top.blocks) = Rest(Here, k + 1)
            /\ WellFormed(Here, Head(Top.blocks)) =>
                  Deblock(Here, Head(Top.blocks)) \in Seq(LineText(C))
<1>1. /\ Top.step \in LoadSteps /\ Here = Found(library, Top) /\ HasMember(Here)
      /\ Readable(Here, C) /\ \E S : Here.blocks \in Seq(S)
  BY ReadingIt
<1>2. ReadOK(C, library, Top)
  BY <1>1 DEF LoadInv, LoadOK
<1>3. PICK k, D : Read(C, Here, Top, k, D) /\ D = Joined(Here, k)
  BY <1>1, <1>2 DEF ReadOK
<1>4. k \in 0 .. Len(Here.blocks) /\ Top.blocks = Rest(Here, k)
  BY <1>3 DEF Read
<1>5. /\ k + 1 \in 1 .. Len(Here.blocks) /\ Head(Rest(Here, k)) = Here.blocks[k + 1]
      /\ Tail(Rest(Here, k)) = Rest(Here, k + 1)
  BY <1>1, <1>4, RestSteps
<1>6. k \in Nat /\ k + 1 \in DOMAIN Here.blocks
  BY <1>1, <1>4, <1>5
<1>7. WellFormed(Here, Here.blocks[k + 1]) => Deblock(Here, Here.blocks[k + 1]) \in Seq(LineText(C))
  BY <1>1, <1>6 DEF Readable
<1> QED
  BY <1>3, <1>4, <1>5, <1>6, <1>7

LEMMA NextBlockPromise ==
  ASSUME NEW C, MembersReadable(C), RunInv, LoadInv(C), levels # <<>>, Top.step = "read",
         Top.blocks # <<>>, WellFormed(Here, Head(Top.blocks)), UNCHANGED library,
         NEW records, records = Handed(Top.reader, Deblock(Here, Head(Top.blocks))),
         NextBlock(records)
  PROVE  LoadInv(C)'
<1> DEFINE f == [step |-> "line", blocks |-> Tail(Top.blocks), records |-> records]
           l == Overlay(f, Top)
           m == Here
           R == Deblock(m, Head(Top.blocks))
<1>1. /\ DOMAIN f = {"step", "blocks", "records"} /\ Update(f)
      /\ f.step = "line" /\ f.blocks = Tail(Top.blocks) /\ f.records = records
  BY DEF NextBlock
<1> HIDE DEF f
<1>2. /\ Top.step \in LoadSteps /\ m = Found(library, Top)
      /\ TablesOK(C, Top) /\ IsFound(library, Top)
  BY ReadingIt
<1>3. {"acc", "dd"} \subseteq DOMAIN Top
  BY <1>2 DEF TablesOK
<1>4. /\ l.step = "line" /\ l.blocks = Tail(Top.blocks) /\ l.records = records
      /\ l.acc = Top.acc /\ l.dd = Top.dd
      /\ {"acc", "dd", "blocks", "records"} \subseteq DOMAIN l
  BY <1>1, <1>3 DEF Overlay
<1>5. l.reader = Top.reader
  BY <1>1, <1>2, SameReader
<1>6. PICK k, D :
         /\ k \in Nat /\ Read(C, m, Top, k, D) /\ D = Joined(m, k)
         /\ k + 1 \in 1 .. Len(m.blocks)
         /\ Head(Top.blocks) = m.blocks[k + 1] /\ Tail(Top.blocks) = Rest(m, k + 1)
         /\ R \in Seq(LineText(C))
  BY BlockAhead
<1>7. records = Handed(l.reader, R) /\ WellFormed(m, m.blocks[k + 1])
  BY <1>5, <1>6
<1>8. R = Deblock(m, m.blocks[k + 1])
  BY <1>6
<1> HIDE DEF l, m, R
<1>9. /\ D \in Seq(LineText(C)) /\ Accumulated(l.acc, m, D)
      /\ \A b \in 1 .. k : WellFormed(m, m.blocks[b])
  BY <1>4, <1>6 DEF Read
<1>10. D \o R = Joined(m, k + 1)
  BY <1>6, <1>8, <1>9, JoinedNext
<1>11. Read(C, m, l, k + 1, D)
  <2>1. ASSUME NEW b \in 1 .. k + 1 PROVE WellFormed(m, m.blocks[b])
    <3>1. b \in 1 .. k \/ b = k + 1
      BY <1>6
    <3> QED
      BY <1>7, <1>9, <3>1
  <2>2. k + 1 \in 0 .. Len(m.blocks)
    BY <1>6
  <2> QED
    BY <1>4, <1>6, <1>9, <2>1, <2>2 DEF Read
<1>12. m = Found(library, l) /\ IsFound(library, l) /\ TablesOK(C, l)
  BY <1>2, <1>4 DEF Found, IsFound, NoneBefore, TablesOK
<1>13. LineOK(C, library, l)
  BY <1>4, <1>6, <1>7, <1>10, <1>11, <1>12 DEF LineOK
<1> QED
  BY <1>1, <1>2, <1>4, <1>13, Reads DEF l

LEMMA LoadBlockPromise ==
  ASSUME NEW C, MembersReadable(C), RunInv, LoadInv(C), LoadBlock
  PROVE  LoadInv(C)'
<1>1. /\ levels # <<>> /\ Top.step = "read" /\ Top.blocks # <<>> /\ UNCHANGED library
      /\ Top.reader = "bpam" /\ Top.step \in LoadSteps
  BY AtStep DEF LoadBlock, LoadSteps
<1>2. CASE WellFormed(Here, Head(Top.blocks))
  <2> DEFINE R == Deblock(Here, Head(Top.blocks))
  <2>1. NextBlock(R) /\ R = Handed(Top.reader, R)
    BY <1>1, <1>2 DEF LoadBlock, Handed
  <2> QED
    BY <1>1, <1>2, <2>1, NextBlockPromise
<1>3. CASE ~WellFormed(Here, Head(Top.blocks))
  BY <1>1, <1>3, LoadFailed DEF LoadBlock
<1> QED
  BY <1>2, <1>3

LEMMA LoadFgetsPromise ==
  ASSUME NEW C, MembersReadable(C), RunInv, LoadInv(C), LoadFgets
  PROVE  LoadInv(C)'
<1>1. /\ levels # <<>> /\ Top.step = "read" /\ Top.blocks # <<>> /\ UNCHANGED library
      /\ Top.reader = "stdio"
  BY AtStep DEF LoadFgets
<1>2. PICK k, D :
         /\ k \in Nat /\ k + 1 \in DOMAIN Here.blocks /\ Head(Top.blocks) = Here.blocks[k + 1]
         /\ WellFormed(Here, Head(Top.blocks)) =>
               Deblock(Here, Head(Top.blocks)) \in Seq(LineText(C))
  BY <1>1, BlockAhead
<1>3. CASE WellFormed(Here, Head(Top.blocks))
  <2> DEFINE R == Deblock(Here, Head(Top.blocks))
  <2>1. NextBlock(Pieces(R)) /\ R \in Seq(LineText(C))
    BY <1>1, <1>2, <1>3 DEF LoadFgets
  <2>2. Pieces(R) = Handed(Top.reader, R)
    BY <1>1, <2>1, PiecesAre, LoadAssumption DEF Handed
  <2> QED
    BY <1>1, <1>3, <2>1, <2>2, NextBlockPromise
<1>4. CASE ~WellFormed(Here, Head(Top.blocks))
  <2> DEFINE f == [blocks |-> <<>>]
             l == Overlay(f, Top)
  <2>1. DOMAIN f = {"blocks"} /\ f.blocks = <<>> /\ Update(f)
    BY <1>1, <1>4 DEF LoadFgets
  <2> HIDE DEF f
  <2>2. /\ Top.step \in LoadSteps /\ Here = Found(library, Top)
        /\ TablesOK(C, Top) /\ IsFound(library, Top)
    BY <1>1, ReadingIt
  <2>3. {"acc", "dd"} \subseteq DOMAIN Top /\ "step" \in DOMAIN Top
    BY <1>1, <2>2, TopOK DEF TablesOK, Fields
  <2>4. /\ l.step = "read" /\ l.blocks = <<>> /\ l.acc = Top.acc /\ l.dd = Top.dd
        /\ {"acc", "dd", "blocks"} \subseteq DOMAIN l
    BY <1>1, <2>1, <2>3 DEF Overlay
  <2>5. l.reader = "stdio"
    BY <1>1, <2>1, <2>2, SameReader
  <2> HIDE DEF l
  <2>6. ~Intact(Here)
    BY <1>2, <1>4 DEF Intact
  <2>7. Here = Found(library, l) /\ IsFound(library, l) /\ TablesOK(C, l)
    BY <2>2, <2>4 DEF Found, IsFound, NoneBefore, TablesOK
  <2>8. ReadOK(C, library, l)
    BY <2>4, <2>5, <2>6, <2>7 DEF ReadOK
  <2> QED
    BY <1>1, <2>1, <2>2, <2>4, <2>8, Reads DEF l
<1> QED
  BY <1>3, <1>4

LEMMA HeadMoves ==
  ASSUME NEW S, NEW D \in Seq(S), NEW R \in Seq(S), R # <<>>
  PROVE  Append(D, Head(R)) \o Tail(R) = D \o R /\ Append(D, Head(R)) \in Seq(S)
<1> DEFINE r == Head(R)
           T == Tail(R)
<1>1. r \in S /\ T \in Seq(S)
  BY HeadTailProperties
<1>2. R = <<r>> \o T
  <2>1. 1 \in 1 .. Len(R) /\ Len(R) \in 1 .. Len(R)
    BY EmptySeq
  <2>2. SubSeq(R, 1, Len(R)) = <<R[1]>> \o SubSeq(R, 1 + 1, Len(R))
    BY <2>1, SubSeqRecursiveFirst
  <2>3. SubSeq(R, 1, Len(R)) = R /\ r = R[1]
    BY SubSeqFull, HeadTailProperties
  <2>4. T = SubSeq(R, 1 + 1, Len(R))
    <3>1. Tail(SubSeq(R, 1, Len(R))) = SubSeq(R, 1 + 1, Len(R))
      BY <2>1, HeadTailOfSubSeq
    <3> QED
      BY <2>3, <3>1
  <2> QED
    BY <2>2, <2>3, <2>4
<1>3. Append(D, r) = D \o <<r>> /\ Append(D, r) \in Seq(S)
  BY <1>1, AppendIsConcat, AppendProperties
<1>4. <<r>> \in Seq(S)
  BY <1>1
<1> HIDE DEF r, T
<1>5. (D \o <<r>>) \o T = D \o (<<r>> \o T)
  BY <1>1, <1>4, ConcatAssociative
<1> QED
  BY <1>2, <1>3, <1>5 DEF r, T

\* The last record of a block is in the tables: the load goes on with the next.
LEMMA BlockDone ==
  ASSUME NEW C, MembersReadable(C), RunInv, LoadInv(C), levels # <<>>, Top.step = "line",
         UNCHANGED library, Top.records = <<>>, GoTo("read")
  PROVE  LoadInv(C)'
<1> DEFINE f == [step |-> "read"]
           l == Overlay(f, Top)
           m == Here
<1>1. DOMAIN f = {"step"} /\ f.step = "read" /\ Update(f)
  BY DEF GoTo
<1> HIDE DEF f
<1>2. /\ Top.step \in LoadSteps /\ m = Found(library, Top)
      /\ TablesOK(C, Top) /\ IsFound(library, Top)
  BY ReadingIt
<1>3. LineOK(C, library, Top)
  BY <1>2 DEF LoadInv, LoadOK
<1>4. {"acc", "dd", "blocks"} \subseteq DOMAIN Top
  BY <1>3 DEF LineOK, TablesOK
<1>5. /\ l.step = "read" /\ l.blocks = Top.blocks /\ l.acc = Top.acc /\ l.dd = Top.dd
      /\ {"acc", "dd", "blocks"} \subseteq DOMAIN l
  BY <1>1, <1>4 DEF Overlay
<1> HIDE DEF l, m
<1>6. PICK k, D, R : /\ Read(C, m, Top, k, D) /\ R \in Seq(LineText(C))
                     /\ D \o R = Joined(m, k) /\ Top.records = Handed(Top.reader, R)
  BY <1>2, <1>3 DEF LineOK
<1>7. R = <<>>
  BY <1>6, HandedSteps
<1>8. D = Joined(m, k)
  <2>1. D \in Seq(LineText(C))
    BY <1>6 DEF Read
  <2>2. D \o <<>> = D
    BY <2>1, ConcatEmptySeq
  <2> QED
    BY <1>6, <1>7, <2>2
<1>9. Read(C, m, l, k, D)
  BY <1>5, <1>6 DEF Read
<1>10. m = Found(library, l) /\ IsFound(library, l) /\ TablesOK(C, l)
  BY <1>2, <1>5 DEF Found, IsFound, NoneBefore, TablesOK
<1>11. ReadOK(C, library, l)
  BY <1>5, <1>8, <1>9, <1>10 DEF ReadOK
<1> QED
  BY <1>1, <1>2, <1>5, <1>11, Reads DEF l

\* One more record of the block.
LEMMA LineAdded ==
  ASSUME NEW C, MembersReadable(C), RunInv, LoadInv(C), levels # <<>>,
         Top.step = "line", UNCHANGED library, Top.records # <<>>,
         NEW record, record = Head(Top.records),
         NEW numbered, numbered = Numbered(Here, Top.acc, TrimEnd(record, {Newline})),
         NEW acc, acc = AddLine(Top.acc, numbered, LineOf(Here, numbered, record)),
         Update([acc |-> acc, records |-> Tail(Top.records)])
  PROVE  LoadInv(C)'
<1> DEFINE f == [acc |-> acc, records |-> Tail(Top.records)]
           l == Overlay(f, Top)
           m == Here
<1>1. /\ DOMAIN f = {"acc", "records"} /\ f.acc = acc /\ f.records = Tail(Top.records)
      /\ Update(f)
  OBVIOUS
<1> HIDE DEF f
<1>2. /\ Top.step \in LoadSteps /\ m = Found(library, Top) /\ HasMember(m) /\ Readable(m, C)
      /\ TablesOK(C, Top) /\ IsFound(library, Top)
  BY ReadingIt
<1>3. LineOK(C, library, Top)
  BY <1>2 DEF LoadInv, LoadOK
<1>4. {"acc", "dd", "blocks", "records"} \subseteq DOMAIN Top /\ "step" \in DOMAIN Top
  BY <1>3, TopOK DEF LineOK, TablesOK, Fields
<1>5. /\ l.step = "line" /\ l.blocks = Top.blocks /\ l.acc = acc /\ l.dd = Top.dd
      /\ l.records = Tail(Top.records)
      /\ {"acc", "dd", "blocks", "records"} \subseteq DOMAIN l
  BY <1>1, <1>4 DEF Overlay
<1>6. l.reader = Top.reader
  BY <1>1, <1>2, SameReader
<1>7. PICK k, D, R : /\ Read(C, m, Top, k, D) /\ R \in Seq(LineText(C))
                     /\ D \o R = Joined(m, k) /\ Top.records = Handed(Top.reader, R)
  BY <1>2, <1>3 DEF LineOK
<1>8. /\ R # <<>> /\ Head(R) \in LineText(C) /\ Tail(R) \in Seq(LineText(C))
      /\ TrimEnd(record, {Newline}) = Head(R)
      /\ Tail(Top.records) = Handed(Top.reader, Tail(R))
  <2> DEFINE q == Top.reader
             h == Handed(q, R)
  <2>1. R \in Seq(LineText(C)) /\ Top.records = h
    BY <1>7
  <2>2. /\ h = <<>> <=> R = <<>>
        /\ R # <<>> =>
              /\ Head(R) \in LineText(C) /\ Tail(R) \in Seq(LineText(C))
              /\ TrimEnd(Head(h), {Newline}) = Head(R)
              /\ Tail(h) = Handed(q, Tail(R))
    BY <2>1, HandedSteps
  <2> HIDE DEF q, h
  <2>3. R # <<>>
    BY <2>1, <2>2
  <2>4. record = Head(h) /\ Tail(Top.records) = Tail(h)
    BY <2>1
  <2>5. TrimEnd(record, {Newline}) = TrimEnd(Head(h), {Newline})
    BY <2>4
  <2>6. TrimEnd(record, {Newline}) = Head(R)
    BY <2>2, <2>3, <2>5
  <2> QED
    BY <2>2, <2>3, <2>4, <2>6 DEF q
<1>9. D \in Seq(LineText(C)) /\ Accumulated(Top.acc, m, D)
  BY <1>7 DEF Read
<1>10. acc \in AccRec(C) /\ Fits(acc) /\ Accumulated(acc, m, Append(D, Head(R)))
  <2> DEFINE r == Head(R)
  <2>1. r \in LineText(C) /\ TrimEnd(record, {Newline}) = r
    BY <1>8
  <2>2. /\ Top.acc \in AccRec(C) /\ Fits(Top.acc)
    BY <1>2 DEF TablesOK
  <2>3. numbered = Numbered(m, Top.acc, r) /\ acc = AddLine(Top.acc, numbered, LineOf(m, numbered, record))
    BY <2>1
  <2> HIDE DEF r, m
  <2> QED
    BY <1>2, <1>9, <2>1, <2>2, <2>3, RecordAdded DEF r
<1> HIDE DEF l, m
<1>11. Append(D, Head(R)) \o Tail(R) = Joined(m, k) /\ Append(D, Head(R)) \in Seq(LineText(C))
  BY <1>7, <1>8, <1>9, HeadMoves
<1>12. Read(C, m, l, k, Append(D, Head(R)))
  BY <1>5, <1>7, <1>10, <1>11 DEF Read
<1>13. m = Found(library, l) /\ IsFound(library, l) /\ TablesOK(C, l)
  BY <1>2, <1>5, <1>10 DEF Found, IsFound, NoneBefore, TablesOK
<1>14. l.records = Handed(l.reader, Tail(R))
  BY <1>5, <1>6, <1>8
<1>15. LineOK(C, library, l)
  BY <1>5, <1>8, <1>11, <1>12, <1>13, <1>14 DEF LineOK
<1> QED
  BY <1>1, <1>2, <1>5, <1>15, Reads DEF l

LEMMA LoadLinePromise ==
  ASSUME NEW C, MembersReadable(C), RunInv, LoadInv(C), LoadLine
  PROVE  LoadInv(C)'
<1>1. /\ levels # <<>> /\ Top.step = "line" /\ UNCHANGED library /\ Top.step \in LoadSteps
  BY AtStep DEF LoadLine, LoadSteps
<1>2. CASE Top.records = <<>>
  BY <1>1, <1>2, BlockDone DEF LoadLine
<1>3. CASE Top.records # <<>>
  <2> DEFINE record == Head(Top.records)
             numbered == Numbered(Here, Top.acc, TrimEnd(record, {Newline}))
             acc == AddLine(Top.acc, numbered, LineOf(Here, numbered, record))
  <2>1. \/ Update([acc |-> acc, records |-> Tail(Top.records)])
        \/ Update(Unloaded("NOMEM"))
    BY <1>3 DEF LoadLine
  <2>2. ASSUME Update([acc |-> acc, records |-> Tail(Top.records)]) PROVE LoadInv(C)'
    BY <1>1, <1>3, <2>2, LineAdded
  <2>3. ASSUME Update(Unloaded("NOMEM")) PROVE LoadInv(C)'
    BY <1>1, <2>3, LoadFailed
  <2> HIDE DEF acc
  <2> QED
    BY <2>1, <2>2, <2>3
<1> QED
  BY <1>2, <1>3

\* The lines of an INSTBLK are those of the tables it is built from.
LEMMA BuiltOfTables ==
  ASSUME NEW C, NEW acc \in AccRec(C), NEW m, NEW D \in Seq(LineText(C)),
         Accumulated(acc, m, D), D = RecordsOf(m), NEW b, b.lt = acc.lt, b.src = acc.src
  PROVE  Statements(b) = Promised(m)
<1>1. Statements(b) = Statements(acc)
  BY DEF Statements
<1>2. PICK n \in Nat : n = Len(D) /\ DOMAIN D = 1 .. n
  OBVIOUS
<1>3. DOMAIN acc.lt = 1 .. n
  <2>1. acc.lt \in Seq(TableEntry) /\ Len(acc.lt) = n
    BY <1>2 DEF AccRec, Accumulated
  <2> QED
    BY <2>1
<1>4. Statements(acc) = [i \in 1 .. n |-> Statements(acc)[i]]
  BY <1>3 DEF Statements
<1>5. Promised(m) = [i \in 1 .. n |-> LinesOf(m, D)[i]]
  <2>1. Promised(m) = [i \in 1 .. n |-> WithoutBlanks(Bare(m, IsNumbered(m, D), D[i]))]
    BY <1>2 DEF Promised, Bare, IsNumbered
  <2>2. \A i \in 1 .. n : LinesOf(m, D)[i] = WithoutBlanks(Bare(m, IsNumbered(m, D), D[i]))
    BY <1>2 DEF LinesOf
  <2> QED
    BY <2>1, <2>2
<1>6. \A i \in 1 .. n : Statements(acc)[i] = LinesOf(m, D)[i]
  BY <1>2 DEF Accumulated
<1> QED
  BY <1>1, <1>4, <1>5, <1>6

LEMMA LoadBuildPromise ==
  ASSUME NEW C, MembersReadable(C), RunInv, LoadInv(C), LoadBuild
  PROVE  LoadInv(C)'
<1>1. /\ levels # <<>> /\ Top.step = "read" /\ Top.blocks = <<>> /\ UNCHANGED library
      /\ Top.step \in LoadSteps
  BY AtStep DEF LoadBuild, LoadSteps
<1> DEFINE b == [dd |-> Top.dd, lt |-> Top.acc.lt, src |-> Top.acc.src]
           f == [step |-> "loaded", loadrc |-> "OK", instblk |-> b]
           l == Overlay(f, Top)
           m == Here
<1>2. ASSUME Update(f) PROVE LoadInv(C)'
  <2>1. b.dd = Top.dd /\ b.lt = Top.acc.lt /\ b.src = Top.acc.src
    OBVIOUS
  <2> HIDE DEF b
  <2>2. DOMAIN f = {"step", "loadrc", "instblk"} /\ f.step = "loaded" /\ f.instblk = b
    OBVIOUS
  <2> HIDE DEF f
  <2>3. l.step = "loaded" /\ l.instblk = b
    BY <2>2 DEF Overlay
  <2>4. l.reader = Top.reader /\ l.reader \in {"stdio", "bpam"}
    BY <1>1, <2>2, SameReader
  <2> HIDE DEF l
  <2>5. /\ m = Found(library, Top) /\ TablesOK(C, Top) /\ IsFound(library, Top)
        /\ \E S : m.blocks \in Seq(S)
    BY <1>1, ReadingIt
  <2>6. ReadOK(C, library, Top)
    BY <1>1 DEF LoadInv, LoadOK
  <2> HIDE DEF m
  <2>7. Intact(m) => Statements(b) = Promised(m)
    <3> SUFFICES ASSUME Intact(m) PROVE Statements(b) = Promised(m)
      OBVIOUS
    <3>1. PICK k, D : Read(C, m, Top, k, D) /\ D = Joined(m, k)
      BY <2>5, <2>6 DEF ReadOK
    <3>2. k = Len(m.blocks)
      BY <1>1, <2>5, <3>1, RestSteps DEF Read
    <3>3. D = RecordsOf(m)
      BY <2>5, <3>1, <3>2, JoinedAll
    <3>4. Top.acc \in AccRec(C) /\ D \in Seq(LineText(C)) /\ Accumulated(Top.acc, m, D)
      BY <2>5, <3>1 DEF Read, TablesOK
    <3> QED
      BY <2>1, <3>3, <3>4, BuiltOfTables
  <2>8. ~Intact(m) => l.reader = "stdio"
    <3> SUFFICES ASSUME ~Intact(m), Top.reader # "stdio" PROVE FALSE
      BY <2>4
    <3>1. PICK k, D : Read(C, m, Top, k, D)
      BY <2>5, <2>6 DEF ReadOK
    <3>2. k = Len(m.blocks) /\ \A i \in 1 .. k : WellFormed(m, m.blocks[i])
      BY <1>1, <2>5, <3>1, RestSteps DEF Read
    <3>3. DOMAIN m.blocks = 1 .. Len(m.blocks)
      BY <2>5
    <3> QED
      BY <3>2, <3>3 DEF Intact
  <2>9. m = library[SearchDDs[l.instblk.dd]]
    BY <2>1, <2>3, <2>5 DEF Found
  <2>10. \A d \in 1 .. l.instblk.dd - 1 : ~HasMember(library[SearchDDs[d]])
    BY <2>1, <2>3, <2>5 DEF IsFound, NoneBefore
  <2>11. LoadedOK(library, l)
    BY <2>3, <2>7, <2>8, <2>9, <2>10 DEF LoadedOK
  <2>12. LoadOK(C, library, l)
    BY <2>3, <2>4, <2>11 DEF LoadOK
  <2> QED
    BY <1>1, <1>2, <2>12, LoadStays DEF l
<1>3. ASSUME Update(Unloaded("NOMEM")) PROVE LoadInv(C)'
  BY <1>1, <1>3, LoadFailed
<1> HIDE DEF f
<1> QED
  BY <1>2, <1>3 DEF LoadBuild, f

LEMMA LoadPromise ==
  ASSUME NEW C, MembersReadable(C), RunInv, LoadInv(C), LoadNext
  PROVE  LoadInv(C)'
<1>1. CASE LoadBegin
  BY <1>1, LoadBeginPromise
<1>2. CASE LoadNotFound
  BY <1>2, LoadNotFoundPromise
<1>3. CASE LoadFopen
  BY <1>3, LoadFopenPromise
<1>4. CASE LoadOpen
  BY <1>4, LoadOpenPromise
<1>5. CASE LoadBlock
  BY <1>5, LoadBlockPromise
<1>6. CASE LoadFgets
  BY <1>6, LoadFgetsPromise
<1>7. CASE LoadLine
  BY <1>7, LoadLinePromise
<1>8. CASE LoadBuild
  BY <1>8, LoadBuildPromise
<1> QED
  BY <1>1, <1>2, <1>3, <1>4, <1>5, <1>6, <1>7, <1>8 DEF LoadNext

-----------------------------------------------------------------------------
(* Runs and jobs: no level that loads changes.                             *)

\* The step field of what a run sets, when it is none of a load.
SetsStep == \E f : Update(f) /\ "step" \in DOMAIN f /\ f.step \notin LoadSteps

LEMMA GoToSets ==
  ASSUME NEW step, GoTo(step), step \notin LoadSteps
  PROVE  SetsStep
<1> DEFINE f == [step |-> step]
<1>1. Update(f) /\ "step" \in DOMAIN f /\ f.step = step
  BY DEF GoTo
<1> QED
  BY <1>1 DEF SetsStep

LEMMA ExecutedSetsStep ==
  ASSUME NEW engine, NEW traps, NEW w, Executed(engine, traps, w)
  PROVE  SetsStep
<1>1. PICK n, told : Update(Result(engine, n, told))
  BY DEF Executed, EngineFails
<1>2. /\ "step" \in DOMAIN Result(engine, n, told)
      /\ Result(engine, n, told).step = "cleanup"
  BY DEF Result, AfterBytecode
<1> QED
  BY <1>1, <1>2 DEF SetsStep, LoadSteps

LEMMA RunSetsStep ==
  ASSUME RunNext, ~CallNested, ~NestedGoesOn, ~Trap
  PROVE  levels # <<>> /\ UNCHANGED library /\ SetsStep
<1>1. ASSUME NEW f, Update(f), "step" \in DOMAIN f,
             f.step \in {"source", "returned", "init", "cleanup", "compile", "tokenize"}
      PROVE  SetsStep
  BY <1>1 DEF SetsStep, LoadSteps
<1>2. ASSUME NEW step \in {"bytecode", "tokenize", "vpool", "parser", "args", "labels", "walk", "ran"},
             GoTo(step)
      PROVE  SetsStep
  BY <1>2, GoToSets DEF LoadSteps
<1>3. CASE DispatchChecks
  <2>1. SetsStep
    <3>1. CASE Verdict(Top.call) = 0
      BY <1>1, <1>3, <3>1 DEF DispatchChecks
    <3>2. CASE Verdict(Top.call) # 0
      BY <1>1, <1>3, <3>2 DEF DispatchChecks, Returned
    <3> QED
      BY <3>1, <3>2
  <2> QED
    BY <1>3, <2>1 DEF DispatchChecks, At, Same
<1>4. CASE DispatchSource
  <2>1. SetsStep
    BY <1>1, <1>4 DEF DispatchSource
  <2> QED
    BY <1>4, <2>1 DEF DispatchSource, At, Same
<1>5. CASE DispatchReturn
  <2>1. SetsStep
    BY <1>1, <1>5 DEF DispatchReturn, Returned
  <2> QED
    BY <1>5, <2>1 DEF DispatchReturn, At, Same
<1>6. CASE RunInit
  <2>1. SetsStep
    BY <1>1, <1>6 DEF RunInit
  <2> QED
    BY <1>6, <2>1 DEF RunInit, At, Same
<1>7. CASE Compile
  <2>1. \A n : Update(Failed(n)) => SetsStep
    BY <1>1 DEF Failed
  <2>2. SetsStep
    BY <1>2, <1>7, <2>1 DEF Compile
  <2> QED
    BY <1>7, <2>2 DEF Compile, At, Same
<1>8. CASE ExecuteBytecode
  <2>1. SetsStep
    BY <1>8, ExecutedSetsStep DEF ExecuteBytecode
  <2> QED
    BY <1>8, <2>1 DEF ExecuteBytecode, At, Same
<1>9. CASE Tokenize
  <2>1. \A n : Update(Failed(n)) => SetsStep
    BY <1>1 DEF Failed
  <2>2. SetsStep
    BY <1>2, <1>9, <2>1 DEF Tokenize
  <2> QED
    BY <1>9, <2>2 DEF Tokenize, At, Same
<1>10. CASE WalkStorage
  <2>1. Update(Silent) => SetsStep
    BY <1>1 DEF Silent
  <2>2. SetsStep
    BY <1>2, <1>10, <2>1 DEF WalkStorage
  <2> QED
    BY <1>10, <2>2 DEF WalkStorage, At, Same
<1>11. CASE ExecuteWalk
  <2>1. SetsStep
    BY <1>11, ExecutedSetsStep DEF ExecuteWalk
  <2> QED
    BY <1>11, <2>1 DEF ExecuteWalk, At, Same
<1>12. CASE Cleanup
  <2>1. SetsStep
    BY <1>2, <1>12 DEF Cleanup
  <2> QED
    BY <1>12, <2>1 DEF Cleanup, At, Same
<1> QED
  BY <1>3, <1>4, <1>5, <1>6, <1>7, <1>8, <1>9, <1>10, <1>11, <1>12 DEF RunNext

LEMMA NewLevelLoads ==
  ASSUME NEW C, NEW lib, NEW e, NEW reader \in {"stdio", "bpam"}, NEW c
  PROVE  LoadOK(C, lib, Level("load", e, reader, c))
<1> DEFINE l == Level("load", e, reader, c)
<1>1. l.step = "load" /\ l.reader = reader
  BY DEF Level
<1> HIDE DEF l
<1>2. LoadOK(C, lib, l)
  BY <1>1 DEF LoadOK
<1> QED
  BY <1>2 DEF l

LEMMA CallNestedPromise ==
  ASSUME NEW C, RunInv, LoadInv(C), CallNested
  PROVE  LoadInv(C)'
<1>1. PICK e, c : levels' = Append(levels, Level("load", e, "bpam", c))
  BY DEF CallNested
<1> DEFINE l == Level("load", e, "bpam", c)
<1>2. LoadOK(C, library, l)
  BY NewLevelLoads
<1>3. UNCHANGED library
  BY DEF CallNested
<1> HIDE DEF l
<1>4. PICK S : levels \in Seq(S)
  BY DepthNat
<1>5. levels' = Append(levels, l)
  BY <1>1 DEF l
<1>6. Top' = l
  BY <1>4, <1>5 DEF Top, Depth
<1> QED
  BY <1>2, <1>3, <1>6 DEF LoadInv

LEMMA NestedGoesOnPromise ==
  ASSUME NEW C, RunInv, LoadInv(C), NestedGoesOn
  PROVE  LoadInv(C)'
<1>1. levels # <<>> /\ UNCHANGED library /\ Depth > 1 /\ Depth \in Nat
  BY DepthNat DEF NestedGoesOn, At
<1>2. CASE GoTo("dispatch")
  <2>1. SetsStep
    BY <1>2, GoToSets DEF LoadSteps
  <2> QED
    BY <1>1, <2>1, LoadBehind DEF SetsStep
<1>3. CASE levels' = Front(levels)
  <2>1. Depth' = Depth - 1 /\ levels'[Depth - 1] = levels[Depth - 1]
    BY <1>1, <1>3, FrontLevels
  <2>2. Top' = levels[Depth - 1]
    BY <2>1 DEF Top
  <2>3. levels[Depth - 1].step \notin LoadSteps
    BY <1>1 DEF RunInv, ExecutingSteps, LoadSteps
  <2> QED
    BY <1>1, <2>2, <2>3 DEF LoadInv
<1> QED
  BY <1>2, <1>3 DEF NestedGoesOn

LEMMA LevelsKept ==
  ASSUME NEW C, LoadInv(C), UNCHANGED library, UNCHANGED levels \/ levels' = <<>>
  PROVE  LoadInv(C)'
  BY DEF LoadInv, Top, Depth

LEMMA RunPromise ==
  ASSUME NEW C, RunInv, LoadInv(C), RunNext
  PROVE  LoadInv(C)'
<1>1. CASE CallNested
  BY <1>1, CallNestedPromise
<1>2. CASE NestedGoesOn
  BY <1>2, NestedGoesOnPromise
<1>3. CASE Trap
  BY <1>3, LevelsKept DEF Trap, Same
<1>4. CASE ~CallNested /\ ~NestedGoesOn /\ ~Trap
  BY <1>4, RunSetsStep, LoadBehind DEF SetsStep
<1> QED
  BY <1>1, <1>2, <1>3, <1>4

LEMMA JclStartPromise ==
  ASSUME NEW C, LoadInv(C), JclStart
  PROVE  LoadInv(C)'
<1>1. UNCHANGED library
  BY DEF JclStart
<1>2. UNCHANGED levels
      \/ \E e : \E reader \in {"stdio", "bpam"} : levels' = <<Level("load", e, reader, OwnCall)>>
  BY DEF JclStart, Refused, Runs
<1>3. ASSUME NEW e, NEW reader \in {"stdio", "bpam"}, levels' = <<Level("load", e, reader, OwnCall)>>
      PROVE  LoadInv(C)'
  <2> DEFINE l == Level("load", e, reader, OwnCall)
  <2>1. LoadOK(C, library, l)
    BY NewLevelLoads
  <2>2. levels' = <<l>>
    BY <1>3
  <2> HIDE DEF l
  <2>3. Top' = l
    BY <2>2 DEF Top, Depth
  <2> QED
    BY <1>1, <2>1, <2>3 DEF LoadInv
<1> QED
  BY <1>1, <1>2, <1>3, LevelsKept

LEMMA JclLoadedPromise ==
  ASSUME NEW C, RunInv, LoadInv(C), JclLoaded
  PROVE  LoadInv(C)'
<1>1. levels # <<>> /\ UNCHANGED library
  BY DEF JclLoaded, Mainline, At
<1>2. CASE GoTo("dispatch")
  <2>1. SetsStep
    BY <1>2, GoToSets DEF LoadSteps
  <2> QED
    BY <1>1, <2>1, LoadBehind DEF SetsStep
<1>3. CASE levels' = <<>>
  BY <1>1, <1>3, LevelsKept
<1> QED
  BY <1>2, <1>3 DEF JclLoaded

LEMMA NextPromise ==
  ASSUME NEW C, MembersReadable(C), RunInv, LoadInv(C), [Next]_vars
  PROVE  LoadInv(C)'
<1>1. CASE Logon \/ JclFree \/ JclEnd \/ UNCHANGED vars
  BY <1>1, LevelsKept DEF Logon, JclFree, JclEnd, vars, runvars, loadvars
<1>2. CASE JclStart
  BY <1>2, JclStartPromise
<1>3. CASE JclLoaded
  BY <1>3, JclLoadedPromise
<1>4. CASE LoadNext
  BY <1>4, LoadPromise
<1>5. CASE RunNext
  BY <1>5, RunPromise
<1> QED
  BY <1>1, <1>2, <1>3, <1>4, <1>5 DEF Next

LEMMA InvLoadedAsPromised ==
  ASSUME NEW C, RunInv, LoadInv(C)
  PROVE  LoadedAsPromised
<1> SUFFICES ASSUME NEW n \in DOMAIN levels, levels[n].step = "loaded", levels[n].loadrc = "OK"
             PROVE  LoadedOK(library, levels[n])
  BY DEF LoadedAsPromised, LoadedOK
<1>1. n \in 1 .. Depth /\ Depth \in Nat /\ levels # <<>>
  <2>1. PICK S : levels \in Seq(S)
    BY DepthNat
  <2> QED
    BY <2>1 DEF Depth
<1>2. CASE n = Depth
  <2>1. Top.step = "loaded" /\ Top.step \in LoadSteps
    BY <1>2 DEF Top, LoadSteps
  <2> QED
    BY <1>1, <1>2, <2>1 DEF LoadInv, LoadOK, Top
<1>3. CASE n # Depth
  <2>1. n \in 1 .. Depth - 1
    BY <1>1, <1>3
  <2> QED
    BY <2>1 DEF RunInv, ExecutingSteps
<1> QED
  BY <1>2, <1>3

\* Of every library whose members hold lines that fit the stdio reader's buffer:
\* what a load that succeeds hands back is the member of the first DD that has
\* it, each record one line without its sequence number and trailing blanks,
\* whichever reader is linked, however the records are blocked and however often
\* the tables have grown (irx#load.c, irx#ldqs.c, irx#ldbp.c).
THEOREM LoadIsAsPromised ==
  ASSUME NEW C, MembersReadable(C)
  PROVE  Spec => []LoadedAsPromised
<1>1. Init => LoadInv(C)
  BY DEF Init, LoadInv
<1>2. JclInv /\ LoadInv(C) /\ [Next]_vars => LoadInv(C)'
  BY NextPromise DEF JclInv
<1>3. JclInv /\ LoadInv(C) => LoadedAsPromised
  BY InvLoadedAsPromised DEF JclInv
<1> QED
  BY <1>1, <1>2, <1>3, JclInvariant, PTL DEF Spec

\* While a load runs its tables never hold more than the storage they have, and
\* no line leaves the text: also when a line is longer than twice the storage
\* there was (irx_ld_add_line in irx#load.c).
THEOREM TablesNeverOverrun ==
  ASSUME NEW C, MembersReadable(C)
  PROVE  Spec => []TablesFit
<1>1. Init => LoadInv(C)
  BY DEF Init, LoadInv
<1>2. JclInv /\ LoadInv(C) /\ [Next]_vars => LoadInv(C)'
  BY NextPromise DEF JclInv
<1>3. LoadInv(C) => TablesFit
  BY DEF LoadInv, LoadOK, SearchOK, ReadOK, LineOK, TablesOK, TablesFit, LoadSteps
<1> QED
  BY <1>1, <1>2, <1>3, JclInvariant, PTL DEF Spec
=============================================================================
