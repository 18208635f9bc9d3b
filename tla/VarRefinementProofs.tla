------------------------ MODULE VarRefinementProofs ------------------------
(***************************************************************************)
(* The pools implement VarService, for any names, any program and any      *)
(* depth of calls.                                                         *)
(***************************************************************************)
EXTENDS VarRefinement, VarPoolProofs

-----------------------------------------------------------------------------
(* Both sides name things alike.                                           *)

LEMMA SameNames ==
  /\ Promise!Stems = Stems /\ Promise!Names = Names
  /\ \A n : Promise!StemsOf(n) = StemsOf(n)
  /\ \A m : Promise!Under(m) = Under(m)
<1>1. Promise!Compounds = Compounds
  BY DEF Promise!Compounds, Compounds
<1>2. Promise!Stems = Stems
  BY <1>1 DEF Promise!Stems, Stems
<1>3. Promise!Names = Names
  BY <1>1, <1>2 DEF Promise!Names, Names
<1>4. \A n : Promise!StemsOf(n) = StemsOf(n)
  BY <1>1, <1>2 DEF Promise!StemsOf, StemsOf
<1>5. \A m : Promise!Under(m) = Under(m)
  BY <1>3, <1>4 DEF Promise!Under, Under
<1> QED
  BY <1>2, <1>3, <1>4, <1>5

\* The highest level of a kind is found by what lies above it.
LEMMA MaxIs ==
  ASSUME NEW k \in Nat, NEW T, T \subseteq 1 .. k, NEW x \in T, \A y \in T : y <= x
  PROVE  Max(T) = x /\ Promise!Max(T) = x
<1>1. \A y \in T : x >= y
  OBVIOUS
<1>2. \A z \in T : (\A y \in T : z >= y) => z = x
  OBVIOUS
<1>3. (CHOOSE z \in T : \A y \in T : z >= y) = x
  BY <1>1, <1>2
<1> QED
  BY <1>3 DEF Max, Promise!Max

-----------------------------------------------------------------------------
(* Scopes, and when two of them are equal.                                 *)

View == [stems : SUBSET Stems, shared : SUBSET Names, val : [Names -> Values \cup {Unset}]]

LEMMA ViewsOf ==
  ASSUME NEW n \in Nat, NEW q, DOMAIN q = 1 .. n, q = [j \in 1 .. n |-> q[j]],
         \A j \in 1 .. n : q[j] \in View
  PROVE  q \in Seq(View) /\ Len(q) = n
<1>1. q \in [1 .. n -> View]
  OBVIOUS
<1> QED
  BY <1>1

LEMMA SameView ==
  ASSUME NEW v \in View, NEW w \in View, v.stems = w.stems,
         \A n \in Names : n \in v.shared <=> n \in w.shared,
         \A n \in Names : v.val[n] = w.val[n]
  PROVE  v = w
<1>1. v.shared = w.shared /\ v.val = w.val
  BY DEF View
<1> QED
  BY <1>1 DEF View

LEMMA SameViews ==
  ASSUME NEW q \in Seq(View), NEW r \in Seq(View), Len(q) = Len(r),
         \A j \in 1 .. Len(q) : q[j].stems = r[j].stems,
         \A j \in 1 .. Len(q), n \in Names : n \in q[j].shared <=> n \in r[j].shared,
         \A j \in 1 .. Len(q), n \in Names : q[j].val[n] = r[j].val[n]
  PROVE  q = r
<1>1. ASSUME NEW j \in 1 .. Len(q) PROVE q[j] = r[j]
  <2>1. q[j] \in View /\ r[j] \in View
    OBVIOUS
  <2> QED
    BY <2>1, SameView
<1> QED
  BY <1>1

LEMMA SeenIs ==
  ASSUME NEW s \in Seq(Pool)
  PROVE  /\ SeenIn(s) \in Seq(View) /\ Len(SeenIn(s)) = Len(s)
         /\ \A j \in 1 .. Len(s) : SeenIn(s)[j].stems = s[j].exposed
         /\ \A j \in 1 .. Len(s), n \in Names :
               /\ n \in SeenIn(s)[j].shared <=> s[j].entry[n] = Ref
               /\ SeenIn(s)[j].val[n] = IF s[j].entry[n] \in Values
                                        THEN s[j].entry[n] ELSE Unset
<1> DEFINE q == SeenIn(s)
           h(j) == {n \in Names : s[j].entry[n] = Ref}
           w(j) == [n \in Names |-> IF s[j].entry[n] \in Values
                                    THEN s[j].entry[n] ELSE Unset]
<1>1. DOMAIN s = 1 .. Len(s) /\ Len(s) \in Nat
  OBVIOUS
<1>2. /\ DOMAIN q = 1 .. Len(s) /\ q = [j \in 1 .. Len(s) |-> q[j]]
      /\ \A j \in 1 .. Len(s) :
            q[j] = [stems |-> s[j].exposed, shared |-> h(j), val |-> w(j)]
  BY <1>1 DEF SeenIn
<1> HIDE DEF q
<1>3. ASSUME NEW j \in 1 .. Len(s)
      PROVE  /\ q[j] \in View /\ q[j].stems = s[j].exposed
             /\ q[j].shared = h(j) /\ q[j].val = w(j)
  <2>1. s[j].exposed \in SUBSET Stems
    BY PoolAt
  <2>2. h(j) \in SUBSET Names /\ w(j) \in [Names -> Values \cup {Unset}]
    OBVIOUS
  <2>3. q[j] = [stems |-> s[j].exposed, shared |-> h(j), val |-> w(j)]
    BY <1>2
  <2> HIDE DEF h, w
  <2> QED
    BY <2>1, <2>2, <2>3 DEF View
<1>4. q \in Seq(View) /\ Len(q) = Len(s)
  BY <1>1, <1>2, <1>3, ViewsOf
<1>5. ASSUME NEW j \in 1 .. Len(s), NEW n \in Names
      PROVE  /\ n \in q[j].shared <=> s[j].entry[n] = Ref
             /\ q[j].val[n] = IF s[j].entry[n] \in Values THEN s[j].entry[n] ELSE Unset
  BY <1>3
<1> QED
  BY <1>3, <1>4, <1>5 DEF q

-----------------------------------------------------------------------------
(* What the operators of VarService do.                                    *)

\* The scope that owns a name: it does not pass the name down, those above do.
LEMMA OwnerIs ==
  ASSUME NEW q, NEW k \in Nat, NEW n, NEW o \in 1 .. k, ~Promise!Passes(q, o, n),
         \A j \in o + 1 .. k : Promise!Passes(q, j, n)
  PROVE  Promise!Owner(q, k, n) = o
<1> DEFINE T == {j \in 1 .. k : ~Promise!Passes(q, j, n)}
<1>1. T \subseteq 1 .. k /\ o \in T
  OBVIOUS
<1>2. ASSUME NEW y \in T PROVE y <= o
  <2>1. y \in 1 .. k /\ y \notin o + 1 .. k
    OBVIOUS
  <2> QED
    BY <2>1
<1> HIDE DEF T
<1>3. Promise!Max(T) = o
  BY <1>1, <1>2, MaxIs
<1> QED
  BY <1>3 DEF Promise!Owner, T

LEMMA PromiseAssigned ==
  ASSUME NEW q \in Seq(View), NEW n \in Names, NEW v \in Values,
         NEW o \in 1 .. Len(q), Promise!Owner(q, Len(q), n) = o
  PROVE  LET r == Promise!Assigned(q, n, v)
         IN  /\ r \in Seq(View) /\ Len(r) = Len(q)
             /\ \A j \in 1 .. Len(q) : r[j].stems = q[j].stems /\ r[j].shared = q[j].shared
             /\ \A j \in 1 .. Len(q), m \in Names :
                   r[j].val[m] = IF j = o /\ m = n THEN v ELSE q[j].val[m]
<1> DEFINE r == Promise!Assigned(q, n, v)
           w == [q[o].val EXCEPT ![n] = v]
           p == [q[o] EXCEPT !.val = w]
<1>1. r = [q EXCEPT ![o] = p]
  BY DEF Promise!Assigned
<1>2. q[o] \in View
  OBVIOUS
<1>3. /\ w \in [Names -> Values \cup {Unset}]
      /\ \A m \in Names : w[m] = IF m = n THEN v ELSE q[o].val[m]
  BY <1>2 DEF View
<1> HIDE DEF w
<1>4. p \in View /\ p.stems = q[o].stems /\ p.shared = q[o].shared /\ p.val = w
  BY <1>2, <1>3 DEF View
<1> HIDE DEF p, r
<1>5. r \in Seq(View) /\ Len(r) = Len(q) /\ r[o] = p
      /\ \A j \in 1 .. Len(q) : j # o => r[j] = q[j]
  BY <1>1, <1>4
<1> QED
  BY <1>3, <1>4, <1>5 DEF r

LEMMA PromiseDropped ==
  ASSUME NEW q \in Seq(View), NEW k, NEW S
  PROVE  LET r == Promise!Dropped(q, k, S)
         IN  /\ r \in Seq(View) /\ Len(r) = Len(q)
             /\ \A j \in 1 .. Len(q) : r[j].stems = q[j].stems
             /\ \A j \in 1 .. Len(q), m \in Names :
                   /\ m \in r[j].shared <=>
                         m \in q[j].shared
                         /\ ~(m \in S /\ Promise!Owner(q, k, m) <= j /\ j <= k)
                   /\ r[j].val[m] = IF m \in S /\ Promise!Owner(q, k, m) = j
                                    THEN Unset ELSE q[j].val[m]
<1> DEFINE r == Promise!Dropped(q, k, S)
           w(j) == [m \in Names |-> IF m \in S /\ Promise!Owner(q, k, m) = j
                                    THEN Unset ELSE q[j].val[m]]
           h(j) == q[j].shared \ {m \in S : Promise!Owner(q, k, m) <= j /\ j <= k}
<1>1. DOMAIN q = 1 .. Len(q) /\ Len(q) \in Nat
  OBVIOUS
<1>2. /\ DOMAIN r = 1 .. Len(q) /\ r = [j \in 1 .. Len(q) |-> r[j]]
      /\ \A j \in 1 .. Len(q) : r[j] = [q[j] EXCEPT !.val = w(j), !.shared = h(j)]
  BY <1>1, SameNames DEF Promise!Dropped
<1> HIDE DEF r
<1>3. ASSUME NEW j \in 1 .. Len(q)
      PROVE  /\ r[j] \in View /\ r[j].stems = q[j].stems
             /\ r[j].shared = h(j) /\ r[j].val = w(j)
  <2>1. q[j] \in View
    OBVIOUS
  <2>2. w(j) \in [Names -> Values \cup {Unset}] /\ h(j) \in SUBSET Names
    BY <2>1 DEF View
  <2>3. r[j] = [q[j] EXCEPT !.val = w(j), !.shared = h(j)]
    BY <1>2
  <2> HIDE DEF w, h
  <2> QED
    BY <2>1, <2>2, <2>3 DEF View
<1>4. r \in Seq(View) /\ Len(r) = Len(q)
  BY <1>1, <1>2, <1>3, ViewsOf
<1>5. ASSUME NEW j \in 1 .. Len(q), NEW m \in Names
      PROVE  /\ m \in r[j].shared <=>
                   m \in q[j].shared /\ ~(m \in S /\ Promise!Owner(q, k, m) <= j /\ j <= k)
             /\ r[j].val[m] = IF m \in S /\ Promise!Owner(q, k, m) = j
                              THEN Unset ELSE q[j].val[m]
  BY <1>3
<1> QED
  BY <1>3, <1>4, <1>5 DEF r

-----------------------------------------------------------------------------
(* Where an access ends, and who owns the name there.                      *)

\* A reference leads to an entry of the pool below, which no stem hides.
Linked(s) ==
    \A k \in 1 .. Len(s), n \in Names :
        s[k].entry[n] = Ref =>
            k > 1 /\ s[k - 1].entry[n] # Absent /\ ~Delegates(s, k - 1, n)

Sound(s) == RefsOK(s) /\ Linked(s)

LEMMA TargetIs ==
  ASSUME NEW s \in Seq(Pool), Linked(s), NEW h \in 1 .. Len(s), NEW n \in Names
  PROVE  /\ Target(s, h, n) \in 1 .. h /\ s[Target(s, h, n)].entry[n] # Ref
         /\ \A j \in Target(s, h, n) + 1 .. h : s[j].entry[n] = Ref
<1> DEFINE T == {j \in 1 .. h : s[j].entry[n] # Ref}
<1>1. T \subseteq 1 .. h /\ h \in Nat
  OBVIOUS
<1>2. 1 \in T
  BY DEF Linked
<1>3. Target(s, h, n) = Max(T)
  BY DEF Target
<1>4. \A j \in 1 .. h : s[j].entry[n] # Ref <=> j \in T
  OBVIOUS
<1> HIDE DEF T
<1>5. Max(T) \in T /\ \A j \in T : j <= Max(T)
  BY <1>1, <1>2, MaxExists
<1> DEFINE o == Target(s, h, n)
<1>6. o = Max(T)
  BY <1>3
<1> HIDE DEF o
<1>7. o \in 1 .. h
  BY <1>1, <1>5, <1>6
<1>8. ASSUME NEW j \in o + 1 .. h PROVE s[j].entry[n] = Ref
  <2>1. j \in 1 .. h /\ ~(j <= o)
    BY <1>1, <1>7
  <2> QED
    BY <1>4, <1>5, <1>6, <2>1
<1> QED
  BY <1>4, <1>5, <1>6, <1>7, <1>8 DEF o

\* What SeenIn passes down is what a stem delegates or a reference leads on.
LEMMA PassesIs ==
  ASSUME NEW s \in Seq(Pool), NEW j \in 1 .. Len(s), NEW n \in Names
  PROVE  Promise!Passes(SeenIn(s), j, n) <=> Delegates(s, j, n) \/ s[j].entry[n] = Ref
<1>1. SeenIn(s)[j].stems = s[j].exposed /\ (n \in SeenIn(s)[j].shared <=> s[j].entry[n] = Ref)
  BY SeenIs
<1> QED
  BY <1>1, SameNames DEF Promise!Passes, Promise!ByStem, Delegates

\* The entry an access from level L ends in is its owner's.
LEMMA OwnedAt ==
  ASSUME NEW s \in Seq(Pool), Sound(s), NEW L \in 1 .. Len(s), NEW n \in Names,
         NEW h, h = Home(s, L, n), NEW o, o = Target(s, h, n)
  PROVE  /\ h \in 1 .. L /\ o \in 1 .. h /\ Promise!Owner(SeenIn(s), L, n) = o
         /\ ~Delegates(s, h, n) /\ ~Delegates(s, o, n) /\ s[o].entry[n] # Ref
         /\ \A j \in o + 1 .. L : Delegates(s, j, n) \/ s[j].entry[n] = Ref
         /\ s[h].entry[n] = Absent <=> s[o].entry[n] = Absent
         /\ s[h].entry[n] = Absent => o = h
<1>1. /\ h \in 1 .. L /\ ~Delegates(s, h, n)
      /\ \A j \in h + 1 .. L : Delegates(s, j, n)
  BY HomeIs DEF Sound
<1>2. h \in 1 .. Len(s)
  BY <1>1
<1>3. /\ o \in 1 .. h /\ s[o].entry[n] # Ref
      /\ \A j \in o + 1 .. h : s[j].entry[n] = Ref
  BY <1>2, TargetIs DEF Sound
<1>4. ASSUME NEW j \in o + 1 .. L PROVE Delegates(s, j, n) \/ s[j].entry[n] = Ref
  <2>1. j \in o + 1 .. h \/ j \in h + 1 .. L
    BY <1>1, <1>3
  <2> QED
    BY <1>1, <1>3, <2>1
<1>5. o # h => /\ o + 1 \in o + 1 .. h /\ h \in o + 1 .. h /\ o + 1 \in 1 .. Len(s)
               /\ o + 1 - 1 = o
  BY <1>2, <1>3
<1>6. o # h => ~Delegates(s, o, n) /\ s[o].entry[n] # Absent /\ s[h].entry[n] # Absent
  BY <1>3, <1>5, MarksDiffer DEF Sound, Linked
<1>7. ~Delegates(s, o, n)
  BY <1>1, <1>6
<1>8. Promise!Owner(SeenIn(s), L, n) = o
  <2>1. o \in 1 .. L /\ o \in 1 .. Len(s) /\ L \in Nat
    BY <1>1, <1>3
  <2>2. ~Promise!Passes(SeenIn(s), o, n)
    BY <1>3, <1>7, <2>1, PassesIs
  <2>3. \A j \in o + 1 .. L : j \in 1 .. Len(s)
    BY <2>1
  <2>4. \A j \in o + 1 .. L : Promise!Passes(SeenIn(s), j, n)
    BY <1>4, <2>3, PassesIs
  <2> QED
    BY <2>1, <2>2, <2>4, OwnerIs
<1> QED
  BY <1>1, <1>3, <1>4, <1>6, <1>7, <1>8

-----------------------------------------------------------------------------
(* The operators that change pools keep references sound and do to the     *)
(* scopes what VarService says.                                            *)

LEMMA SoundPut ==
  ASSUME NEW s \in Seq(Pool), Sound(s), NEW k \in 1 .. Len(s), NEW n \in Names,
         NEW e \in Entry \ {Dangling, Absent}, NEW d \in Nat,
         e = Ref => /\ ~Delegates(s, k, n) /\ k > 1
                    /\ s[k - 1].entry[n] # Absent /\ ~Delegates(s, k - 1, n)
  PROVE  LET t == Put(s, k, n, e, d)
         IN  /\ t \in Seq(Pool) /\ Len(t) = Len(s) /\ Sound(t)
             /\ \A j \in 1 .. Len(s) : t[j].exposed = s[j].exposed
             /\ \A j \in 1 .. Len(s), m \in Names :
                   t[j].entry[m] = IF j = k /\ m = n THEN e ELSE s[j].entry[m]
<1> DEFINE t == Put(s, k, n, e, d)
<1>1. RefsOK(t)
  BY PutRefs DEF Sound
<1>2. e \in Entry /\ e # Absent
  OBVIOUS
<1>3. /\ t \in Seq(Pool) /\ Len(t) = Len(s)
      /\ \A j \in 1 .. Len(s), m \in Names :
            t[j].entry[m] = IF j = k /\ m = n THEN e ELSE s[j].entry[m]
  <2>1. /\ Later(s, t)
        /\ \A j \in 1 .. Len(s), m \in Names :
              t[j].entry[m] = IF j = k /\ m = n THEN e ELSE s[j].entry[m]
    BY <1>2, PutLater
  <2> HIDE DEF t
  <2> QED
    BY <2>1 DEF Later
<1>4. \A j \in 1 .. Len(s) : t[j].exposed = s[j].exposed
  BY PutExposed
<1> HIDE DEF t
<1>5. ASSUME NEW j \in 1 .. Len(s), NEW m \in Names, t[j].entry[m] = Ref
      PROVE  j > 1 /\ t[j - 1].entry[m] # Absent /\ ~Delegates(t, j - 1, m)
  <2>1. j > 1 /\ s[j - 1].entry[m] # Absent /\ ~Delegates(s, j - 1, m)
    BY <1>3, <1>5 DEF Sound, Linked
  <2>2. j - 1 \in 1 .. Len(s)
    BY <2>1
  <2> QED
    BY <1>2, <1>3, <1>4, <2>1, <2>2 DEF Delegates
<1>6. Sound(t)
  BY <1>1, <1>3, <1>5 DEF Sound, Linked
<1> QED
  BY <1>3, <1>4, <1>6 DEF t

LEMMA SoundFreed ==
  ASSUME NEW s \in Seq(Pool), Sound(s), NEW F, Closed(s, F)
  PROVE  /\ Sound(Freed(s, F))
         /\ \A j \in 1 .. Len(s), m \in Names :
               Freed(s, F)[j].entry[m] = IF <<j, m>> \in F THEN Absent ELSE s[j].entry[m]
<1> DEFINE t == Freed(s, F)
<1>1. RefsOK(t)
  BY FreedRefs DEF Sound
<1>2. /\ Len(t) = Len(s)
      /\ \A j \in 1 .. Len(s) : t[j].exposed = s[j].exposed
      /\ \A j \in 1 .. Len(s), m \in Names :
            t[j].entry[m] = IF <<j, m>> \in F THEN Absent
                            ELSE IF s[j].entry[m] = Ref /\ <<j - 1, m>> \in F THEN Dangling
                            ELSE s[j].entry[m]
  BY FreedLater DEF Later
<1> HIDE DEF t
<1>3. \A j \in 1 .. Len(s), m \in Names :
         t[j].entry[m] = IF <<j, m>> \in F THEN Absent ELSE s[j].entry[m]
  BY <1>2 DEF Closed
<1>4. ASSUME NEW j \in 1 .. Len(s), NEW m \in Names, t[j].entry[m] = Ref
      PROVE  j > 1 /\ t[j - 1].entry[m] # Absent /\ ~Delegates(t, j - 1, m)
  <2>1. s[j].entry[m] = Ref /\ <<j, m>> \notin F
    BY <1>3, <1>4, MarksDiffer
  <2>2. j > 1 /\ s[j - 1].entry[m] # Absent /\ ~Delegates(s, j - 1, m)
    BY <2>1 DEF Sound, Linked
  <2>3. j - 1 \in 1 .. Len(s) /\ <<j - 1, m>> \notin F
    BY <2>1, <2>2 DEF Closed
  <2> QED
    BY <1>2, <1>3, <2>2, <2>3 DEF Delegates
<1> QED
  BY <1>1, <1>2, <1>3, <1>4 DEF Sound, Linked, t

\* vpool_set and vpool_set_buf set the variable in the scope that owns it.
LEMMA AssignedSeen ==
  ASSUME NEW s \in Seq(Pool), Sound(s), Len(s) > 0, NEW n \in Names,
         NEW v \in Values, NEW grow \in Nat
  PROVE  LET t == Assigned(s, n, v, grow)
         IN  /\ t \in Seq(Pool) /\ Len(t) = Len(s) /\ Sound(t)
             /\ SeenIn(t) = Promise!Assigned(SeenIn(s), n, v)
<1> DEFINE h == Home(s, Len(s), n)
           o == Target(s, h, n)
           d == IF s[h].entry[n] = Absent THEN grow ELSE 0
           t == Assigned(s, n, v, grow)
           q == SeenIn(s)
           r == Promise!Assigned(q, n, v)
<1>1. Len(s) \in 1 .. Len(s)
  OBVIOUS
<1>2. /\ h \in 1 .. Len(s) /\ o \in 1 .. h /\ Promise!Owner(q, Len(s), n) = o
      /\ s[o].entry[n] # Ref /\ (s[h].entry[n] = Absent => o = h)
  BY <1>1, OwnedAt
<1>3. t = Put(s, o, n, v, d) /\ d \in Nat
  BY <1>2 DEF Assigned
<1>4. o \in 1 .. Len(s) /\ v \in Entry \ {Dangling, Absent} /\ v \in Entry /\ v # Ref
  BY <1>2, MarksDiffer DEF Entry
<1>5. q \in Seq(View) /\ Len(q) = Len(s)
  BY SeenIs
<1>6. /\ r \in Seq(View) /\ Len(r) = Len(q)
      /\ \A j \in 1 .. Len(q) : r[j].stems = q[j].stems /\ r[j].shared = q[j].shared
      /\ \A j \in 1 .. Len(q), m \in Names :
            r[j].val[m] = IF j = o /\ m = n THEN v ELSE q[j].val[m]
  <2> HIDE DEF q, o
  <2> QED
    BY <1>2, <1>4, <1>5, PromiseAssigned
<1> HIDE DEF t, h, o, d
<1>7. /\ t \in Seq(Pool) /\ Len(t) = Len(s) /\ Sound(t)
      /\ \A j \in 1 .. Len(s), m \in Names :
            t[j].entry[m] = IF j = o /\ m = n THEN v ELSE s[j].entry[m]
      /\ \A j \in 1 .. Len(s) : t[j].exposed = s[j].exposed
  <2>1. v = Ref => FALSE
    BY <1>4
  <2> QED
    BY <1>3, <1>4, <2>1, SoundPut
<1>8. SeenIn(t) = r
  <2>1. SeenIn(t) \in Seq(View) /\ Len(SeenIn(t)) = Len(s)
    BY <1>7, SeenIs
  <2>2. ASSUME NEW j \in 1 .. Len(s)
        PROVE  SeenIn(t)[j].stems = r[j].stems
    <3>1. SeenIn(t)[j].stems = t[j].exposed /\ q[j].stems = s[j].exposed
      BY <1>7, SeenIs
    <3> QED
      BY <1>5, <1>6, <1>7, <3>1
  <2>3. ASSUME NEW j \in 1 .. Len(s), NEW m \in Names
        PROVE  /\ m \in SeenIn(t)[j].shared <=> m \in r[j].shared
               /\ SeenIn(t)[j].val[m] = r[j].val[m]
    <3>1. /\ m \in SeenIn(t)[j].shared <=> t[j].entry[m] = Ref
          /\ m \in q[j].shared <=> s[j].entry[m] = Ref
          /\ SeenIn(t)[j].val[m] = IF t[j].entry[m] \in Values THEN t[j].entry[m] ELSE Unset
          /\ q[j].val[m] = IF s[j].entry[m] \in Values THEN s[j].entry[m] ELSE Unset
      BY <1>7, SeenIs
    <3> QED
      BY <1>2, <1>4, <1>5, <1>6, <1>7, <3>1
  <2> HIDE DEF r, q
  <2> DEFINE u == SeenIn(t)
  <2>4. r \in Seq(View) /\ Len(r) = Len(s)
    BY <1>5, <1>6
  <2>5. u \in Seq(View) /\ Len(u) = Len(r)
    BY <2>1, <2>4
  <2>6. \A j \in 1 .. Len(u) : u[j].stems = r[j].stems
    BY <2>1, <2>2
  <2>7. /\ \A j \in 1 .. Len(u), m \in Names : m \in u[j].shared <=> m \in r[j].shared
        /\ \A j \in 1 .. Len(u), m \in Names : u[j].val[m] = r[j].val[m]
    BY <2>1, <2>3
  <2> HIDE DEF u
  <2>8. u = r
    BY <2>4, <2>5, <2>6, <2>7, SameViews
  <2> QED
    BY <2>8 DEF u
<1> QED
  BY <1>7, <1>8 DEF t

\* Freeing the entries of names S from level L down to their owners is a drop.
LEMMA FreedSeen ==
  ASSUME NEW s \in Seq(Pool), Sound(s), NEW L \in 1 .. Len(s), NEW F, Closed(s, F),
         NEW S, S \subseteq Names,
         \A j \in 1 .. Len(s), m \in Names :
            <<j, m>> \in F =>
              /\ m \in S /\ Promise!Owner(SeenIn(s), L, m) <= j /\ j <= L
              /\ j = Promise!Owner(SeenIn(s), L, m) \/ s[j].entry[m] = Ref,
         \A j \in 1 .. Len(s), m \in S :
            /\ Promise!Owner(SeenIn(s), L, m) <= j /\ j <= L /\ s[j].entry[m] = Ref
                  => <<j, m>> \in F
            /\ Promise!Owner(SeenIn(s), L, m) = j /\ s[j].entry[m] \in Values
                  => <<j, m>> \in F
  PROVE  LET t == Freed(s, F)
         IN  /\ t \in Seq(Pool) /\ Len(t) = Len(s) /\ Sound(t)
             /\ SeenIn(t) = Promise!Dropped(SeenIn(s), L, S)
<1> DEFINE t == Freed(s, F)
           q == SeenIn(s)
           r == Promise!Dropped(q, L, S)
           own(m) == Promise!Owner(q, L, m)
<1>1. /\ t \in Seq(Pool) /\ Len(t) = Len(s)
      /\ \A j \in 1 .. Len(s) : t[j].exposed = s[j].exposed
  <2>1. Later(s, t) /\ \A j \in 1 .. Len(s) : t[j].exposed = s[j].exposed
    BY FreedLater
  <2> HIDE DEF t
  <2> QED
    BY <2>1 DEF Later
<1>2. /\ Sound(t)
      /\ \A j \in 1 .. Len(s), m \in Names :
            t[j].entry[m] = IF <<j, m>> \in F THEN Absent ELSE s[j].entry[m]
  BY SoundFreed
<1>3. q \in Seq(View) /\ Len(q) = Len(s)
  BY SeenIs
<1>4. /\ r \in Seq(View) /\ Len(r) = Len(s)
      /\ \A j \in 1 .. Len(s) : r[j].stems = q[j].stems
      /\ \A j \in 1 .. Len(s), m \in Names :
            /\ m \in r[j].shared <=>
                  m \in q[j].shared /\ ~(m \in S /\ own(m) <= j /\ j <= L)
            /\ r[j].val[m] = IF m \in S /\ own(m) = j THEN Unset ELSE q[j].val[m]
  <2> HIDE DEF q
  <2> QED
    BY <1>3, PromiseDropped
<1>5. /\ \A j \in 1 .. Len(s), m \in Names :
            <<j, m>> \in F => /\ m \in S /\ own(m) <= j /\ j <= L
                              /\ j = own(m) \/ s[j].entry[m] = Ref
      /\ \A j \in 1 .. Len(s), m \in S :
            /\ own(m) <= j /\ j <= L /\ s[j].entry[m] = Ref => <<j, m>> \in F
            /\ own(m) = j /\ s[j].entry[m] \in Values => <<j, m>> \in F
  OBVIOUS
<1> HIDE DEF t, r, own
<1>6. SeenIn(t) \in Seq(View) /\ Len(SeenIn(t)) = Len(s)
  BY <1>1, SeenIs
<1>7. ASSUME NEW j \in 1 .. Len(s)
      PROVE  SeenIn(t)[j].stems = r[j].stems
  <2>1. SeenIn(t)[j].stems = t[j].exposed /\ q[j].stems = s[j].exposed
    BY <1>1, SeenIs
  <2> QED
    BY <1>1, <1>4, <2>1
<1>8. ASSUME NEW j \in 1 .. Len(s), NEW m \in Names
      PROVE  /\ m \in SeenIn(t)[j].shared <=> m \in r[j].shared
             /\ SeenIn(t)[j].val[m] = r[j].val[m]
  <2>1. /\ m \in SeenIn(t)[j].shared <=> t[j].entry[m] = Ref
        /\ m \in q[j].shared <=> s[j].entry[m] = Ref
        /\ SeenIn(t)[j].val[m] = IF t[j].entry[m] \in Values THEN t[j].entry[m] ELSE Unset
        /\ q[j].val[m] = IF s[j].entry[m] \in Values THEN s[j].entry[m] ELSE Unset
    BY <1>1, SeenIs
  <2> HIDE DEF q
  <2>2. Absent # Ref /\ Absent \notin Values /\ Ref \notin Values
    BY MarksDiffer
  <2>3. t[j].entry[m] = IF <<j, m>> \in F THEN Absent ELSE s[j].entry[m]
    BY <1>2
  <2>4. CASE <<j, m>> \in F
    BY <1>4, <1>5, <2>1, <2>2, <2>3, <2>4
  <2>5. CASE <<j, m>> \notin F
    BY <1>4, <1>5, <2>1, <2>2, <2>3, <2>5
  <2> QED
    BY <2>4, <2>5
<1>9. SeenIn(t) = r
  BY <1>4, <1>6, <1>7, <1>8, SameViews
<1> QED
  BY <1>1, <1>2, <1>9 DEF t, r

\* What vpool_drop frees: the owner's entry and every reference that leads to it.
LEMMA DropFreesIs ==
  ASSUME NEW s \in Seq(Pool), Sound(s), NEW L \in 1 .. Len(s), NEW n \in Names,
         NEW o, o = Promise!Owner(SeenIn(s), L, n), NEW j \in 1 .. Len(s), NEW m
  PROVE  /\ <<j, m>> \in DropFrees(s, L, n) =>
              m = n /\ o <= j /\ j <= L /\ (j = o \/ s[j].entry[n] = Ref)
         /\ o <= j /\ j <= L /\ s[j].entry[n] = Ref => <<j, n>> \in DropFrees(s, L, n)
         /\ o = j /\ s[j].entry[n] # Absent => <<j, n>> \in DropFrees(s, L, n)
<1> DEFINE h == Home(s, L, n)
<1>1. /\ h \in 1 .. L /\ o \in 1 .. h /\ ~Delegates(s, o, n) /\ s[o].entry[n] # Ref
      /\ \A i \in o + 1 .. L : Delegates(s, i, n) \/ s[i].entry[n] = Ref
  <2> DEFINE p == Target(s, h, n)
  <2>1. /\ h \in 1 .. L /\ p \in 1 .. h /\ Promise!Owner(SeenIn(s), L, n) = p
        /\ ~Delegates(s, p, n) /\ s[p].entry[n] # Ref
        /\ \A i \in p + 1 .. L : Delegates(s, i, n) \/ s[i].entry[n] = Ref
    BY OwnedAt
  <2>2. p = o
    BY <2>1
  <2> HIDE DEF p, h
  <2> QED
    BY <2>1, <2>2
<1> HIDE DEF h
<1>2. o \in 1 .. L /\ L \in Nat
  BY <1>1
<1>3. o \in 1 .. Len(s)
  BY <1>2
<1>4. s[o].entry[n] \notin {Ref, Dangling}
  BY <1>1, <1>3 DEF Sound, RefsOK
<1>5. \A i \in 1 .. Len(s) : s[i].entry[n] = Ref => ~Delegates(s, i, n)
  BY DEF Sound, RefsOK
<1>6. ASSUME <<j, m>> \in DropFrees(s, L, n)
      PROVE  m = n /\ o <= j /\ j <= L /\ (j = o \/ s[j].entry[n] = Ref)
  <2>1. /\ m = n /\ j \in 1 .. L /\ ~Delegates(s, j, n)
        /\ \A i \in j + 1 .. L : Delegates(s, i, n) \/ s[i].entry[n] \in {Ref, Dangling}
    BY <1>6 DEF DropFrees
  <2>2. ~(j < o)
    <3>1. j < o => o \in j + 1 .. L
      BY <1>2
    <3> QED
      BY <1>1, <1>4, <2>1, <3>1
  <2>3. j # o => j \in o + 1 .. L
    BY <1>2, <2>1, <2>2
  <2> QED
    BY <1>1, <1>2, <2>1, <2>2, <2>3
<1>7. ASSUME o <= j, j <= L, s[j].entry[n] # Absent, ~Delegates(s, j, n)
      PROVE  <<j, n>> \in DropFrees(s, L, n)
  <2>1. j \in 1 .. L
    BY <1>7
  <2>2. \A i \in j + 1 .. L : i \in o + 1 .. L
    BY <1>2, <1>7
  <2>3. \A i \in j + 1 .. L : Delegates(s, i, n) \/ s[i].entry[n] \in {Ref, Dangling}
    BY <1>1, <2>2
  <2> QED
    BY <1>7, <2>1, <2>3 DEF DropFrees
<1> QED
  BY <1>1, <1>2, <1>5, <1>6, <1>7, MarksDiffer

LEMMA DroppedSeen ==
  ASSUME NEW s \in Seq(Pool), Sound(s), Len(s) > 0, NEW n \in Names
  PROVE  LET t == Freed(s, DropFrees(s, Len(s), n))
         IN  /\ t \in Seq(Pool) /\ Len(t) = Len(s) /\ Sound(t)
             /\ SeenIn(t) = Promise!Dropped(SeenIn(s), Len(s), {n})
<1> DEFINE F == DropFrees(s, Len(s), n)
           own(m) == Promise!Owner(SeenIn(s), Len(s), m)
<1>1. Len(s) \in 1 .. Len(s) /\ \A j \in Len(s) + 1 .. Len(s) : FALSE
  OBVIOUS
<1>2. Closed(s, F)
  BY <1>1, DropClosed DEF Sound
<1>3. ASSUME NEW j \in 1 .. Len(s), NEW m \in Names
      PROVE  /\ <<j, m>> \in F =>
                   m = n /\ own(n) <= j /\ j <= Len(s) /\ (j = own(n) \/ s[j].entry[n] = Ref)
             /\ own(n) <= j /\ j <= Len(s) /\ s[j].entry[n] = Ref => <<j, n>> \in F
             /\ own(n) = j /\ s[j].entry[n] # Absent => <<j, n>> \in F
  BY <1>1, DropFreesIs
<1> HIDE DEF F
<1>4. /\ \A j \in 1 .. Len(s), m \in Names :
            <<j, m>> \in F => /\ m \in {n} /\ own(m) <= j /\ j <= Len(s)
                              /\ j = own(m) \/ s[j].entry[m] = Ref
      /\ \A j \in 1 .. Len(s), m \in {n} :
            /\ own(m) <= j /\ j <= Len(s) /\ s[j].entry[m] = Ref => <<j, m>> \in F
            /\ own(m) = j /\ s[j].entry[m] \in Values => <<j, m>> \in F
  BY <1>3, MarksDiffer
<1> QED
  BY <1>1, <1>2, <1>4, FreedSeen DEF F

\* Every tail of a stem is delegated where the stem is.
LEMMA StemOfTails ==
  ASSUME NEW m \in Stems
  PROVE  /\ StemsOf(m) = {m} /\ m \in Under(m) /\ Under(m) \subseteq Names
         /\ \A x \in Under(m) : StemsOf(x) = {m}
<1>1. m \notin Compounds /\ m \in Names
  BY PoolAssumption DEF Names
<1>2. StemsOf(m) = {m}
  BY <1>1 DEF StemsOf
<1>3. ASSUME NEW x \in Under(m) PROVE StemsOf(x) = {m}
  <2>1. m \in StemsOf(x) /\ x \in Names
    BY DEF Under
  <2>2. CASE x = m
    BY <1>2, <2>2
  <2>3. CASE x \in Compounds /\ StemOf[x] = m
    <3>1. x \notin Stems
      BY <2>3, PoolAssumption
    <3> QED
      BY <2>3, <3>1 DEF StemsOf
  <2> QED
    BY <2>1, <2>2, <2>3 DEF StemsOf
<1> QED
  BY <1>1, <1>2, <1>3 DEF Under

LEMMA HomeOfTails ==
  ASSUME NEW s, NEW L, NEW n, NEW m, StemsOf(n) = StemsOf(m)
  PROVE  Home(s, L, n) = Home(s, L, m)
  BY DEF Home, Delegates

\* vpool_drop_stem_all drops the stem and its tails from where the stem ends.
LEMMA ResetSeen ==
  ASSUME NEW s \in Seq(Pool), Sound(s), Len(s) > 0, NEW m \in Stems
  PROVE  LET t == Freed(s, DropStemFrees(s, m))
         IN  /\ t \in Seq(Pool) /\ Len(t) = Len(s) /\ Sound(t)
             /\ SeenIn(t) = Promise!Reset(SeenIn(s), m)
<1> DEFINE F == DropStemFrees(s, m)
           k == Home(s, Len(s), m)
           S == Under(m)
           own(x) == Promise!Owner(SeenIn(s), k, x)
           X == {x \in S : s[k].entry[x] # Absent}
<1>1. Len(s) \in 1 .. Len(s) /\ Sound(s) => RefsOK(s)
  BY DEF Sound
<1>2. k \in 1 .. Len(s) /\ ~Delegates(s, k, m)
  BY <1>1, HomeIs
<1>3. /\ StemsOf(m) = {m} /\ S \subseteq Names
      /\ \A x \in S : StemsOf(x) = {m}
  BY StemOfTails
<1>4. Closed(s, F)
  BY StemClosed DEF Sound
<1>5. F = UNION {DropFrees(s, k, x) : x \in X} /\ X \subseteq S
      /\ \A x \in S : x \in X <=> s[k].entry[x] # Absent
  BY DEF DropStemFrees
<1>6. Promise!StemHome(SeenIn(s), m) = k
  <2>1. /\ Len(SeenIn(s)) = Len(s) /\ \A j \in 1 .. Len(s) : SeenIn(s)[j].stems = s[j].exposed
    BY SeenIs
  <2> DEFINE T == {j \in 1 .. Len(s) : m \notin SeenIn(s)[j].stems}
  <2>2. \A j \in 1 .. Len(s) : j \in T <=> ~Delegates(s, j, m)
    BY <1>3, <2>1 DEF Delegates
  <2>3. T \subseteq 1 .. Len(s) /\ Promise!StemHome(SeenIn(s), m) = Promise!Max(T)
    BY <2>1 DEF Promise!StemHome
  <2>4. /\ Len(s) \in Nat
        /\ \A j \in k + 1 .. Len(s) : Delegates(s, j, m)
    BY <1>1, HomeIs
  <2> HIDE DEF T, k
  <2>5. k \in T
    BY <1>2, <2>2
  <2>6. ASSUME NEW y \in T PROVE y <= k
    <3>1. y \in 1 .. Len(s) /\ y \notin k + 1 .. Len(s)
      BY <2>2, <2>3, <2>4
    <3> QED
      BY <1>2, <3>1
  <2>7. Promise!Max(T) = k
    BY <2>3, <2>4, <2>5, <2>6, MaxIs
  <2> QED
    BY <2>3, <2>7
<1> HIDE DEF F, k, S
<1>7. ASSUME NEW x \in S
      PROVE  k \in 1 .. k /\ Home(s, k, x) = k
  <2>1. ~Delegates(s, k, x)
    BY <1>2, <1>3 DEF Delegates
  <2>2. /\ Home(s, k, x) \in 1 .. k
        /\ \A j \in Home(s, k, x) + 1 .. k : Delegates(s, j, x)
    BY <1>1, <1>2, HomeIs
  <2>3. Home(s, k, x) # k => k \in Home(s, k, x) + 1 .. k
    BY <1>2, <2>2
  <2> QED
    BY <1>2, <2>1, <2>2, <2>3
<1>8. ASSUME NEW x \in S, s[k].entry[x] = Absent PROVE own(x) = k
  <2> DEFINE o == Target(s, k, x)
  <2>1. o = k /\ own(x) = o
    BY <1>2, <1>3, <1>7, <1>8, OwnedAt
  <2> QED
    BY <2>1
<1>9. ASSUME NEW x \in S, NEW j \in 1 .. Len(s), NEW y
      PROVE  /\ <<j, y>> \in DropFrees(s, k, x) =>
                   y = x /\ own(x) <= j /\ j <= k /\ (j = own(x) \/ s[j].entry[x] = Ref)
             /\ own(x) <= j /\ j <= k /\ s[j].entry[x] = Ref => <<j, x>> \in DropFrees(s, k, x)
             /\ own(x) = j /\ s[j].entry[x] # Absent => <<j, x>> \in DropFrees(s, k, x)
  BY <1>2, <1>3, DropFreesIs
<1> HIDE DEF own, X
<1>10. /\ \A j \in 1 .. Len(s), y \in Names :
             <<j, y>> \in F => /\ y \in S /\ own(y) <= j /\ j <= k
                               /\ j = own(y) \/ s[j].entry[y] = Ref
       /\ \A j \in 1 .. Len(s), y \in S :
             /\ own(y) <= j /\ j <= k /\ s[j].entry[y] = Ref => <<j, y>> \in F
             /\ own(y) = j /\ s[j].entry[y] \in Values => <<j, y>> \in F
  <2>1. ASSUME NEW j \in 1 .. Len(s), NEW y \in Names, <<j, y>> \in F
        PROVE  /\ y \in S /\ own(y) <= j /\ j <= k
               /\ j = own(y) \/ s[j].entry[y] = Ref
    <3>1. PICK x \in X : <<j, y>> \in DropFrees(s, k, x)
      BY <1>5, <2>1
    <3>2. x \in S
      BY <1>5
    <3>3. y = x /\ own(x) <= j /\ j <= k /\ (j = own(x) \/ s[j].entry[x] = Ref)
      BY <1>9, <3>1, <3>2
    <3> QED
      BY <3>2, <3>3
  <2>2. ASSUME NEW j \in 1 .. Len(s), NEW y \in S
        PROVE  /\ own(y) <= j /\ j <= k /\ s[j].entry[y] = Ref => <<j, y>> \in F
               /\ own(y) = j /\ s[j].entry[y] \in Values => <<j, y>> \in F
    <3>1. CASE y \in X
      <4>1. \A i : <<i, y>> \in DropFrees(s, k, y) => <<i, y>> \in F
        BY <1>5, <3>1
      <4> QED
        BY <1>9, <4>1, MarksDiffer
    <3>2. CASE y \notin X
      <4>1. s[k].entry[y] = Absent /\ own(y) = k
        BY <1>5, <1>8, <3>2
      <4>2. own(y) <= j /\ j <= k => j = k
        BY <1>2, <4>1
      <4> QED
        BY <4>1, <4>2, MarksDiffer
    <3> QED
      BY <3>1, <3>2
  <2> QED
    BY <2>1, <2>2
<1>11. LET t == Freed(s, F)
       IN  /\ t \in Seq(Pool) /\ Len(t) = Len(s) /\ Sound(t)
           /\ SeenIn(t) = Promise!Dropped(SeenIn(s), k, S)
  BY <1>2, <1>3, <1>4, <1>10, FreedSeen DEF own
<1>12. Promise!Reset(SeenIn(s), m) = Promise!Dropped(SeenIn(s), k, S)
  BY <1>6, SameNames DEF Promise!Reset, S
<1> QED
  BY <1>11, <1>12 DEF F

LEMMA PoppedSeen ==
  ASSUME NEW s \in Seq(Pool), Sound(s), AddrsDiffer(s), NEW k \in 0 .. Len(s)
  PROVE  LET t == Popped(s, k)
         IN  /\ t \in Seq(Pool) /\ Len(t) = Len(s) - k /\ Sound(t)
             /\ SeenIn(t) = SubSeq(SeenIn(s), 1, Len(s) - k)
<1> DEFINE t == Popped(s, k)
           q == SeenIn(s)
           r == SubSeq(q, 1, Len(s) - k)
<1>1. /\ t \in Seq(Pool) /\ Len(t) = Len(s) - k
      /\ \A j \in 1 .. Len(s) - k : t[j] = s[j]
  BY PoppedPools
<1>2. q \in Seq(View) /\ Len(q) = Len(s) /\ Len(s) - k \in 0 .. Len(s)
  BY SeenIs
<1>3. RefsOK(t)
  BY PoppedRefs DEF Sound
<1>4. /\ r \in Seq(View) /\ Len(r) = Len(s) - k
      /\ \A j \in 1 .. Len(s) - k : r[j] = q[j]
  <2> HIDE DEF q
  <2> QED
    BY <1>2, PrefixOf
<1> HIDE DEF t, r
<1>5. \A j \in 1 .. Len(t) : j \in 1 .. Len(s) /\ (j > 1 => j - 1 \in 1 .. Len(t))
  BY <1>1, <1>2
<1>6. Linked(t)
  BY <1>1, <1>5 DEF Sound, Linked, Delegates
<1>7. \A j \in 1 .. Len(t) : SeenIn(t)[j] = r[j]
  <2> DEFINE c(p) == [stems |-> p.exposed,
                      shared |-> {n \in Names : p.entry[n] = Ref},
                      val |-> [n \in Names |-> IF p.entry[n] \in Values
                                               THEN p.entry[n] ELSE Unset]]
  <2>1. DOMAIN t = 1 .. Len(t) /\ DOMAIN s = 1 .. Len(s)
    BY <1>1
  <2>2. /\ SeenIn(t) = [j \in 1 .. Len(t) |-> c(t[j])]
        /\ q = [j \in 1 .. Len(s) |-> c(s[j])]
    BY <2>1 DEF SeenIn
  <2> HIDE DEF c, q
  <2>3. SUFFICES ASSUME NEW j \in 1 .. Len(t) PROVE SeenIn(t)[j] = r[j]
    OBVIOUS
  <2>4. t[j] = s[j] /\ j \in 1 .. Len(s) /\ j \in 1 .. Len(s) - k
    BY <1>1, <1>5
  <2>5. SeenIn(t)[j] = c(t[j]) /\ q[j] = c(s[j])
    BY <2>2, <2>4
  <2>6. r[j] = q[j]
    BY <1>4, <2>4
  <2> QED
    BY <2>4, <2>5, <2>6
<1>8. SeenIn(t) \in Seq(View) /\ Len(SeenIn(t)) = Len(t)
  BY <1>1, SeenIs
<1>9. SeenIn(t) = r
  BY <1>1, <1>4, <1>7, <1>8
<1> QED
  BY <1>1, <1>3, <1>6, <1>9 DEF Sound, t, r

LEMMA EnteredSeen ==
  ASSUME NEW s \in Seq(Pool), Sound(s), AddrsDiffer(s), NEW a \in Addrs,
         \A k \in 1 .. Len(s) : s[k].addr # a
  PROVE  LET t == Append(s, NewPool(a))
         IN  Sound(t) /\ SeenIn(t) = Append(SeenIn(s), Promise!NewScope)
<1> DEFINE t == Append(s, NewPool(a))
           q == SeenIn(s)
           c == Promise!NewScope
<1>1. /\ t \in Seq(Pool) /\ Len(t) = Len(s) + 1 /\ Len(s) \in Nat
      /\ \A j \in 1 .. Len(s) : t[j] = s[j]
      /\ t[Len(s) + 1] = NewPool(a)
  BY NewPools
<1>2. NewPool(a).exposed = {} /\ \A m \in Names : NewPool(a).entry[m] = Absent
  BY DEF NewPool
<1>3. q \in Seq(View) /\ Len(q) = Len(s)
  BY SeenIs
<1>4. c \in View /\ c.stems = {} /\ c.shared = {} /\ \A m \in Names : c.val[m] = Unset
  BY SameNames DEF Promise!NewScope, View
<1>5. RefsOK(t)
  BY NewRefs DEF Sound
<1> HIDE DEF t, q, c
<1>6. Linked(t)
  <2> SUFFICES ASSUME NEW j \in 1 .. Len(t), NEW m \in Names, t[j].entry[m] = Ref
               PROVE  j > 1 /\ t[j - 1].entry[m] # Absent /\ ~Delegates(t, j - 1, m)
    BY DEF Linked
  <2>1. j # Len(s) + 1
    BY <1>1, <1>2, MarksDiffer
  <2>2. j \in 1 .. Len(s)
    BY <1>1, <2>1
  <2>3. j > 1 /\ s[j - 1].entry[m] # Absent /\ ~Delegates(s, j - 1, m)
    BY <1>1, <2>2 DEF Sound, Linked
  <2>4. j - 1 \in 1 .. Len(s)
    BY <2>2, <2>3
  <2> QED
    BY <1>1, <2>3, <2>4 DEF Delegates
<1> DEFINE r == Append(q, c)
<1>7. /\ r \in Seq(View) /\ Len(r) = Len(s) + 1 /\ r[Len(s) + 1] = c
      /\ \A j \in 1 .. Len(s) : r[j] = q[j]
  BY <1>3, <1>4
<1>8. SeenIn(t) \in Seq(View) /\ Len(SeenIn(t)) = Len(s) + 1
  BY <1>1, SeenIs
<1> HIDE DEF r
<1>9. ASSUME NEW j \in 1 .. Len(s) + 1
      PROVE  /\ SeenIn(t)[j].stems = r[j].stems
             /\ \A m \in Names : /\ m \in SeenIn(t)[j].shared <=> m \in r[j].shared
                                 /\ SeenIn(t)[j].val[m] = r[j].val[m]
  <2>1. j \in 1 .. Len(t)
    BY <1>1
  <2>2. SeenIn(t)[j].stems = t[j].exposed
    BY <1>1, <2>1, SeenIs
  <2>3. \A m \in Names :
          /\ m \in SeenIn(t)[j].shared <=> t[j].entry[m] = Ref
          /\ SeenIn(t)[j].val[m] = IF t[j].entry[m] \in Values THEN t[j].entry[m] ELSE Unset
    BY <1>1, <2>1, SeenIs
  <2>4. CASE j \in 1 .. Len(s)
    <3>1. q[j].stems = s[j].exposed
      BY <2>4, SeenIs DEF q
    <3>2. \A m \in Names :
            /\ m \in q[j].shared <=> s[j].entry[m] = Ref
            /\ q[j].val[m] = IF s[j].entry[m] \in Values THEN s[j].entry[m] ELSE Unset
      BY <2>4, SeenIs DEF q
    <3> QED
      BY <1>1, <1>7, <2>2, <2>3, <2>4, <3>1, <3>2
  <2>5. CASE j = Len(s) + 1
    <3>1. /\ t[j].exposed = {} /\ \A m \in Names : t[j].entry[m] = Absent
      BY <1>1, <1>2, <2>5
    <3>2. r[j].stems = {} /\ r[j].shared = {} /\ \A m \in Names : r[j].val[m] = Unset
      BY <1>4, <1>7, <2>5
    <3> QED
      BY <2>2, <2>3, <3>1, <3>2, MarksDiffer
  <2> QED
    BY <2>4, <2>5
<1>10. SeenIn(t) = r
  BY <1>7, <1>8, <1>9, SameViews
<1> QED
  BY <1>5, <1>6, <1>10 DEF Sound, t, r, q, c

-----------------------------------------------------------------------------
(* Every step of the pools is a step of VarService or changes no scope.    *)

\* What EXPOSE is given to has no variables of its own yet.
Fresh == at = "expose" => \A n \in Names : scopes[Depth].entry[n] \in {Absent, Ref}

ShareInv == CacheInv /\ ScopeInv /\ Sound(scopes) /\ Fresh

LEMMA PoolsHere ==
  ASSUME ShareInv, Running
  PROVE  /\ scopes \in Seq(Pool) /\ Sound(scopes) /\ AddrsDiffer(scopes)
         /\ Depth = Len(scopes) /\ Len(scopes) \in 1 .. Len(scopes) /\ Len(scopes) > 0
         /\ DOMAIN scopes = 1 .. Len(scopes)
         /\ Seen = SeenIn(scopes) /\ Len(Seen) = Len(scopes) /\ Seen # <<>>
<1>1. scopes \in Seq(Pool) /\ Sound(scopes) /\ AddrsDiffer(scopes) /\ Depth \in 1 .. Len(scopes)
  BY TopPool DEF ShareInv, CacheInv, Typed
<1>2. SeenIn(scopes) \in Seq(View) /\ Len(SeenIn(scopes)) = Len(scopes)
  BY <1>1, SeenIs
<1> QED
  BY <1>1, <1>2 DEF Depth, Seen

\* Assignment.
LEMMA AssignSims ==
  ASSUME ShareInv, NEW n \in Names, NEW v \in Values,
         (n \notin Stems /\ Assign(n, v)) \/ (n \in Stems /\ AssignStem(n, v))
  PROVE  Sound(scopes') /\ Fresh' /\ Promise!Assign(n, v)
<1>1. Running /\ at' = "body"
  BY DEF Assign, AssignStem
<1>2. /\ scopes \in Seq(Pool) /\ Sound(scopes) /\ Len(scopes) > 0
      /\ Seen = SeenIn(scopes) /\ Seen # <<>>
  BY <1>1, PoolsHere
<1>3. Fresh'
  BY <1>1 DEF Fresh
<1>4. CASE n \notin Stems /\ Assign(n, v)
  <2>1. PICK grow \in Grow : scopes' = Assigned(scopes, n, v, grow)
    BY <1>4 DEF Assign
  <2>2. /\ Sound(scopes')
        /\ SeenIn(scopes') = Promise!Assigned(SeenIn(scopes), n, v)
    BY <1>2, <2>1, GrowNat, AssignedSeen
  <2> QED
    BY <1>2, <1>3, <1>4, <2>2, SameNames DEF Promise!Assign, Seen
<1>5. CASE n \in Stems /\ AssignStem(n, v)
  <2> DEFINE u == Freed(scopes, DropStemFrees(scopes, n))
  <2>1. PICK grow \in Grow : scopes' = Assigned(u, n, v, grow)
    BY <1>5 DEF AssignStem
  <2>2. /\ u \in Seq(Pool) /\ Len(u) = Len(scopes) /\ Sound(u)
        /\ SeenIn(u) = Promise!Reset(SeenIn(scopes), n)
    BY <1>2, <1>5, ResetSeen
  <2> HIDE DEF u
  <2>3. Sound(scopes') /\ SeenIn(scopes') = Promise!Assigned(SeenIn(u), n, v)
    BY <1>2, <2>1, <2>2, GrowNat, AssignedSeen
  <2> QED
    BY <1>2, <1>3, <1>5, <2>2, <2>3, SameNames DEF Promise!Assign, Seen
<1> QED
  BY <1>4, <1>5

LEMMA DropSims ==
  ASSUME ShareInv, NEW n \in Names, Drop(n)
  PROVE  Sound(scopes') /\ Fresh' /\ Promise!Drop(n)
<1>1. Running /\ at' = "body"
  BY DEF Drop
<1>2. /\ scopes \in Seq(Pool) /\ Sound(scopes) /\ Len(scopes) > 0 /\ Depth = Len(scopes)
      /\ Seen = SeenIn(scopes) /\ Seen # <<>> /\ Len(Seen) = Len(scopes)
  BY <1>1, PoolsHere
<1>3. Fresh'
  BY <1>1 DEF Fresh
<1>4. CASE n \notin Stems
  <2>1. scopes' = Freed(scopes, DropFrees(scopes, Len(scopes), n))
    BY <1>2, <1>4 DEF Drop
  <2>2. /\ Sound(scopes')
        /\ SeenIn(scopes') = Promise!Dropped(SeenIn(scopes), Len(scopes), {n})
    BY <1>2, <2>1, DroppedSeen
  <2> QED
    BY <1>2, <1>3, <1>4, <2>2, SameNames DEF Promise!Drop, Seen
<1>5. CASE n \in Stems
  <2>1. scopes' = Freed(scopes, DropStemFrees(scopes, n))
    BY <1>5 DEF Drop
  <2>2. Sound(scopes') /\ SeenIn(scopes') = Promise!Reset(SeenIn(scopes), n)
    BY <1>2, <1>5, <2>1, ResetSeen
  <2> QED
    BY <1>2, <1>3, <1>5, <2>2, SameNames DEF Promise!Drop, Seen
<1> QED
  BY <1>4, <1>5

\* CALL sets SIGL where the caller is.
LEMMA CallSims ==
  ASSUME ShareInv, Call
  PROVE  Sound(scopes') /\ Fresh' /\ Promise!Assign(SIGL, Number)
<1>1. Running /\ at' = "label"
  BY DEF Call
<1>2. /\ scopes \in Seq(Pool) /\ Sound(scopes) /\ Len(scopes) > 0
      /\ Seen = SeenIn(scopes) /\ Seen # <<>>
  BY <1>1, PoolsHere
<1>3. PICK grow \in Grow : scopes' = Assigned(scopes, SIGL, Number, grow)
  BY DEF Call
<1>4. SIGL \in Names /\ SIGL \notin Stems /\ Number \in Values
  BY PoolAssumption DEF Names
<1>5. Sound(scopes') /\ SeenIn(scopes') = Promise!Assigned(SeenIn(scopes), SIGL, Number)
  BY <1>2, <1>3, <1>4, GrowNat, AssignedSeen
<1>6. Fresh'
  BY <1>1 DEF Fresh
<1> QED
  BY <1>2, <1>4, <1>5, <1>6, SameNames DEF Promise!Assign, Seen

\* PROCEDURE starts a scope.
LEMMA EnterSims ==
  ASSUME ShareInv, NEW a \in Addrs, Start(a) \/ Procedure(a)
  PROVE  Sound(scopes') /\ Fresh' /\ (Promise!Start \/ Promise!Enter)
<1>1. /\ scopes \in Seq(Pool) /\ Sound(scopes) /\ AddrsDiffer(scopes)
      /\ DOMAIN scopes = 1 .. Len(scopes) /\ Len(scopes) \in Nat
  BY DEF ShareInv, CacheInv, Typed
<1>2. /\ scopes' = Append(scopes, NewPool(a))
      /\ \A k \in 1 .. Len(scopes) : scopes[k].addr # a
  <2>1. CASE Start(a)
    BY <2>1 DEF Start
  <2>2. CASE Procedure(a)
    BY <1>1, <2>2 DEF Procedure
  <2> QED
    BY <2>1, <2>2
<1>3. Sound(scopes') /\ SeenIn(scopes') = Append(SeenIn(scopes), Promise!NewScope)
  BY <1>1, <1>2, EnteredSeen
<1>4. Fresh'
  <2>1. Len(scopes') = Len(scopes) + 1 /\ scopes'[Len(scopes) + 1] = NewPool(a)
    BY <1>1, <1>2, NewPools
  <2>2. Depth' = Len(scopes) + 1
    BY <2>1 DEF Depth
  <2>3. \A n \in Names : scopes'[Depth'].entry[n] = Absent
    BY <2>1, <2>2 DEF NewPool
  <2> QED
    BY <2>3 DEF Fresh
<1>5. CASE scopes = <<>>
  <2>1. SeenIn(scopes) = <<>>
    <3>1. SeenIn(scopes) \in Seq(View) /\ Len(SeenIn(scopes)) = 0
      BY <1>5, SeenIs, <1>1
    <3> QED
      BY <3>1
  <2>2. SeenIn(scopes') = <<Promise!NewScope>>
    BY <1>3, <2>1
  <2>3. Promise!Start
    BY <2>1, <2>2 DEF Promise!Start, Seen
  <2> QED
    BY <1>3, <1>4, <2>3
<1>6. CASE scopes # <<>>
  <2>1. SeenIn(scopes) # <<>>
    <3>1. SeenIn(scopes) \in Seq(View) /\ Len(SeenIn(scopes)) = Len(scopes)
      BY SeenIs, <1>1
    <3> QED
      BY <1>1, <1>6, <3>1
  <2>2. Promise!Enter
    BY <1>3, <2>1 DEF Promise!Enter, Seen
  <2> QED
    BY <1>3, <1>4, <2>2
<1> QED
  BY <1>5, <1>6

\* RETURN ends a scope that PROCEDURE started; otherwise RESULT is dropped or
\* set in the scope the routine shares with its caller.
LEMMA ReturnSims ==
  ASSUME ShareInv, NEW v \in Values, ReturnPlain \/ ReturnValue(v)
  PROVE  /\ Sound(scopes') /\ Fresh'
         /\ Promise!Leave \/ Promise!Drop(RESULT) \/ Promise!Assign(RESULT, v)
<1>1. Running /\ at' = "body" /\ frames # <<>>
  BY DEF ReturnPlain, ReturnValue
<1>2. /\ scopes \in Seq(Pool) /\ Sound(scopes) /\ Len(scopes) > 0 /\ Depth = Len(scopes)
      /\ AddrsDiffer(scopes)
      /\ Seen = SeenIn(scopes) /\ Seen # <<>> /\ Len(Seen) = Len(scopes)
  BY <1>1, PoolsHere
<1>3. Fresh'
  BY <1>1 DEF Fresh
<1>4. RESULT \in Names /\ RESULT \notin Stems
  BY PoolAssumption DEF Names
<1>5. CASE Top(frames).isolated
  <2> DEFINE p == Popped(scopes, 1)
  <2>1. Len(scopes) > 1
    <3>1. frames \in Seq(Frame) /\ Len(scopes) >= 1 + Own(frames, Len(frames))
      BY <1>1, <1>2 DEF ShareInv, CacheInv, Typed, DepthInv
    <3>2. /\ Own(frames, Len(frames)) = Own(Popped(frames, 1), Len(frames) - 1) + 1
          /\ Len(frames) - 1 \in Nat
      BY <1>1, <1>5, <3>1, PoppedFrames
    <3>3. Own(Popped(frames, 1), Len(frames) - 1) \in Nat
      BY <3>2, OwnNat
    <3> QED
      BY <1>2, <3>1, <3>2, <3>3
  <2>2. /\ p \in Seq(Pool) /\ Len(p) = Len(scopes) - 1 /\ Sound(p)
        /\ SeenIn(p) = SubSeq(SeenIn(scopes), 1, Len(scopes) - 1)
    <3>1. 1 \in 0 .. Len(scopes)
      BY <1>2
    <3> QED
      BY <1>2, <3>1, PoppedSeen
  <2>3. scopes' = p \/ \E grow \in Grow : scopes' = Assigned(p, RESULT, v, grow)
    BY <1>5 DEF ReturnPlain, ReturnValue
  <2> HIDE DEF p
  <2>4. CASE scopes' = p
    <3>1. Promise!Leave
      BY <1>2, <2>1, <2>2, <2>4 DEF Promise!Leave, Promise!Outer, Seen
    <3> QED
      BY <1>3, <2>2, <2>4, <3>1
  <2>5. ASSUME NEW grow \in Grow, scopes' = Assigned(p, RESULT, v, grow)
        PROVE  Sound(scopes') /\ Promise!Leave
    <3>1. Len(p) > 0 /\ grow \in Nat
      BY <2>1, <2>2, GrowNat
    <3>2. Sound(scopes') /\ SeenIn(scopes') = Promise!Assigned(SeenIn(p), RESULT, v)
      BY <1>4, <2>2, <2>5, <3>1, AssignedSeen
    <3>3. Promise!Leave
      BY <1>2, <2>1, <2>2, <3>2 DEF Promise!Leave, Promise!Outer, Seen
    <3> QED
      BY <3>2, <3>3
  <2> QED
    BY <1>3, <2>3, <2>4, <2>5
<1>6. CASE ~Top(frames).isolated /\ ReturnPlain
  <2>1. scopes' = Freed(scopes, DropFrees(scopes, Len(scopes), RESULT))
    BY <1>2, <1>6 DEF ReturnPlain
  <2>2. /\ Sound(scopes')
        /\ SeenIn(scopes') = Promise!Dropped(SeenIn(scopes), Len(scopes), {RESULT})
    BY <1>2, <1>4, <2>1, DroppedSeen
  <2>3. Promise!Drop(RESULT)
    BY <1>2, <1>4, <2>2, SameNames DEF Promise!Drop, Seen
  <2> QED
    BY <1>3, <2>2, <2>3
<1>7. CASE ~Top(frames).isolated /\ ReturnValue(v)
  <2>1. PICK grow \in Grow : scopes' = Assigned(scopes, RESULT, v, grow)
    BY <1>7 DEF ReturnValue
  <2>2. Sound(scopes') /\ SeenIn(scopes') = Promise!Assigned(SeenIn(scopes), RESULT, v)
    BY <1>2, <1>4, <2>1, GrowNat, AssignedSeen
  <2>3. Promise!Assign(RESULT, v)
    BY <1>2, <1>4, <2>2, SameNames DEF Promise!Assign, Seen
  <2> QED
    BY <1>3, <2>2, <2>3
<1> QED
  BY <1>5, <1>6, <1>7

\* SIGNAL and traps are left with the exec's own scope.
LEMMA SignalSims ==
  ASSUME ShareInv, Signal
  PROVE  Sound(scopes') /\ Fresh' /\ Promise!Abandon
<1>1. Running /\ at' = "body"
  BY DEF Signal
<1>2. /\ scopes \in Seq(Pool) /\ Sound(scopes) /\ Len(scopes) > 0 /\ Depth = Len(scopes)
      /\ AddrsDiffer(scopes) /\ Len(scopes) \in Nat
      /\ Seen = SeenIn(scopes) /\ Seen # <<>>
  BY <1>1, PoolsHere
<1>3. Fresh'
  BY <1>1 DEF Fresh
<1>4. Isolated \in 0 .. Len(scopes) /\ Len(scopes) - Isolated = 1
  <2>1. Isolated = Own(frames, Len(frames)) /\ Isolated \in Nat
    BY IsolatedIsOwn DEF ShareInv, CacheInv, Typed
  <2>2. Len(scopes) = 1 + Own(frames, Len(frames))
    BY <1>1, <1>2 DEF ShareInv, ScopeInv
  <2> QED
    BY <1>2, <2>1, <2>2
<1> DEFINE p == Popped(scopes, Isolated)
<1>5. /\ p \in Seq(Pool) /\ Len(p) = 1 /\ Sound(p)
      /\ SeenIn(p) = SubSeq(SeenIn(scopes), 1, 1)
  BY <1>2, <1>4, PoppedSeen
<1>6. PICK grow \in Grow, more \in Grow :
        \/ scopes' = Assigned(p, SIGL, Number, grow)
        \/ scopes' = Assigned(Assigned(p, SIGL, Number, grow), RC, Number, more)
  BY DEF Signal
<1> DEFINE u == Assigned(p, SIGL, Number, grow)
<1>7. SIGL \in Names /\ RC \in Names /\ Number \in Values
  BY PoolAssumption DEF Names
<1> HIDE DEF p
<1>8. /\ u \in Seq(Pool) /\ Len(u) = 1 /\ Sound(u)
      /\ SeenIn(u) = Promise!Assigned(SeenIn(p), SIGL, Number)
  <2>1. Len(p) > 0 /\ grow \in Nat
    BY <1>5, GrowNat
  <2> QED
    BY <1>5, <1>7, <2>1, AssignedSeen
<1>9. scopes' = u \/ scopes' = Assigned(u, RC, Number, more)
  BY <1>6
<1> HIDE DEF u
<1>10. /\ Sound(Assigned(u, RC, Number, more))
       /\ SeenIn(Assigned(u, RC, Number, more)) = Promise!Assigned(SeenIn(u), RC, Number)
  BY <1>7, <1>8, GrowNat, AssignedSeen
<1>11. /\ Sound(scopes')
       /\ \/ SeenIn(scopes') = SeenIn(u)
          \/ SeenIn(scopes') = Promise!Assigned(SeenIn(u), RC, Number)
  BY <1>8, <1>9, <1>10
<1>12. Promise!Abandon
  BY <1>2, <1>5, <1>8, <1>11 DEF Promise!Abandon, Promise!Outer, Seen
<1> QED
  BY <1>3, <1>11, <1>12

LEMMA EndSims ==
  ASSUME ShareInv, End
  PROVE  Sound(scopes') /\ Fresh' /\ Promise!End
<1>1. Running /\ at' = "ended"
  BY DEF End
<1>2. /\ scopes \in Seq(Pool) /\ Sound(scopes) /\ Len(scopes) > 0 /\ Depth = Len(scopes)
      /\ AddrsDiffer(scopes) /\ Len(scopes) \in Nat
  BY <1>1, PoolsHere
<1>3. Isolated + 1 = Len(scopes)
  <2>1. Isolated = Own(frames, Len(frames)) /\ Isolated \in Nat
    BY IsolatedIsOwn DEF ShareInv, CacheInv, Typed
  <2>2. Len(scopes) = 1 + Own(frames, Len(frames))
    BY <1>1, <1>2 DEF ShareInv, ScopeInv
  <2> QED
    BY <1>2, <2>1, <2>2
<1> DEFINE p == Popped(scopes, Len(scopes))
<1>4. p \in Seq(Pool) /\ Len(p) = 0 /\ Sound(p)
  BY <1>2, PoppedSeen
<1>5. scopes' = p
  BY <1>3 DEF End
<1> HIDE DEF p
<1>6. SeenIn(p) = <<>>
  <2>1. SeenIn(p) \in Seq(View) /\ Len(SeenIn(p)) = 0
    BY <1>4, SeenIs
  <2> QED
    BY <2>1
<1> QED
  BY <1>1, <1>4, <1>5, <1>6 DEF Promise!End, Seen, Fresh

\* EXPOSE of a stem.
LEMMA ExposeStemSims ==
  ASSUME ShareInv, ~Overlap, NEW m \in Stems, ExposeStem(m)
  PROVE  Linked(scopes') /\ Fresh' /\ Promise!Share(m)
<1>1. at = "expose" /\ Running /\ ~Overlaps(m)
  BY DEF ExposeStem, Running
<1>2. /\ scopes \in Seq(Pool) /\ Sound(scopes) /\ Depth = Len(scopes) /\ Len(scopes) > 1
      /\ Len(scopes) \in 1 .. Len(scopes) /\ DOMAIN scopes = 1 .. Len(scopes)
      /\ Seen = SeenIn(scopes) /\ Top(scopes) = scopes[Depth]
  BY <1>1, PoolsHere DEF ShareInv, CacheInv, DepthInv, Top
<1> DEFINE d == Len(scopes)
           g == Bump(scopes[d].gen, 1)
           x == scopes[d].exposed \cup {m}
           p == [scopes[d] EXCEPT !.exposed = x, !.gen = g]
           q == SeenIn(scopes)
           r == [q EXCEPT ![d].stems = @ \cup {m}]
<1>3. /\ scopes' \in Seq(Pool) /\ scopes' = [scopes EXCEPT ![d] = p]
      /\ scopes[d] \in Pool
  <2>1. StepOK
    BY ExposeStemStep DEF ShareInv
  <2>2. scopes' = [scopes EXCEPT ![d] = p]
    BY <1>2 DEF ExposeStem
  <2> QED
    BY <1>2, <2>1, <2>2 DEF StepOK, CacheInv, Typed
<1> HIDE DEF g, x
<1>4. p.exposed = x /\ p.entry = scopes[d].entry
  BY <1>3 DEF Pool
<1> HIDE DEF p
<1>5. /\ Len(scopes') = d /\ scopes'[d] = p
      /\ \A j \in 1 .. d : j # d => scopes'[j] = scopes[j]
  BY <1>2, <1>3
<1>6. \A j \in 1 .. d, n \in Names : scopes'[j].entry[n] = scopes[j].entry[n]
  BY <1>4, <1>5
<1>7. Linked(scopes')
  <2> SUFFICES ASSUME NEW j \in 1 .. d, NEW n \in Names, scopes'[j].entry[n] = Ref
               PROVE  /\ j > 1 /\ scopes'[j - 1].entry[n] # Absent
                      /\ ~Delegates(scopes', j - 1, n)
    BY <1>5 DEF Linked
  <2>1. j > 1 /\ scopes[j - 1].entry[n] # Absent /\ ~Delegates(scopes, j - 1, n)
    BY <1>2, <1>6 DEF Sound, Linked
  <2>2. j - 1 \in 1 .. d /\ j - 1 # d
    BY <1>2, <2>1
  <2> QED
    BY <1>5, <1>6, <2>1, <2>2 DEF Delegates
<1>8. q \in Seq(View) /\ Len(q) = d /\ q[d] \in View
  BY <1>2, SeenIs
<1>9. /\ r \in Seq(View) /\ Len(r) = d
      /\ r[d].stems = q[d].stems \cup {m} /\ r[d].shared = q[d].shared /\ r[d].val = q[d].val
      /\ \A j \in 1 .. d : j # d => r[j] = q[j]
  <2> DEFINE w == [q[d] EXCEPT !.stems = @ \cup {m}]
  <2>1. w \in View /\ w.stems = q[d].stems \cup {m} /\ w.shared = q[d].shared
        /\ w.val = q[d].val
    BY <1>8 DEF View
  <2>2. r = [q EXCEPT ![d] = w]
    BY <1>2, <1>8
  <2> HIDE DEF w, q, r
  <2> QED
    BY <1>2, <1>8, <2>1, <2>2
<1> HIDE DEF r
<1>10. ASSUME NEW j \in 1 .. d
       PROVE  /\ SeenIn(scopes')[j].stems = r[j].stems
              /\ \A n \in Names : /\ n \in SeenIn(scopes')[j].shared <=> n \in r[j].shared
                                  /\ SeenIn(scopes')[j].val[n] = r[j].val[n]
  <2>1. /\ SeenIn(scopes')[j].stems = scopes'[j].exposed
        /\ \A n \in Names :
             /\ n \in SeenIn(scopes')[j].shared <=> scopes'[j].entry[n] = Ref
             /\ SeenIn(scopes')[j].val[n] = IF scopes'[j].entry[n] \in Values
                                            THEN scopes'[j].entry[n] ELSE Unset
    <3>1. scopes' \in Seq(Pool) /\ j \in 1 .. Len(scopes')
      BY <1>3, <1>5
    <3> QED
      BY <3>1, SeenIs
  <2>2. /\ q[j].stems = scopes[j].exposed
        /\ \A n \in Names :
             /\ n \in q[j].shared <=> scopes[j].entry[n] = Ref
             /\ q[j].val[n] = IF scopes[j].entry[n] \in Values
                              THEN scopes[j].entry[n] ELSE Unset
    BY <1>2, SeenIs
  <2> HIDE DEF q
  <2>3. SeenIn(scopes')[j].stems = r[j].stems
    BY <1>4, <1>5, <1>9, <2>1, <2>2 DEF x
  <2> QED
    BY <1>6, <1>9, <2>1, <2>2, <2>3
<1>11. SeenIn(scopes') = r
  <2>1. SeenIn(scopes') \in Seq(View) /\ Len(SeenIn(scopes')) = d
    BY <1>3, <1>5, SeenIs
  <2> QED
    BY <1>9, <1>10, <2>1, SameViews
<1>12. Promise!Share(m)
  BY <1>2, <1>8, <1>11, SameNames DEF Promise!Share, Seen, r
<1>13. Fresh'
  <2>1. Depth' = d
    BY <1>5 DEF Depth
  <2> QED
    BY <1>1, <1>2, <1>6, <2>1 DEF Fresh, ShareInv
<1> QED
  BY <1>7, <1>12, <1>13

\* EXPOSE of any other name: the reference, and the placeholder if the variable
\* is not in the caller's pool.
LEMMA ExposeVarSims ==
  ASSUME ShareInv, ~Overlap, NEW n \in Names \ Stems, ExposeVar(n)
  PROVE  Sound(scopes') /\ Fresh' /\ Promise!Share(n)
<1>1. at = "expose" /\ Running /\ ~Overlaps(n)
  BY DEF ExposeVar, Running
<1>2. /\ scopes \in Seq(Pool) /\ Sound(scopes) /\ Depth = Len(scopes) /\ Len(scopes) > 1
      /\ Len(scopes) \in 1 .. Len(scopes) /\ DOMAIN scopes = 1 .. Len(scopes)
      /\ Seen = SeenIn(scopes) /\ Top(scopes) = scopes[Depth]
  BY <1>1, PoolsHere DEF ShareInv, CacheInv, DepthInv, Top
<1> DEFINE d == Len(scopes)
           F == IF scopes[d].entry[n] = Absent THEN {} ELSE {<<d, n>>}
           s == Freed(scopes, F)
           up(g) == IF s[d - 1].entry[n] # Absent THEN s ELSE Put(s, d - 1, n, Unset, g)
<1>3. d - 1 \in 1 .. d /\ d \in 1 .. d /\ d - 1 # d
  BY <1>2
<1>4. PICK g \in Grow, grow \in Grow : scopes' = Put(up(g), d, n, Ref, 1 + grow)
  BY <1>2 DEF ExposeVar
<1>5. ~Delegates(scopes, d, n) /\ ~Delegates(scopes, d - 1, n)
  <2>1. n \notin Compounds => StemsOf(n) = {}
    BY DEF StemsOf
  <2> QED
    BY <1>1, <1>2, <2>1 DEF Overlaps, Delegates
<1>6. scopes[d].entry[n] \in {Absent, Ref}
  BY <1>1, <1>2 DEF ShareInv, Fresh
<1>7. Closed(scopes, F)
  BY <1>2 DEF Closed
<1>8. \A j \in 1 .. d, m \in Names :
         <<j, m>> \in F <=> j = d /\ m = n /\ scopes[d].entry[n] # Absent
  OBVIOUS
<1> HIDE DEF F
<1>9. /\ s \in Seq(Pool) /\ Len(s) = d /\ Sound(s)
      /\ \A j \in 1 .. d : s[j].exposed = scopes[j].exposed
      /\ \A j \in 1 .. d, m \in Names :
            s[j].entry[m] = IF j = d /\ m = n THEN Absent ELSE scopes[j].entry[m]
  <2>1. Later(scopes, s) /\ \A j \in 1 .. d : s[j].exposed = scopes[j].exposed
    BY <1>2, FreedLater
  <2>2. /\ Sound(s)
        /\ \A j \in 1 .. d, m \in Names :
              s[j].entry[m] = IF <<j, m>> \in F THEN Absent ELSE scopes[j].entry[m]
    BY <1>2, <1>7, SoundFreed
  <2> HIDE DEF s
  <2>3. s \in Seq(Pool) /\ Len(s) = d
    BY <1>2, <2>1 DEF Later
  <2>4. \A j \in 1 .. d, m \in Names :
           s[j].entry[m] = IF j = d /\ m = n THEN Absent ELSE scopes[j].entry[m]
    <3> SUFFICES ASSUME NEW j \in 1 .. d, NEW m \in Names
                 PROVE  s[j].entry[m]
                          = IF j = d /\ m = n THEN Absent ELSE scopes[j].entry[m]
      OBVIOUS
    <3>1. <<j, m>> \in F <=> j = d /\ m = n /\ scopes[d].entry[n] # Absent
      BY <1>8
    <3> QED
      BY <2>2, <3>1
  <2> QED
    BY <2>1, <2>2, <2>3, <2>4
<1> HIDE DEF s
<1>10. /\ Unset \in Entry \ {Dangling, Absent} /\ Unset \in Entry /\ Unset # Ref
       /\ Ref \in Entry \ {Dangling, Absent} /\ Ref \in Entry
       /\ g \in Nat /\ 1 + grow \in Nat
  BY MarksDiffer, GrowNat DEF Entry
<1> DEFINE u == up(g)
<1>11. /\ u \in Seq(Pool) /\ Len(u) = d /\ Sound(u)
       /\ \A j \in 1 .. d : u[j].exposed = scopes[j].exposed
       /\ \A j \in 1 .. d, m \in Names :
             u[j].entry[m] = IF j = d - 1 /\ m = n /\ s[d - 1].entry[n] = Absent
                             THEN Unset ELSE s[j].entry[m]
  <2>1. CASE s[d - 1].entry[n] # Absent
    BY <1>9, <2>1
  <2>2. CASE s[d - 1].entry[n] = Absent
    <3>1. u = Put(s, d - 1, n, Unset, g)
      BY <2>2
    <3>2. Unset = Ref => FALSE
      BY <1>10
    <3> HIDE DEF u, up
    <3>3. /\ u \in Seq(Pool) /\ Len(u) = d /\ Sound(u)
          /\ \A j \in 1 .. d : u[j].exposed = s[j].exposed
          /\ \A j \in 1 .. d, m \in Names :
                u[j].entry[m] = IF j = d - 1 /\ m = n THEN Unset ELSE s[j].entry[m]
      BY <1>3, <1>9, <1>10, <3>1, <3>2, SoundPut
    <3> QED
      BY <1>9, <2>2, <3>3
  <2> QED
    BY <2>1, <2>2
<1>12. scopes' = Put(u, d, n, Ref, 1 + grow)
  BY <1>4
<1> HIDE DEF u, up
<1>13. /\ ~Delegates(u, d, n) /\ d > 1
       /\ u[d - 1].entry[n] # Absent /\ ~Delegates(u, d - 1, n)
  BY <1>2, <1>3, <1>5, <1>10, <1>11 DEF Delegates
<1>14. /\ scopes' \in Seq(Pool) /\ Len(scopes') = d /\ Sound(scopes')
       /\ \A j \in 1 .. d : scopes'[j].exposed = scopes[j].exposed
       /\ \A j \in 1 .. d, m \in Names :
             scopes'[j].entry[m] = IF j = d /\ m = n THEN Ref ELSE u[j].entry[m]
  <2>1. /\ scopes' \in Seq(Pool) /\ Len(scopes') = d /\ Sound(scopes')
        /\ \A j \in 1 .. d : scopes'[j].exposed = u[j].exposed
        /\ \A j \in 1 .. d, m \in Names :
              scopes'[j].entry[m] = IF j = d /\ m = n THEN Ref ELSE u[j].entry[m]
    <3>1. u \in Seq(Pool) /\ Sound(u) /\ Len(u) = d /\ d \in 1 .. Len(u)
      BY <1>3, <1>11
    <3>2. Ref \in Entry \ {Dangling, Absent} /\ 1 + grow \in Nat
      BY <1>10
    <3> DEFINE w == Put(u, d, n, Ref, 1 + grow)
    <3>3. /\ w \in Seq(Pool) /\ Len(w) = Len(u) /\ Sound(w)
          /\ \A j \in 1 .. Len(u) : w[j].exposed = u[j].exposed
          /\ \A j \in 1 .. Len(u), m \in Names :
                w[j].entry[m] = IF j = d /\ m = n THEN Ref ELSE u[j].entry[m]
      BY <1>13, <3>1, <3>2, SoundPut
    <3> HIDE DEF w
    <3>4. scopes' = w
      BY <1>12 DEF w
    <3> QED
      BY <3>1, <3>3, <3>4
  <2> QED
    BY <1>11, <2>1
<1>15. \A j \in 1 .. d, m \in Names :
         scopes'[j].entry[m] = IF j = d /\ m = n THEN Ref
                               ELSE IF j = d - 1 /\ m = n /\ scopes[j].entry[m] = Absent
                               THEN Unset ELSE scopes[j].entry[m]
  BY <1>3, <1>9, <1>11, <1>14
<1> DEFINE q == SeenIn(scopes)
           r == [q EXCEPT ![d].shared = @ \cup {n}]
<1>16. q \in Seq(View) /\ Len(q) = d /\ q[d] \in View
  BY <1>2, SeenIs
<1>17. /\ r \in Seq(View) /\ Len(r) = d
       /\ r[d].shared = q[d].shared \cup {n} /\ r[d].stems = q[d].stems /\ r[d].val = q[d].val
       /\ \A j \in 1 .. d : j # d => r[j] = q[j]
  <2> DEFINE w == [q[d] EXCEPT !.shared = @ \cup {n}]
  <2>1. w \in View /\ w.shared = q[d].shared \cup {n} /\ w.stems = q[d].stems
        /\ w.val = q[d].val
    BY <1>16 DEF View
  <2>2. r = [q EXCEPT ![d] = w]
    BY <1>2, <1>16
  <2> HIDE DEF w, q, r
  <2> QED
    BY <1>2, <1>16, <2>1, <2>2
<1> HIDE DEF r
<1>18. ASSUME NEW j \in 1 .. d
       PROVE  /\ SeenIn(scopes')[j].stems = r[j].stems
              /\ \A m \in Names : /\ m \in SeenIn(scopes')[j].shared <=> m \in r[j].shared
                                  /\ SeenIn(scopes')[j].val[m] = r[j].val[m]
  <2>1. /\ SeenIn(scopes')[j].stems = scopes'[j].exposed
        /\ \A m \in Names :
             /\ m \in SeenIn(scopes')[j].shared <=> scopes'[j].entry[m] = Ref
             /\ SeenIn(scopes')[j].val[m] = IF scopes'[j].entry[m] \in Values
                                            THEN scopes'[j].entry[m] ELSE Unset
    BY <1>14, SeenIs
  <2>2. /\ q[j].stems = scopes[j].exposed
        /\ \A m \in Names :
             /\ m \in q[j].shared <=> scopes[j].entry[m] = Ref
             /\ q[j].val[m] = IF scopes[j].entry[m] \in Values
                              THEN scopes[j].entry[m] ELSE Unset
    BY <1>2, SeenIs
  <2> HIDE DEF q
  <2>3. SeenIn(scopes')[j].stems = r[j].stems
    BY <1>14, <1>17, <2>1, <2>2
  <2>4. ASSUME NEW m \in Names
        PROVE  /\ m \in SeenIn(scopes')[j].shared <=> m \in r[j].shared
               /\ SeenIn(scopes')[j].val[m] = r[j].val[m]
    <3>1. CASE j = d /\ m = n
      BY <1>6, <1>15, <1>17, <2>1, <2>2, <3>1, MarksDiffer
    <3>2. CASE ~(j = d /\ m = n)
      <4>1. m \in r[j].shared <=> m \in q[j].shared
        BY <1>17, <3>2
      <4>2. r[j].val[m] = q[j].val[m]
        BY <1>17
      <4> QED
        BY <1>15, <2>1, <2>2, <3>2, <4>1, <4>2, MarksDiffer
    <3> QED
      BY <3>1, <3>2
  <2> QED
    BY <2>3, <2>4
<1>19. SeenIn(scopes') = r
  <2>1. SeenIn(scopes') \in Seq(View) /\ Len(SeenIn(scopes')) = d
    BY <1>14, SeenIs
  <2> QED
    BY <1>17, <1>18, <2>1, SameViews
<1>20. Promise!Share(n)
  BY <1>2, <1>16, <1>19, SameNames DEF Promise!Share, Seen, r
<1>21. Fresh'
  <2>1. Depth' = d
    BY <1>14 DEF Depth
  <2>2. \A m \in Names : scopes[d].entry[m] \in {Absent, Ref}
    BY <1>1, <1>2 DEF Fresh, ShareInv
  <2> QED
    BY <1>3, <1>15, <2>1, <2>2 DEF Fresh
<1> QED
  BY <1>14, <1>20, <1>21

LEMMA ShareStep ==
  ASSUME ProcFirst, ~Overlap, ShareInv, [Next]_vars
  PROVE  ShareInv' /\ (Promise!Next \/ UNCHANGED Seen)
<1>1. StepOK
  BY StepsOK DEF ShareInv
<1>2. CacheInv' /\ ScopeInv'
  BY <1>1 DEF StepOK, ShareInv
<1> DEFINE Sim == Sound(scopes') /\ Fresh' /\ (Promise!Next \/ UNCHANGED Seen)
<1>3. ASSUME NEW a \in Addrs, Start(a) \/ Procedure(a) PROVE Sim
  BY <1>3, EnterSims DEF Promise!Next
<1>4. ASSUME NEW v \in Values, NEW n \in Mentions \ Stems, Assign(n, v) PROVE Sim
  <2>1. n \in Names /\ n \notin Stems
    BY PoolAssumption
  <2> QED
    BY <1>4, <2>1, AssignSims, SameNames DEF Promise!Next
<1>5. ASSUME NEW v \in Values, NEW m \in Mentions \cap Stems, AssignStem(m, v) PROVE Sim
  <2>1. m \in Names /\ m \in Stems
    BY PoolAssumption
  <2> QED
    BY <1>5, <2>1, AssignSims, SameNames DEF Promise!Next
<1>6. ASSUME NEW n \in Mentions, Drop(n) PROVE Sim
  <2>1. n \in Names
    BY PoolAssumption
  <2> QED
    BY <1>6, <2>1, DropSims, SameNames DEF Promise!Next
<1>7. RESULT \in Names /\ SIGL \in Names /\ Number \in Values
  BY PoolAssumption DEF Names
<1>8. ASSUME NEW v \in Values, ReturnPlain \/ ReturnValue(v) PROVE Sim
  BY <1>7, <1>8, ReturnSims, SameNames DEF Promise!Next
<1>9. ASSUME Call PROVE Sim
  BY <1>7, <1>9, CallSims, SameNames DEF Promise!Next
<1>10. ASSUME Signal PROVE Sim
  BY <1>10, SignalSims DEF Promise!Next
<1>11. ASSUME End PROVE Sim
  BY <1>11, EndSims DEF Promise!Next
<1>12. ASSUME NEW m \in Mentions \cap Stems, ExposeStem(m) PROVE Sim
  <2>1. m \in Names /\ m \in Stems
    BY PoolAssumption
  <2>2. Linked(scopes') /\ Fresh' /\ Promise!Share(m)
    BY <1>12, <2>1, ExposeStemSims
  <2>3. RefInv'
    BY <1>12, <2>1, ExposeRefs DEF ShareInv, Sound, RefInv
  <2>4. Sound(scopes')
    BY <2>2, <2>3 DEF RefInv, Sound
  <2> QED
    BY <2>1, <2>2, <2>4, SameNames DEF Promise!Next
<1>13. ASSUME NEW n \in Mentions \ Stems, ExposeVar(n) PROVE Sim
  <2>1. n \in Names \ Stems
    BY PoolAssumption
  <2> QED
    BY <1>13, <2>1, ExposeVarSims, SameNames DEF Promise!Next
<1>14. ASSUME NEW n \in Cached, Load(n) PROVE Sim
  <2>1. scopes' = scopes /\ at' = "body"
    BY <1>14 DEF Load
  <2> QED
    BY <2>1 DEF ShareInv, Fresh, Seen
<1>15. ASSUME UNCHANGED vars PROVE Sim
  <2>1. scopes' = scopes /\ at' = at
    BY <1>15 DEF vars
  <2> QED
    BY <2>1 DEF ShareInv, Fresh, Seen, Depth
<1>16. Sim
  <2>1. CASE Next
    <3> HIDE DEF Sim
    <3>1. ASSUME NEW v \in Values, ReturnValue(v) PROVE Sim
      BY <1>8, <3>1
    <3>2. CASE ReturnPlain
      BY <1>7, <1>8, <3>2
    <3> QED
      BY <1>3, <1>4, <1>5, <1>6, <1>9, <1>10, <1>11, <1>12, <1>13, <1>14, <2>1, <3>1, <3>2
         DEF Next
  <2> QED
    BY <1>15, <2>1
<1> QED
  BY <1>2, <1>16 DEF ShareInv

LEMMA ShareInit ==
  ASSUME Init
  PROVE  ShareInv /\ Seen = <<>>
<1>1. scopes = <<>> /\ at = "ended" /\ CacheInv /\ ScopeInv
  BY InitOK DEF Init
<1>2. scopes \in Seq(Pool) /\ Len(scopes) = 0
  BY <1>1
<1>3. SeenIn(scopes) \in Seq(View) /\ Len(SeenIn(scopes)) = 0
  BY <1>2, SeenIs
<1>4. SeenIn(scopes) = <<>>
  BY <1>3
<1>5. Sound(scopes)
  BY <1>2 DEF Sound, RefsOK, Linked
<1> QED
  BY <1>1, <1>4, <1>5 DEF ShareInv, Fresh, Seen

\* The pools do what PROCEDURE EXPOSE promises: as long as EXPOSE names no tail
\* beside its stem, every step of the VM's pools is a step of VarService, whatever
\* the names, however deep the calls.
THEOREM PoolsImplementService ==
  ASSUME ProcFirst, ~Overlap
  PROVE  Spec => ImplementsVarService
<1>1. Init => ShareInv /\ Promise!Init
  BY ShareInit DEF Promise!Init
<1>2. ShareInv /\ [Next]_vars => ShareInv' /\ [Promise!Next]_Seen
  BY ShareStep
<1> QED
  BY <1>1, <1>2, PTL DEF Spec, ImplementsVarService, Promise!Spec

-----------------------------------------------------------------------------
(* Reading a variable.                                                     *)

LEMMA ReadAt ==
  ASSUME NEW s \in Seq(Pool), Sound(s), Len(s) > 0, NEW n \in Names,
         NEW m \in {n} \cup StemsOf(n), NEW k, k = Home(s, Len(s), n)
  PROVE  LET e == s[Target(s, k, m)].entry[m]
         IN  /\ IsSet(s, k, m) <=> Promise!Value(SeenIn(s), m) # Unset
             /\ IsSet(s, k, m) => Promise!Value(SeenIn(s), m) = e
<1> DEFINE h == Home(s, Len(s), m)
           o == Target(s, h, m)
<1>1. m \in Names /\ h = k
  <2>1. CASE m = n
    BY <2>1
  <2>2. CASE m \in StemsOf(n)
    <3>1. m \in Stems
      BY <2>2 DEF StemsOf
    <3>2. m \in Names
      BY <3>1 DEF Names
    <3>3. n \in Under(m)
      BY <2>2 DEF Under
    <3>4. StemsOf(m) = StemsOf(n)
      BY <3>1, <3>3, StemOfTails
    <3> QED
      BY <3>2, <3>4, HomeOfTails
  <2> QED
    BY <2>1, <2>2
<1>2. Len(s) \in 1 .. Len(s)
  OBVIOUS
<1>3. /\ h \in 1 .. Len(s) /\ o \in 1 .. h /\ Promise!Owner(SeenIn(s), Len(s), m) = o
      /\ s[h].entry[m] = Absent <=> s[o].entry[m] = Absent
  BY <1>1, <1>2, OwnedAt
<1> DEFINE e == s[o].entry[m]
<1>4. IsSet(s, k, m) <=> e \in Values
  BY <1>1, <1>3, MarksDiffer DEF IsSet
<1>5. o \in 1 .. Len(s)
  BY <1>3
<1>6. Promise!Value(SeenIn(s), m) = IF e \in Values THEN e ELSE Unset
  <2>1. Len(SeenIn(s)) = Len(s)
    BY SeenIs
  <2>2. SeenIn(s)[o].val[m] = IF e \in Values THEN e ELSE Unset
    BY <1>1, <1>5, SeenIs
  <2> QED
    BY <1>3, <2>1, <2>2 DEF Promise!Value
<1> QED
  BY <1>1, <1>4, <1>6, MarksDiffer

LEMMA ReadsAlike ==
  ASSUME NEW s \in Seq(Pool), Sound(s), Len(s) > 0, NEW n \in Names
  PROVE  Get(s, n) = Promise!Read(SeenIn(s), n)
<1> DEFINE k == Home(s, Len(s), n)
           q == SeenIn(s)
           found == {m \in {n} \cup StemsOf(n) : IsSet(s, k, m)}
           set == {m \in {n} \cup Promise!StemsOf(n) : Promise!Value(q, m) # Unset}
           at1(m) == s[Target(s, k, m)].entry[m]
<1>1. ASSUME NEW m \in {n} \cup StemsOf(n)
      PROVE  /\ IsSet(s, k, m) <=> Promise!Value(q, m) # Unset
             /\ IsSet(s, k, m) => Promise!Value(q, m) = at1(m)
  BY <1>1, ReadAt
<1>2. found = set
  BY <1>1, SameNames
<1>3. \A m \in found : Promise!Value(q, m) = at1(m)
  BY <1>1
<1>4. /\ Get(s, n) = IF n \in found THEN at1(n) ELSE IF found = {} THEN Unset
                     ELSE at1(CHOOSE m \in found : TRUE)
      /\ Promise!Read(q, n) = IF n \in set THEN Promise!Value(q, n)
                              ELSE IF set = {} THEN Unset
                              ELSE Promise!Value(q, CHOOSE m \in set : TRUE)
  BY DEF Get, Promise!Read
<1> HIDE DEF found, set, at1, q
<1>5. found # {} => (CHOOSE m \in found : TRUE) \in found
  OBVIOUS
<1> QED
  BY <1>2, <1>3, <1>4, <1>5 DEF q

\* Every variable reads as the promise says, the stem's default included, in
\* every state of any program whose EXPOSE names no tail beside its stem.
THEOREM VariablesReadAsPromised ==
  ASSUME ProcFirst, ~Overlap
  PROVE  Spec => []ReadsAsPromised
<1>1. Init => ShareInv
  BY ShareInit
<1>2. ShareInv /\ [Next]_vars => ShareInv'
  BY ShareStep
<1>3. ShareInv => ReadsAsPromised
  BY PoolsHere, ReadsAlike DEF ReadsAsPromised
<1> QED
  BY <1>1, <1>2, <1>3, PTL DEF Spec
=============================================================================
