--------------------------- MODULE VarPoolProofs ---------------------------
(***************************************************************************)
(* What holds of the pools and the resolution cache for any names, any     *)
(* program and any depth of calls.                                         *)
(***************************************************************************)
EXTENDS VarPool, StackLemmas, FiniteSetTheorems, SequenceTheorems, TLAPS

Pool == [addr : Addrs, gen : 0 .. MaxGen, exposed : SUBSET Stems, entry : [Names -> Entry]]

\* The pools s later: the same, no generation has gone back.
Later(s, t) ==
    /\ s \in Seq(Pool) /\ t \in Seq(Pool) /\ Len(t) = Len(s)
    /\ \A k \in 1 .. Len(s) :
          t[k].addr = s[k].addr /\ s[k].gen <= t[k].gen

-----------------------------------------------------------------------------
(* The operators that change pools.                                        *)

\* A generation only goes up, and does so by a bump unless it is at its bound.
LEMMA BumpUp ==
  ASSUME NEW g \in 0 .. MaxGen, NEW d \in Nat
  PROVE  /\ Bump(g, d) \in 0 .. MaxGen /\ g <= Bump(g, d)
         /\ d > 0 /\ g < MaxGen => g < Bump(g, d)
  BY PoolAssumption DEF Bump

\* A pool of a stack of pools.
LEMMA PoolAt ==
  ASSUME NEW s \in Seq(Pool), NEW k \in 1 .. Len(s)
  PROVE  /\ s[k] \in Pool /\ s[k].gen \in 0 .. MaxGen /\ s[k].gen \in Int
         /\ s[k].addr \in Addrs /\ s[k].entry \in [Names -> Entry]
         /\ s[k].exposed \in SUBSET Stems
<1>1. s[k] \in Pool
  OBVIOUS
<1>2. s[k].gen \in 0 .. MaxGen
  BY <1>1 DEF Pool
<1>3. s[k].gen \in Int
  BY <1>2, PoolAssumption
<1> QED
  BY <1>1, <1>2, <1>3 DEF Pool

LEMMA PoolsOf ==
  ASSUME NEW n \in Nat, NEW t, DOMAIN t = 1 .. n, t = [j \in 1 .. n |-> t[j]],
         \A j \in 1 .. n : t[j] \in Pool
  PROVE  t \in Seq(Pool) /\ Len(t) = n
<1>1. t \in [1 .. n -> Pool]
  OBVIOUS
<1> QED
  BY <1>1

LEMMA LaterIsLater ==
  ASSUME NEW s \in Seq(Pool), NEW t, NEW u
  PROVE  Later(s, s) /\ (Later(s, t) /\ Later(t, u) => Later(s, u))
<1>1. ASSUME NEW p \in Seq(Pool), NEW k \in 1 .. Len(p) PROVE p[k].gen \in Int
  BY PoolAt
<1>2. Later(s, s)
  BY <1>1 DEF Later
<1>3. ASSUME Later(s, t), Later(t, u) PROVE Later(s, u)
  <2>1. \A k \in 1 .. Len(s) : s[k].gen \in Int /\ t[k].gen \in Int /\ u[k].gen \in Int
    BY <1>1, <1>3 DEF Later
  <2> QED
    BY <1>3, <2>1 DEF Later
<1> QED
  BY <1>2, <1>3

\* Put changes one entry, and no generation but that pool's.
LEMMA PutLater ==
  ASSUME NEW s \in Seq(Pool), NEW k, NEW n, NEW e \in Entry, NEW d \in Nat
  PROVE  /\ Later(s, Put(s, k, n, e, d))
         /\ \A j \in 1 .. Len(s), m \in Names :
               Put(s, k, n, e, d)[j].entry[m] =
                 IF j = k /\ m = n THEN e ELSE s[j].entry[m]
<1> DEFINE t == Put(s, k, n, e, d)
<1>1. DOMAIN s = 1 .. Len(s) /\ Len(s) \in Nat
  OBVIOUS
<1>2. t = [j \in 1 .. Len(s) |->
             IF j # k THEN s[j]
             ELSE [s[j] EXCEPT !.entry = [m \in Names |-> IF m = n THEN e ELSE @[m]],
                               !.gen = Bump(@, d)]]
  BY <1>1 DEF Put
<1> HIDE DEF t
<1>3. ASSUME NEW j \in 1 .. Len(s)
      PROVE  /\ t[j] \in Pool /\ t[j].addr = s[j].addr /\ t[j].exposed = s[j].exposed
             /\ s[j].gen <= t[j].gen
             /\ \A m \in Names :
                  t[j].entry[m] = IF j = k /\ m = n THEN e ELSE s[j].entry[m]
  <2>1. s[j] \in Pool
    BY PoolAt
  <2>2. s[j].gen \in 0 .. MaxGen /\ s[j].gen <= s[j].gen
    BY PoolAt
  <2>3. CASE j # k
    BY <1>2, <2>1, <2>2, <2>3
  <2>4. CASE j = k
    <3>1. t[j] = [s[j] EXCEPT !.entry = [m \in Names |-> IF m = n THEN e ELSE @[m]],
                              !.gen = Bump(@, d)]
      BY <1>2, <2>4
    <3>2. Bump(s[j].gen, d) \in 0 .. MaxGen /\ s[j].gen <= Bump(s[j].gen, d)
      BY <2>2, BumpUp
    <3>3. [m \in Names |-> IF m = n THEN e ELSE s[j].entry[m]] \in [Names -> Entry]
      BY <2>1 DEF Pool
    <3> DEFINE x == [m \in Names |-> IF m = n THEN e ELSE s[j].entry[m]]
               g == Bump(s[j].gen, d)
    <3>4. \A m \in Names : x[m] = IF m = n THEN e ELSE s[j].entry[m]
      OBVIOUS
    <3>5. t[j] = [s[j] EXCEPT !.entry = x, !.gen = g]
      BY <3>1
    <3> HIDE DEF x
    <3>6. /\ t[j].entry = x /\ t[j].gen = g /\ t[j].addr = s[j].addr
          /\ t[j].exposed = s[j].exposed
      BY <2>1, <3>5 DEF Pool
    <3>7. t[j] \in Pool
      BY <2>1, <3>2, <3>3, <3>5 DEF Pool, x
    <3> QED
      BY <2>4, <3>2, <3>4, <3>6, <3>7
  <2> QED
    BY <2>3, <2>4
<1>4. t \in Seq(Pool) /\ Len(t) = Len(s)
  <2>1. DOMAIN t = 1 .. Len(s)
    BY <1>2
  <2>2. t = [j \in 1 .. Len(s) |-> t[j]]
    BY <1>2
  <2>3. \A j \in 1 .. Len(s) : t[j] \in Pool
    BY <1>3
  <2> QED
    BY <1>1, <2>1, <2>2, <2>3, PoolsOf
<1> QED
  BY <1>3, <1>4 DEF Later, t

LEMMA PutExposed ==
  ASSUME NEW s \in Seq(Pool), NEW k, NEW n, NEW e, NEW d, NEW j \in 1 .. Len(s)
  PROVE  Put(s, k, n, e, d)[j].exposed = s[j].exposed
<1>1. s[j] \in Pool /\ j \in DOMAIN s
  OBVIOUS
<1>2. Put(s, k, n, e, d)[j] =
        IF j # k THEN s[j]
        ELSE [s[j] EXCEPT !.entry = [m \in Names |-> IF m = n THEN e ELSE @[m]],
                          !.gen = Bump(@, d)]
  BY <1>1 DEF Put
<1> QED
  BY <1>1, <1>2 DEF Pool

\* Freeing entries: they are absent, their pools' generations go up, and what
\* refers to one and stays dangles.
LEMMA FreedLater ==
  ASSUME NEW s \in Seq(Pool), NEW F
  PROVE  /\ Later(s, Freed(s, F))
         /\ \A j \in 1 .. Len(s), m \in Names :
               Freed(s, F)[j].entry[m] =
                 IF <<j, m>> \in F THEN Absent
                 ELSE IF s[j].entry[m] = Ref /\ <<j - 1, m>> \in F THEN Dangling
                 ELSE s[j].entry[m]
         /\ \A j \in 1 .. Len(s) : Freed(s, F)[j].exposed = s[j].exposed
         /\ \A j \in 1 .. Len(s), m \in Names :
               <<j, m>> \in F /\ s[j].gen < MaxGen => s[j].gen < Freed(s, F)[j].gen
<1> DEFINE t == Freed(s, F)
           Gone(j) == {n \in Names : <<j, n>> \in F}
           Left(j) == [n \in Names |->
                         IF <<j, n>> \in F THEN Absent
                         ELSE IF s[j].entry[n] = Ref /\ <<j - 1, n>> \in F THEN Dangling
                         ELSE s[j].entry[n]]
<1>1. DOMAIN s = 1 .. Len(s) /\ Len(s) \in Nat
  OBVIOUS
<1>2. ASSUME NEW j \in 1 .. Len(s)
      PROVE  t[j] = [s[j] EXCEPT !.gen = Bump(@, Cardinality(Gone(j))), !.entry = Left(j)]
  BY <1>1 DEF Freed
<1>3. DOMAIN t = 1 .. Len(s)
  BY <1>1 DEF Freed
<1> HIDE DEF t
<1>4. ASSUME NEW j \in 1 .. Len(s)
      PROVE  /\ t[j] \in Pool /\ t[j].addr = s[j].addr /\ t[j].exposed = s[j].exposed
             /\ s[j].gen <= t[j].gen
             /\ t[j].entry = Left(j)
             /\ \A m \in Names : <<j, m>> \in F /\ s[j].gen < MaxGen => s[j].gen < t[j].gen
  <2>1. s[j] \in Pool /\ s[j].gen \in 0 .. MaxGen
    BY PoolAt
  <2>2. IsFiniteSet(Gone(j)) /\ Cardinality(Gone(j)) \in Nat
    BY PoolAssumption, FS_Subset, FS_CardinalityType
  <2>3. \A m \in Names : <<j, m>> \in F => Cardinality(Gone(j)) > 0
    BY <2>2, FS_EmptySet
  <2>4. Left(j) \in [Names -> Entry]
    BY <2>1 DEF Pool, Entry
  <2> DEFINE c == Cardinality(Gone(j))
             g == Bump(s[j].gen, c)
             e == Left(j)
  <2>5. /\ g \in 0 .. MaxGen /\ s[j].gen <= g
        /\ c > 0 /\ s[j].gen < MaxGen => s[j].gen < g
    BY <2>1, <2>2, BumpUp
  <2>6. t[j] = [s[j] EXCEPT !.gen = g, !.entry = e]
    BY <1>2
  <2> HIDE DEF g, e, c
  <2>7. t[j].gen = g /\ t[j].entry = e /\ t[j].addr = s[j].addr /\ t[j].exposed = s[j].exposed
    BY <2>1, <2>6 DEF Pool
  <2>8. t[j] \in Pool
    BY <2>1, <2>4, <2>5, <2>6 DEF Pool, e
  <2> QED
    BY <2>3, <2>5, <2>7, <2>8 DEF e, c
<1>5. t \in Seq(Pool) /\ Len(t) = Len(s)
  <2>1. t = [j \in 1 .. Len(s) |-> t[j]]
    BY <1>3 DEF t, Freed
  <2>2. \A j \in 1 .. Len(s) : t[j] \in Pool
    BY <1>4
  <2> QED
    BY <1>1, <1>3, <2>1, <2>2, PoolsOf
<1>6. \A j \in 1 .. Len(s), m \in Names :
        t[j].entry[m] = IF <<j, m>> \in F THEN Absent
                        ELSE IF s[j].entry[m] = Ref /\ <<j - 1, m>> \in F THEN Dangling
                        ELSE s[j].entry[m]
  BY <1>4
<1> QED
  BY <1>4, <1>5, <1>6 DEF Later, t

LEMMA AssignedLater ==
  ASSUME NEW s \in Seq(Pool), NEW n, NEW v \in Values, NEW grow \in Nat
  PROVE  Later(s, Assigned(s, n, v, grow))
<1>1. v \in Entry
  BY DEF Entry
<1> QED
  BY <1>1, PutLater DEF Assigned

-----------------------------------------------------------------------------
(* The inductive invariant.                                                *)

Frame == [isolated : BOOLEAN, base : Nat]
Slot == [addr : Addrs \cup {None}, gen : 0 .. MaxGen, ok : BOOLEAN]

AddrsDiffer(s) == \A j, k \in 1 .. Len(s) : s[j].addr = s[k].addr => j = k

\* A slot filled from a pool has a generation that pool had; if its entry was
\* freed since, the pool's generation has gone up.
SlotsOK(s, c) ==
    \A n \in Cached :
        /\ c[n].addr # None => c[n].gen < MaxGen
        /\ \A k \in 1 .. Len(s) :
              c[n].addr = s[k].addr =>
                c[n].gen <= s[k].gen /\ (c[n].ok \/ c[n].gen < s[k].gen)

\* Each call that is isolated has at least a pool; the exec has one as well.
DepthInv ==
    /\ Running => Depth >= 1 + Own(frames, Len(frames))
    /\ ~Running => frames = <<>>
    /\ at = "expose" => Depth > 1

Typed ==
    /\ scopes \in Seq(Pool) /\ frames \in Seq(Frame)
    /\ cache \in [Cached -> Slot] /\ at \in Places

CacheInv == Typed /\ AddrsDiffer(scopes) /\ SlotsOK(scopes, cache) /\ DepthInv

\* When every PROCEDURE is the first clause of its routine, the pools are those
\* calls' own and the exec's.
ScopeInv ==
    /\ Running => Depth = 1 + Own(frames, Len(frames))
    /\ ~Running => scopes = <<>>
    /\ \A i \in 1 .. Len(frames) : frames[i].base = 1 + Own(frames, i - 1)
    /\ at = "label" => frames # <<>> /\ ~Top(frames).isolated

Restored ==
    Len(frames') = Len(frames) - 1 /\ at' # "ended" => Len(scopes') = Top(frames).base

\* What every step does.
StepOK == CacheInv' /\ (ProcFirst /\ ScopeInv => ScopeInv' /\ Restored)

-----------------------------------------------------------------------------
(* Slots.                                                                  *)

LEMMA FlushedOK ==
  ASSUME NEW s \in Seq(Pool)
  PROVE  SlotsOK(s, Flushed) /\ Flushed \in [Cached -> Slot]
<1>1. \A n \in Cached : Flushed[n].addr = None
  BY DEF Flushed, NoSlot
<1>2. \A k \in 1 .. Len(s) : s[k].addr # None
  BY PoolAt, PoolAssumption
<1>3. NoSlot \in Slot
  BY PoolAssumption DEF NoSlot, Slot
<1> QED
  BY <1>1, <1>2, <1>3 DEF SlotsOK, Flushed

\* Slots of freed entries are out of date if the pools' generations went up.
LEMMA StaleOK ==
  ASSUME NEW s \in Seq(Pool), NEW t, Later(s, t), AddrsDiffer(s), NEW F,
         cache \in [Cached -> Slot], SlotsOK(s, cache),
         \A k \in 1 .. Len(s), n \in Cached :
            <<k, n>> \in F /\ s[k].gen < MaxGen => s[k].gen < t[k].gen
  PROVE  SlotsOK(t, Stale(s, F)) /\ Stale(s, F) \in [Cached -> Slot] /\ AddrsDiffer(t)
<1> DEFINE c == Stale(s, F)
<1>1. DOMAIN s = 1 .. Len(s) /\ Len(t) = Len(s)
  BY DEF Later
<1>2. ASSUME NEW n \in Cached
      PROVE  /\ c[n] \in Slot /\ c[n].addr = cache[n].addr /\ c[n].gen = cache[n].gen
             /\ c[n].ok = (cache[n].ok /\ ~\E k \in 1 .. Len(s) :
                                             <<k, n>> \in F /\ s[k].addr = cache[n].addr)
  <2>1. cache[n] \in Slot
    OBVIOUS
  <2>2. c[n] = IF \E k \in 1 .. Len(s) : <<k, n>> \in F /\ s[k].addr = cache[n].addr
               THEN [cache[n] EXCEPT !.ok = FALSE] ELSE cache[n]
    BY <1>1 DEF Stale
  <2> HIDE DEF c
  <2>3. CASE \E k \in 1 .. Len(s) : <<k, n>> \in F /\ s[k].addr = cache[n].addr
    BY <2>1, <2>2, <2>3 DEF Slot
  <2>4. CASE ~\E k \in 1 .. Len(s) : <<k, n>> \in F /\ s[k].addr = cache[n].addr
    <3>1. c[n] = cache[n]
      BY <2>2, <2>4
    <3>2. cache[n].ok \in BOOLEAN
      BY <2>1 DEF Slot
    <3> QED
      BY <2>1, <2>4, <3>1, <3>2
  <2> QED
    BY <2>3, <2>4
<1>3. c \in [Cached -> Slot]
  <2>1. c = [n \in Cached |-> c[n]]
    BY DEF Stale
  <2> HIDE DEF c
  <2> QED
    BY <1>2, <2>1
<1> HIDE DEF c
<1>4. ASSUME NEW n \in Cached, c[n].addr # None PROVE c[n].gen < MaxGen
  BY <1>2, <1>4 DEF SlotsOK
<1>5. ASSUME NEW n \in Cached, NEW k \in 1 .. Len(s), c[n].addr = t[k].addr
      PROVE  c[n].gen <= t[k].gen /\ (c[n].ok \/ c[n].gen < t[k].gen)
  <2>1. s[k].gen \in Int /\ t[k].gen \in Int /\ cache[n].gen \in Int
    <3>1. s[k].gen \in Int /\ t[k].gen \in Int
      BY <1>1, PoolAt DEF Later
    <3>2. cache[n].gen \in 0 .. MaxGen
      BY DEF Slot
    <3> QED
      BY <3>1, <3>2, PoolAssumption
  <2>2. t[k].addr = s[k].addr /\ s[k].gen <= t[k].gen
    BY DEF Later
  <2>3. cache[n].gen <= s[k].gen /\ (cache[n].ok \/ cache[n].gen < s[k].gen)
    BY <1>2, <1>5, <2>2 DEF SlotsOK
  <2>4. cache[n].gen < MaxGen
    BY <1>2, <1>5, <2>2, PoolAt, PoolAssumption DEF SlotsOK
  <2>5. CASE \E j \in 1 .. Len(s) : <<j, n>> \in F /\ s[j].addr = cache[n].addr
    <3>1. <<k, n>> \in F
      BY <1>2, <1>5, <2>2, <2>5 DEF AddrsDiffer
    <3>2. s[k].gen < MaxGen => s[k].gen < t[k].gen
      BY <3>1
    <3>3. MaxGen \in Int
      BY PoolAssumption
    <3> QED
      BY <1>2, <2>1, <2>2, <2>3, <2>4, <3>2, <3>3
  <2>6. CASE ~\E j \in 1 .. Len(s) : <<j, n>> \in F /\ s[j].addr = cache[n].addr
    <3>1. cache[n].ok \in BOOLEAN
      BY DEF Slot
    <3>2. c[n].gen = cache[n].gen /\ c[n].ok = cache[n].ok
      BY <1>2, <2>6, <3>1
    <3>3. cache[n].gen <= t[k].gen /\ (cache[n].gen < s[k].gen => cache[n].gen < t[k].gen)
      BY <2>1, <2>2, <2>3
    <3> QED
      BY <2>3, <3>2, <3>3
  <2> QED
    BY <2>5, <2>6
<1>6. AddrsDiffer(t)
  BY DEF AddrsDiffer, Later
<1> QED
  BY <1>1, <1>3, <1>4, <1>5, <1>6 DEF SlotsOK, c

\* No entry is freed.
LEMMA NothingStale ==
  ASSUME NEW s, cache \in [Cached -> Slot]
  PROVE  Stale(s, {}) = cache
  BY DEF Stale

-----------------------------------------------------------------------------
(* Pools and frames come and go.                                           *)

LEMMA PoppedPools ==
  ASSUME NEW s \in Seq(Pool), NEW k \in 0 .. Len(s), AddrsDiffer(s)
  PROVE  /\ Popped(s, k) \in Seq(Pool) /\ Len(Popped(s, k)) = Len(s) - k
         /\ \A j \in 1 .. Len(s) - k : Popped(s, k)[j] = s[j]
         /\ AddrsDiffer(Popped(s, k))
<1> DEFINE n == Len(s) - k
<1>1. n \in Nat /\ n <= Len(s)
  OBVIOUS
<1>2. \A j \in 1 .. n : s[j] \in Pool
  OBVIOUS
<1>3. Popped(s, k) = SubSeq(s, 1, n)
  BY DEF Popped
<1> HIDE DEF n
<1>4. /\ SubSeq(s, 1, n) \in Seq(Pool)
      /\ Len(SubSeq(s, 1, n)) = IF 1 <= n THEN n - 1 + 1 ELSE 0
      /\ \A i \in 1 .. n - 1 + 1 : SubSeq(s, 1, n)[i] = s[1 + i - 1]
  BY <1>1, <1>2, SubSeqProperties
<1>5. Len(SubSeq(s, 1, n)) = n /\ \A j \in 1 .. n : SubSeq(s, 1, n)[j] = s[j]
  BY <1>1, <1>4
<1>6. AddrsDiffer(SubSeq(s, 1, n))
  BY <1>1, <1>5 DEF AddrsDiffer
<1> QED
  BY <1>3, <1>4, <1>5, <1>6 DEF n

LEMMA NewPools ==
  ASSUME NEW s \in Seq(Pool), NEW a \in Addrs, AddrsDiffer(s),
         \A k \in 1 .. Len(s) : s[k].addr # a
  PROVE  /\ Append(s, NewPool(a)) \in Seq(Pool)
         /\ Len(Append(s, NewPool(a))) = Len(s) + 1
         /\ \A j \in 1 .. Len(s) : Append(s, NewPool(a))[j] = s[j]
         /\ Append(s, NewPool(a))[Len(s) + 1] = NewPool(a)
         /\ AddrsDiffer(Append(s, NewPool(a)))
<1> DEFINE p == NewPool(a)
<1>1. p \in Pool /\ p.addr = a
  BY PoolAssumption DEF NewPool, Pool, Entry
<1> HIDE DEF p
<1>2. /\ Append(s, p) \in Seq(Pool) /\ Len(Append(s, p)) = Len(s) + 1
      /\ \A j \in 1 .. Len(s) : Append(s, p)[j] = s[j]
      /\ Append(s, p)[Len(s) + 1] = p
  BY <1>1
<1>3. AddrsDiffer(Append(s, p))
  BY <1>1, <1>2 DEF AddrsDiffer
<1> QED
  BY <1>2, <1>3 DEF p

LEMMA PoppedFrames ==
  ASSUME NEW f \in Seq(Frame), f # <<>>
  PROVE  /\ Popped(f, 1) \in Seq(Frame) /\ Len(Popped(f, 1)) = Len(f) - 1
         /\ Len(f) - 1 \in Nat
         /\ \A j \in 1 .. Len(f) - 1 : Popped(f, 1)[j] = f[j]
         /\ \A i \in 0 .. Len(f) - 1 : Own(Popped(f, 1), i) = Own(f, i)
         /\ Own(f, Len(f)) = Own(Popped(f, 1), Len(f) - 1)
                             + (IF Top(f).isolated THEN 1 ELSE 0)
<1> DEFINE n == Len(f) - 1
           g == SubSeq(f, 1, n)
<1>1. n \in Nat /\ n + 1 = Len(f) /\ n <= Len(f)
  BY EmptySeq
<1>2. \A j \in 1 .. n : f[j] \in Frame
  BY <1>1
<1>3. Popped(f, 1) = g
  BY DEF Popped
<1> HIDE DEF n
<1>4. /\ g \in Seq(Frame) /\ Len(g) = IF 1 <= n THEN n - 1 + 1 ELSE 0
      /\ \A i \in 1 .. n - 1 + 1 : g[i] = f[1 + i - 1]
  BY <1>1, <1>2, SubSeqProperties
<1>5. Len(g) = n /\ \A j \in 1 .. n : g[j] = f[j]
  BY <1>1, <1>4
<1> HIDE DEF g
<1>6. \A i \in 0 .. n : Own(g, i) = Own(f, i)
  BY <1>1, <1>5, SameOwn
<1>7. Own(f, n + 1) = Own(f, n) + (IF f[n + 1].isolated THEN 1 ELSE 0)
  BY <1>1, OwnNat
<1>8. Own(f, Len(f)) = Own(g, n) + (IF Top(f).isolated THEN 1 ELSE 0)
  BY <1>1, <1>6, <1>7 DEF Top
<1> QED
  BY <1>1, <1>3, <1>4, <1>5, <1>6, <1>8 DEF n
LEMMA PushedFrames ==
  ASSUME NEW f \in Seq(Frame), NEW d \in Nat
  PROVE  LET g == Append(f, [isolated |-> FALSE, base |-> d]) IN
         /\ g \in Seq(Frame) /\ Len(g) = Len(f) + 1
         /\ g # <<>> /\ ~Top(g).isolated /\ Top(g).base = d
         /\ \A i \in 1 .. Len(f) : g[i] = f[i]
         /\ \A i \in 0 .. Len(f) : Own(g, i) = Own(f, i)
         /\ Own(g, Len(g)) = Own(f, Len(f))
<1> DEFINE x == [isolated |-> FALSE, base |-> d]
           g == Append(f, x)
<1>1. x \in Frame /\ ~x.isolated /\ x.base = d
  BY DEF Frame
<1> HIDE DEF x
<1>3. Len(f) \in Nat
  OBVIOUS
<1>2. /\ g \in Seq(Frame) /\ Len(g) = Len(f) + 1 /\ g # <<>>
      /\ \A i \in 1 .. Len(f) : g[i] = f[i]
      /\ g[Len(f) + 1] = x
  <2>1. /\ g \in Seq(Frame) /\ Len(g) = Len(f) + 1
        /\ \A i \in 1 .. Len(f) : g[i] = f[i]
        /\ g[Len(f) + 1] = x
    BY <1>1
  <2> HIDE DEF g
  <2>2. g # <<>>
    BY <1>3, <2>1, EmptySeq
  <2> QED
    BY <2>1, <2>2
<1> HIDE DEF g
<1>4. \A i \in 0 .. Len(f) : Own(g, i) = Own(f, i)
  BY <1>2, <1>3, SameOwn
<1>5. Own(g, Len(f) + 1) = Own(g, Len(f)) /\ Own(g, Len(f)) \in Nat
  <2>1. /\ Own(g, Len(f)) \in Nat
        /\ Own(g, Len(f) + 1) =
             Own(g, Len(f)) + (IF g[Len(f) + 1].isolated THEN 1 ELSE 0)
    BY <1>3, OwnNat
  <2>2. ~g[Len(f) + 1].isolated
    BY <1>1, <1>2
  <2> QED
    BY <2>1, <2>2
<1>6. Own(g, Len(g)) = Own(f, Len(f))
  BY <1>2, <1>3, <1>4, <1>5
<1>7. ~Top(g).isolated /\ Top(g).base = d
  BY <1>1, <1>2 DEF Top
<1> QED
  BY <1>2, <1>4, <1>6, <1>7 DEF g, x

LEMMA MarkedFrames ==
  ASSUME frames \in Seq(Frame), frames # <<>>
  PROVE  /\ MarkIsolated \in Seq(Frame) /\ Len(MarkIsolated) = Len(frames)
         /\ \A i \in 1 .. Len(frames) : MarkIsolated[i].base = frames[i].base
         /\ \A i \in 0 .. Len(frames) - 1 : Own(MarkIsolated, i) = Own(frames, i)
         /\ Own(MarkIsolated, Len(frames)) =
               Own(frames, Len(frames)) + (IF Top(frames).isolated THEN 0 ELSE 1)
<1> DEFINE g == MarkIsolated
           n == Len(frames) - 1
<1>1. n \in Nat /\ n + 1 = Len(frames)
  BY EmptySeq
<1>2. g = [frames EXCEPT ![n + 1].isolated = TRUE]
  BY <1>1 DEF MarkIsolated
<1>3. \A i \in 1 .. n + 1 : frames[i] \in Frame
  BY <1>1
<1>0. DOMAIN frames = 1 .. n + 1
  BY <1>1
<1> HIDE DEF g, n
<1>4. DOMAIN g = 1 .. n + 1 /\ g = [i \in 1 .. n + 1 |-> g[i]]
  BY <1>0, <1>2
<1>5. /\ \A i \in 1 .. n : g[i] = frames[i]
      /\ g[n + 1] = [frames[n + 1] EXCEPT !.isolated = TRUE]
  <2>1. n + 1 \in 1 .. n + 1 /\ \A i \in 1 .. n : i # n + 1 /\ i \in 1 .. n + 1
    BY <1>1
  <2>2. g[n + 1] = [frames[n + 1] EXCEPT !.isolated = TRUE]
    BY <1>0, <1>2, <2>1
  <2>3. \A i \in 1 .. n : g[i] = frames[i]
    BY <1>0, <1>2, <2>1
  <2> QED
    BY <2>2, <2>3
<1>6. g[n + 1] \in Frame /\ g[n + 1].base = frames[n + 1].base /\ g[n + 1].isolated
  <2>1. frames[n + 1] \in Frame
    BY <1>1, <1>3
  <2> QED
    BY <1>5, <2>1 DEF Frame
<1>7. ASSUME NEW i \in 1 .. n + 1 PROVE g[i] \in Frame /\ g[i].base = frames[i].base
  <2>1. CASE i = n + 1
    BY <1>6, <2>1
  <2>2. CASE i # n + 1
    <3>1. i \in 1 .. n
      BY <1>1, <2>2
    <3> QED
      BY <1>3, <1>5, <3>1
  <2> QED
    BY <2>1, <2>2
<1>8. g \in Seq(Frame) /\ Len(g) = n + 1
  <2>1. g \in [1 .. n + 1 -> Frame]
    BY <1>4, <1>7
  <2> QED
    BY <1>1, <2>1
<1>9. \A i \in 0 .. n : Own(g, i) = Own(frames, i)
  BY <1>1, <1>5, SameOwn
<1>10. /\ Own(g, n + 1) = Own(g, n) + 1
       /\ Own(frames, n + 1) = Own(frames, n) + (IF Top(frames).isolated THEN 1 ELSE 0)
       /\ Own(frames, n) \in Nat
  BY <1>1, <1>6, OwnNat DEF Top
<1>11. Own(g, n + 1) = Own(frames, n + 1) + (IF Top(frames).isolated THEN 0 ELSE 1)
  BY <1>1, <1>9, <1>10
<1> QED
  BY <1>1, <1>7, <1>8, <1>9, <1>11 DEF g, n

LEMMA IsolatedIsOwn ==
  ASSUME frames \in Seq(Frame)
  PROVE  Isolated = Own(frames, Len(frames)) /\ Isolated \in Nat
<1>1. DOMAIN frames = 1 .. Len(frames) /\ Len(frames) \in Nat
  OBVIOUS
<1>2. Isolated = Own(frames, Len(frames))
  BY <1>1 DEF Isolated, Own
<1> QED
  BY <1>1, <1>2, OwnNat

-----------------------------------------------------------------------------
(* Every step keeps the invariant.                                         *)

\* What happens to a stack of pools that only gets later, and to the slots.
LEMMA LaterOK ==
  ASSUME CacheInv, NEW t, Later(scopes, t)
  PROVE  t \in Seq(Pool) /\ Len(t) = Depth /\ AddrsDiffer(t) /\ SlotsOK(t, cache)
<1>1. scopes \in Seq(Pool) /\ cache \in [Cached -> Slot]
  BY DEF CacheInv, Typed
<1>2. AddrsDiffer(scopes) /\ SlotsOK(scopes, cache)
  BY DEF CacheInv
<1>3. SlotsOK(t, Stale(scopes, {})) /\ AddrsDiffer(t)
  BY <1>1, <1>2, StaleOK
<1> QED
  BY <1>1, <1>3, NothingStale DEF Later, Depth

LEMMA FreedOK ==
  ASSUME CacheInv, NEW F, NEW t, Later(Freed(scopes, F), t)
  PROVE  /\ t \in Seq(Pool) /\ Len(t) = Depth /\ AddrsDiffer(t)
         /\ SlotsOK(t, Stale(scopes, F)) /\ Stale(scopes, F) \in [Cached -> Slot]
<1>1. scopes \in Seq(Pool) /\ cache \in [Cached -> Slot]
  BY DEF CacheInv, Typed
<1>2. AddrsDiffer(scopes) /\ SlotsOK(scopes, cache)
  BY DEF CacheInv
<1> DEFINE u == Freed(scopes, F)
<1>3. /\ Later(scopes, u)
      /\ \A j \in 1 .. Len(scopes), m \in Names :
            <<j, m>> \in F /\ scopes[j].gen < MaxGen => scopes[j].gen < u[j].gen
  BY <1>1, FreedLater
<1>4. Later(u, t)
  OBVIOUS
<1> HIDE DEF u
<1>5. Later(scopes, t)
  BY <1>1, <1>3, <1>4, LaterIsLater
<1>6. Cached \subseteq Names
  BY DEF Cached, Names
<1>7. ASSUME NEW k \in 1 .. Len(scopes), NEW n \in Cached, <<k, n>> \in F,
             scopes[k].gen < MaxGen
      PROVE  scopes[k].gen < t[k].gen
  <2>1. scopes[k].gen < u[k].gen /\ u[k].gen <= t[k].gen
    BY <1>3, <1>4, <1>6, <1>7 DEF Later
  <2>2. scopes[k].gen \in Int /\ u[k].gen \in Int /\ t[k].gen \in Int
    BY <1>3, <1>4, PoolAt DEF Later
  <2> QED
    BY <2>1, <2>2
<1>8. SlotsOK(t, Stale(scopes, F)) /\ Stale(scopes, F) \in [Cached -> Slot] /\ AddrsDiffer(t)
  BY <1>1, <1>2, <1>5, <1>7, StaleOK
<1> QED
  BY <1>5, <1>8 DEF Later, Depth

\* OP_STORE, OP_DROP and the rest change what the pools hold, not the pools.
LEMMA BodyStep ==
  ASSUME CacheInv, Running, frames' = frames, at' = "body",
         \/ Later(scopes, scopes') /\ cache' = cache
         \/ \E F : Later(Freed(scopes, F), scopes') /\ cache' = Stale(scopes, F)
  PROVE  StepOK
<1>1. /\ scopes' \in Seq(Pool) /\ Len(scopes') = Depth /\ AddrsDiffer(scopes')
      /\ SlotsOK(scopes', cache') /\ cache' \in [Cached -> Slot]
  BY LaterOK, FreedOK DEF CacheInv, Typed
<1>2. Typed' /\ AddrsDiffer(scopes)' /\ SlotsOK(scopes, cache)'
  BY <1>1 DEF CacheInv, Typed, Places, AddrsDiffer, SlotsOK
<1>3. DepthInv'
  BY <1>1 DEF CacheInv, DepthInv, Depth, Running
<1>4. Len(frames') # Len(frames) - 1
  BY DEF CacheInv, Typed
<1>5. ScopeInv => ScopeInv'
  BY <1>1 DEF ScopeInv, Depth, Running
<1> QED
  BY <1>2, <1>3, <1>4, <1>5 DEF CacheInv, StepOK, Restored

LEMMA GrowNat == Grow \subseteq Nat
  BY DEF Grow

LEMMA AssignSteps ==
  ASSUME CacheInv, NEW n, NEW v \in Values, Assign(n, v) \/ AssignStem(n, v) \/ Drop(n)
  PROVE  StepOK
<1>1. scopes \in Seq(Pool)
  BY DEF CacheInv, Typed
<1>2. CASE Assign(n, v)
  BY <1>1, <1>2, GrowNat, AssignedLater, BodyStep DEF Assign
<1>3. CASE AssignStem(n, v)
  <2> DEFINE F == DropStemFrees(scopes, n)
  <2>1. PICK grow \in Grow : scopes' = Assigned(Freed(scopes, F), n, v, grow)
    BY <1>3 DEF AssignStem
  <2>2. cache' = Stale(scopes, F) /\ Running /\ frames' = frames /\ at' = "body"
    BY <1>3 DEF AssignStem
  <2> HIDE DEF F
  <2>3. Freed(scopes, F) \in Seq(Pool)
    BY <1>1, FreedLater DEF Later
  <2>4. Later(Freed(scopes, F), scopes')
    BY <2>1, <2>3, GrowNat, AssignedLater
  <2> QED
    BY <2>2, <2>4, BodyStep
<1>4. CASE Drop(n)
  <2> DEFINE F == IF n \in Stems THEN DropStemFrees(scopes, n)
                  ELSE DropFrees(scopes, Depth, n)
  <2>1. scopes' = Freed(scopes, F) /\ cache' = Stale(scopes, F)
    BY <1>4 DEF Drop
  <2>2. Running /\ frames' = frames /\ at' = "body"
    BY <1>4 DEF Drop
  <2> HIDE DEF F
  <2>3. Later(Freed(scopes, F), scopes')
    BY <1>1, <2>1, FreedLater, LaterIsLater DEF Later
  <2> QED
    BY <2>1, <2>2, <2>3, BodyStep
<1> QED
  BY <1>2, <1>3, <1>4

LEMMA TopPool ==
  ASSUME CacheInv, Running
  PROVE  Depth \in 1 .. Len(scopes) /\ Top(scopes) = scopes[Depth]
<1>1. frames \in Seq(Frame) /\ scopes \in Seq(Pool)
  BY DEF CacheInv, Typed
<1>2. Own(frames, Len(frames)) \in Nat /\ Len(scopes) \in Nat
  BY <1>1, OwnNat
<1>3. Depth >= 1
  BY <1>2 DEF CacheInv, DepthInv, Depth
<1> QED
  BY <1>2, <1>3 DEF Depth, Top

LEMMA LoadStep ==
  ASSUME CacheInv, NEW n \in Cached, Load(n)
  PROVE  StepOK
<1> DEFINE x == [addr |-> Top(scopes).addr, gen |-> Top(scopes).gen, ok |-> TRUE]
<1>1. /\ Top(scopes).gen < MaxGen /\ cache' = [cache EXCEPT ![n] = x]
      /\ Running /\ scopes' = scopes /\ frames' = frames /\ at' = "body"
  BY DEF Load
<1>2. /\ scopes \in Seq(Pool) /\ frames \in Seq(Frame) /\ cache \in [Cached -> Slot]
      /\ AddrsDiffer(scopes) /\ SlotsOK(scopes, cache)
  BY DEF CacheInv, Typed
<1>3. Depth \in 1 .. Len(scopes) /\ Top(scopes) = scopes[Depth]
  BY <1>1, TopPool
<1>4. /\ x \in Slot /\ x.addr = scopes[Depth].addr /\ x.gen = scopes[Depth].gen /\ x.ok
      /\ x.gen < MaxGen
  <2>1. scopes[Depth].addr \in Addrs /\ scopes[Depth].gen \in 0 .. MaxGen
    BY <1>2, <1>3, PoolAt
  <2> QED
    BY <1>1, <1>3, <2>1 DEF Slot
<1> HIDE DEF x
<1>5. cache' \in [Cached -> Slot]
  BY <1>1, <1>2, <1>4
<1>6. \A m \in Cached : cache'[m] = IF m = n THEN x ELSE cache[m]
  BY <1>1, <1>2
<1>7. ASSUME NEW k \in 1 .. Len(scopes), x.addr = scopes[k].addr
      PROVE  x.gen <= scopes[k].gen
  <2>1. k = Depth
    BY <1>2, <1>3, <1>4, <1>7 DEF AddrsDiffer
  <2>2. scopes[Depth].gen \in Int
    BY <1>2, <1>3, PoolAt
  <2> QED
    BY <1>4, <2>1, <2>2
<1>8. SlotsOK(scopes, cache')
  BY <1>2, <1>4, <1>6, <1>7 DEF SlotsOK
<1>9. Typed' /\ AddrsDiffer(scopes)' /\ SlotsOK(scopes, cache)'
  BY <1>1, <1>2, <1>5, <1>8 DEF Typed, Places, AddrsDiffer, SlotsOK
<1>10. DepthInv' /\ (ScopeInv => ScopeInv')
  BY <1>1 DEF CacheInv, DepthInv, ScopeInv, Depth, Running
<1>11. Len(frames') # Len(frames) - 1
  BY <1>1, <1>2
<1> QED
  BY <1>9, <1>10, <1>11 DEF CacheInv, StepOK, Restored

\* EXPOSE changes what the pools hold, too, and stays in EXPOSE.
LEMMA ExposeStemStep ==
  ASSUME CacheInv, NEW m \in Stems, ExposeStem(m)
  PROVE  StepOK
<1>1. /\ at = "expose" /\ UNCHANGED <<frames, cache, at>>
      /\ scopes' = [scopes EXCEPT ![Depth].exposed = @ \cup {m},
                                  ![Depth].gen = Bump(@, 1)]
  BY DEF ExposeStem
<1>2. /\ scopes \in Seq(Pool) /\ frames \in Seq(Frame) /\ cache \in [Cached -> Slot]
      /\ AddrsDiffer(scopes) /\ SlotsOK(scopes, cache)
  BY DEF CacheInv, Typed
<1>3. Depth \in 1 .. Len(scopes) /\ Running
  BY <1>1, TopPool DEF Running
<1> DEFINE d == Depth
           p == [scopes[d] EXCEPT !.exposed = @ \cup {m}, !.gen = Bump(@, 1)]
<1>4. DOMAIN scopes' = 1 .. Len(scopes) /\ DOMAIN scopes = 1 .. Len(scopes)
  BY <1>1, <1>2
<1>5. /\ scopes' = [j \in 1 .. Len(scopes) |-> scopes'[j]]
      /\ scopes'[d] = p /\ \A j \in 1 .. Len(scopes) : j # d => scopes'[j] = scopes[j]
  BY <1>1, <1>3, <1>4
<1>6. /\ p \in Pool /\ p.addr = scopes[d].addr /\ p.gen \in Int
      /\ scopes[d].gen <= p.gen /\ scopes[d].gen \in Int
  <2>1. scopes[d] \in Pool /\ scopes[d].gen \in 0 .. MaxGen
    BY <1>2, <1>3, PoolAt
  <2>2. Bump(scopes[d].gen, 1) \in 0 .. MaxGen /\ scopes[d].gen <= Bump(scopes[d].gen, 1)
    BY <2>1, BumpUp
  <2>3. p.gen = Bump(scopes[d].gen, 1) /\ p.addr = scopes[d].addr
    BY <2>1 DEF Pool
  <2>4. p \in Pool
    BY <2>1, <2>2 DEF Pool
  <2> QED
    BY <2>1, <2>2, <2>3, <2>4, PoolAssumption
<1> HIDE DEF p, d
<1>7. ASSUME NEW j \in 1 .. Len(scopes)
      PROVE  scopes'[j] \in Pool /\ scopes'[j].addr = scopes[j].addr
             /\ scopes[j].gen <= scopes'[j].gen
  BY <1>2, <1>5, <1>6, <1>7, PoolAt
<1>8. scopes' \in Seq(Pool) /\ Len(scopes') = Len(scopes)
  <2>1. Len(scopes) \in Nat
    BY <1>2
  <2> QED
    BY <1>4, <1>5, <1>7, <2>1, PoolsOf
<1>9. Later(scopes, scopes')
  BY <1>2, <1>7, <1>8 DEF Later
<1>10. AddrsDiffer(scopes') /\ SlotsOK(scopes', cache)
  BY <1>9, LaterOK
<1>11. Typed' /\ AddrsDiffer(scopes)' /\ SlotsOK(scopes, cache)'
  BY <1>1, <1>2, <1>8, <1>10 DEF CacheInv, Typed, AddrsDiffer, SlotsOK
<1>12. DepthInv' /\ (ScopeInv => ScopeInv')
  BY <1>1, <1>8 DEF CacheInv, DepthInv, ScopeInv, Depth, Running
<1>13. Len(frames') # Len(frames) - 1
  BY <1>1, <1>2
<1> QED
  BY <1>11, <1>12, <1>13 DEF CacheInv, StepOK, Restored

LEMMA ExposeVarStep ==
  ASSUME CacheInv, NEW n, ExposeVar(n)
  PROVE  StepOK
<1> DEFINE F == IF Top(scopes).entry[n] = Absent THEN {} ELSE {<<Depth, n>>}
           s == Freed(scopes, F)
           up(g) == IF s[Depth - 1].entry[n] # Absent THEN s ELSE Put(s, Depth - 1, n, Unset, g)
<1>1. /\ at = "expose" /\ UNCHANGED <<frames, at>> /\ cache' = Stale(scopes, F)
      /\ \E g, grow \in Grow : scopes' = Put(up(g), Depth, n, Ref, 1 + grow)
  BY DEF ExposeVar
<1>2. PICK g \in Grow, grow \in Grow : scopes' = Put(up(g), Depth, n, Ref, 1 + grow)
  BY <1>1
<1>3. scopes \in Seq(Pool) /\ frames \in Seq(Frame)
  BY DEF CacheInv, Typed
<1> HIDE DEF F
<1>4. s \in Seq(Pool)
  BY <1>3, FreedLater DEF Later
<1> HIDE DEF s
<1>5. Later(s, up(g))
  <2>1. Unset \in Entry /\ g \in Nat
    BY GrowNat DEF Entry
  <2> QED
    BY <1>4, <2>1, PutLater, LaterIsLater
<1> HIDE DEF up
<1>6. Later(up(g), scopes')
  <2>1. Ref \in Entry /\ 1 + grow \in Nat /\ up(g) \in Seq(Pool)
    BY <1>5, GrowNat DEF Entry, Later
  <2> QED
    BY <1>2, <2>1, PutLater
<1>7. Later(s, scopes')
  BY <1>4, <1>5, <1>6, LaterIsLater
<1>8. /\ scopes' \in Seq(Pool) /\ Len(scopes') = Depth /\ AddrsDiffer(scopes')
      /\ SlotsOK(scopes', cache') /\ cache' \in [Cached -> Slot]
  BY <1>1, <1>7, FreedOK DEF s
<1>9. Typed' /\ AddrsDiffer(scopes)' /\ SlotsOK(scopes, cache)'
  BY <1>1, <1>8 DEF CacheInv, Typed, AddrsDiffer, SlotsOK
<1>10. DepthInv' /\ (ScopeInv => ScopeInv')
  BY <1>1, <1>8 DEF CacheInv, DepthInv, ScopeInv, Depth, Running
<1>11. Len(frames') # Len(frames) - 1
  BY <1>1, <1>3
<1> QED
  BY <1>9, <1>10, <1>11 DEF CacheInv, StepOK, Restored

LEMMA CallStep ==
  ASSUME CacheInv, Call
  PROVE  StepOK
<1>1. PICK grow \in Grow : scopes' = Assigned(scopes, SIGL, Number, grow)
  BY DEF Call
<1>2. /\ Running /\ cache' = cache /\ at' = "label"
      /\ frames' = Append(frames, [isolated |-> FALSE, base |-> Depth])
  BY DEF Call
<1>3. scopes \in Seq(Pool) /\ frames \in Seq(Frame) /\ cache \in [Cached -> Slot]
  BY DEF CacheInv, Typed
<1>4. Later(scopes, scopes')
  BY <1>1, <1>3, GrowNat, PoolAssumption, AssignedLater
<1>5. /\ scopes' \in Seq(Pool) /\ Len(scopes') = Depth /\ AddrsDiffer(scopes')
      /\ SlotsOK(scopes', cache)
  BY <1>4, LaterOK
<1>6. Depth \in Nat /\ Len(frames) \in Nat /\ Len(scopes) = Depth
  BY <1>3 DEF Depth
<1>7. /\ frames' \in Seq(Frame) /\ Len(frames') = Len(frames) + 1
      /\ frames' # <<>> /\ ~Top(frames').isolated /\ Top(frames').base = Depth
      /\ \A i \in 1 .. Len(frames) : frames'[i] = frames[i]
      /\ \A i \in 0 .. Len(frames) : Own(frames', i) = Own(frames, i)
      /\ Own(frames', Len(frames')) = Own(frames, Len(frames))
  BY <1>2, <1>3, <1>6, PushedFrames
<1>8. Typed' /\ AddrsDiffer(scopes)' /\ SlotsOK(scopes, cache)'
  BY <1>2, <1>3, <1>5, <1>7 DEF Typed, Places, AddrsDiffer, SlotsOK
<1>9. DepthInv'
  BY <1>2, <1>5, <1>7 DEF CacheInv, DepthInv, Depth, Running
<1>10. ASSUME ScopeInv PROVE ScopeInv'
  <2>1. Depth = 1 + Own(frames, Len(frames))
    BY <1>2, <1>10 DEF ScopeInv
  <2>2. ASSUME NEW i \in 1 .. Len(frames') PROVE frames'[i].base = 1 + Own(frames', i - 1)
    <3>1. CASE i \in 1 .. Len(frames)
      <4>1. frames[i].base = 1 + Own(frames, i - 1) /\ i - 1 \in 0 .. Len(frames)
        BY <1>6, <1>10, <3>1 DEF ScopeInv
      <4> QED
        BY <1>7, <3>1, <4>1
    <3>2. CASE i = Len(frames) + 1
      <4>1. frames'[i].base = Depth /\ i - 1 = Len(frames) /\ Len(frames) \in 0 .. Len(frames)
        BY <1>6, <1>7, <3>2 DEF Top
      <4> QED
        BY <1>7, <2>1, <4>1
    <3> QED
      BY <1>6, <1>7, <3>1, <3>2
  <2> QED
    BY <1>2, <1>5, <1>6, <1>7, <2>1, <2>2 DEF ScopeInv, Depth, Running, Top
<1>11. Len(frames') # Len(frames) - 1
  BY <1>6, <1>7
<1> QED
  BY <1>8, <1>9, <1>10, <1>11 DEF CacheInv, StepOK, Restored

LEMMA ProcedureStep ==
  ASSUME CacheInv, NEW a \in Addrs, Procedure(a)
  PROVE  StepOK
<1>1. /\ Running /\ frames # <<>> /\ (ProcFirst => at = "label")
      /\ \A k \in DOMAIN scopes : scopes[k].addr # a
      /\ scopes' = Append(scopes, NewPool(a)) /\ frames' = MarkIsolated
      /\ cache' = Flushed /\ at' = "expose"
  BY DEF Procedure, Flush
<1>2. /\ scopes \in Seq(Pool) /\ frames \in Seq(Frame) /\ AddrsDiffer(scopes)
      /\ DOMAIN scopes = 1 .. Len(scopes) /\ Len(frames) \in Nat /\ Len(scopes) \in Nat
  BY DEF CacheInv, Typed
<1>3. scopes' \in Seq(Pool) /\ Len(scopes') = Len(scopes) + 1 /\ AddrsDiffer(scopes')
  BY <1>1, <1>2, NewPools
<1>4. /\ frames' \in Seq(Frame) /\ Len(frames') = Len(frames)
      /\ \A i \in 1 .. Len(frames) : frames'[i].base = frames[i].base
      /\ \A i \in 0 .. Len(frames) - 1 : Own(frames', i) = Own(frames, i)
      /\ Own(frames', Len(frames)) =
            Own(frames, Len(frames)) + (IF Top(frames).isolated THEN 0 ELSE 1)
  BY <1>1, <1>2, MarkedFrames
<1>5. Own(frames, Len(frames)) \in Nat
  BY <1>2, OwnNat
<1>6. Typed' /\ AddrsDiffer(scopes)' /\ SlotsOK(scopes, cache)'
  BY <1>1, <1>3, <1>4, FlushedOK DEF Typed, Places, AddrsDiffer, SlotsOK
<1>7. DepthInv'
  BY <1>1, <1>2, <1>3, <1>4, <1>5 DEF CacheInv, DepthInv, Depth, Running
<1>8. ASSUME ProcFirst, ScopeInv PROVE ScopeInv'
  <2>1. ~Top(frames).isolated
    BY <1>1, <1>8 DEF ScopeInv
  <2>2. \A i \in 1 .. Len(frames) : frames'[i].base = 1 + Own(frames', i - 1)
    <3>1. \A i \in 1 .. Len(frames) : i - 1 \in 0 .. Len(frames) - 1
      BY <1>2
    <3> QED
      BY <1>4, <1>8, <3>1 DEF ScopeInv
  <2> QED
    BY <1>1, <1>2, <1>3, <1>4, <1>5, <1>8, <2>1, <2>2 DEF ScopeInv, Depth, Running
<1>9. Len(frames') # Len(frames) - 1
  BY <1>2, <1>4
<1> QED
  BY <1>6, <1>7, <1>8, <1>9 DEF CacheInv, StepOK, Restored

\* The end of a call: its pool goes with it, if it has one, and what is left
\* is later.
LEMMA ReturnStep ==
  ASSUME CacheInv, Running, frames # <<>>, frames' = Popped(frames, 1), at' = "body",
         \/ /\ Top(frames).isolated
            /\ Later(Popped(scopes, 1), scopes') /\ cache' = Flushed
         \/ /\ ~Top(frames).isolated
            /\ \/ Later(scopes, scopes') /\ cache' = cache
               \/ \E F : Later(Freed(scopes, F), scopes') /\ cache' = Stale(scopes, F)
  PROVE  StepOK
<1>1. /\ scopes \in Seq(Pool) /\ frames \in Seq(Frame) /\ AddrsDiffer(scopes)
      /\ cache \in [Cached -> Slot] /\ Len(frames) \in Nat /\ Len(scopes) \in Nat
  BY DEF CacheInv, Typed
<1>2. /\ frames' \in Seq(Frame) /\ Len(frames') = Len(frames) - 1 /\ Len(frames) - 1 \in Nat
      /\ \A j \in 1 .. Len(frames) - 1 : frames'[j] = frames[j]
      /\ \A i \in 0 .. Len(frames) - 1 : Own(frames', i) = Own(frames, i)
      /\ Own(frames, Len(frames)) = Own(frames', Len(frames) - 1)
                                     + (IF Top(frames).isolated THEN 1 ELSE 0)
  BY <1>1, PoppedFrames
<1>3. Own(frames', Len(frames) - 1) \in Nat
  BY <1>2, OwnNat
<1>4. Depth >= 1 + Own(frames, Len(frames)) /\ Depth = Len(scopes)
  BY DEF CacheInv, DepthInv, Depth
<1>5. /\ scopes' \in Seq(Pool) /\ AddrsDiffer(scopes') /\ SlotsOK(scopes', cache')
      /\ cache' \in [Cached -> Slot]
      /\ Len(scopes') = Depth - (IF Top(frames).isolated THEN 1 ELSE 0)
  <2>1. CASE Top(frames).isolated
    <3>1. 1 \in 0 .. Len(scopes)
      BY <1>1, <1>2, <1>3, <1>4
    <3>2. /\ Popped(scopes, 1) \in Seq(Pool) /\ Len(Popped(scopes, 1)) = Len(scopes) - 1
          /\ AddrsDiffer(Popped(scopes, 1))
      BY <1>1, <3>1, PoppedPools
    <3>3. Later(Popped(scopes, 1), scopes') /\ cache' = Flushed
      BY <2>1
    <3>4. scopes' \in Seq(Pool) /\ Len(scopes') = Depth - 1 /\ AddrsDiffer(scopes')
      BY <1>4, <3>2, <3>3 DEF Later, AddrsDiffer
    <3> QED
      BY <2>1, <3>3, <3>4, FlushedOK
  <2>2. CASE ~Top(frames).isolated
    BY <1>1, <1>4, <2>2, LaterOK, FreedOK
  <2> QED
    BY <2>1, <2>2
<1>6. Typed' /\ AddrsDiffer(scopes)' /\ SlotsOK(scopes, cache)'
  BY <1>2, <1>5 DEF Typed, Places, AddrsDiffer, SlotsOK
<1>7. Depth' = Depth - (IF Top(frames).isolated THEN 1 ELSE 0)
  BY <1>5 DEF Depth
<1>8. DepthInv'
  <2>1. Depth' >= 1 + Own(frames', Len(frames'))
    BY <1>1, <1>2, <1>3, <1>4, <1>7
  <2> QED
    BY <2>1 DEF DepthInv, Running
<1>9. ASSUME ScopeInv PROVE ScopeInv' /\ Len(scopes') = Top(frames).base
  <2>1. Depth = 1 + Own(frames, Len(frames))
    BY <1>9 DEF ScopeInv
  <2>2. Depth' = 1 + Own(frames', Len(frames'))
    BY <1>1, <1>2, <1>3, <1>4, <1>7, <2>1
  <2>3. Top(frames).base = 1 + Own(frames, Len(frames) - 1)
    BY <1>2, <1>9 DEF ScopeInv, Top
  <2>4. ASSUME NEW i \in 1 .. Len(frames') PROVE frames'[i].base = 1 + Own(frames', i - 1)
    <3>1. i \in 1 .. Len(frames) /\ i \in 1 .. Len(frames) - 1 /\ i - 1 \in 0 .. Len(frames) - 1
      BY <1>1, <1>2
    <3> QED
      BY <1>2, <1>9, <3>1 DEF ScopeInv
  <2>5. Len(frames) - 1 \in 0 .. Len(frames) - 1
    BY <1>2
  <2> QED
    BY <1>2, <2>2, <2>3, <2>4, <2>5 DEF ScopeInv, Depth, Running
<1> QED
  BY <1>6, <1>8, <1>9 DEF CacheInv, StepOK, Restored

LEMMA ReturnSteps ==
  ASSUME CacheInv, NEW v \in Values, ReturnPlain \/ ReturnValue(v)
  PROVE  StepOK
<1>1. /\ Running /\ frames # <<>> /\ frames' = Popped(frames, 1) /\ at' = "body"
  BY DEF ReturnPlain, ReturnValue
<1>2. scopes \in Seq(Pool) /\ AddrsDiffer(scopes) /\ Depth \in 1 .. Len(scopes)
  BY <1>1, TopPool DEF CacheInv, Typed
<1>3. Popped(scopes, 1) \in Seq(Pool)
  <2>1. 1 \in 0 .. Len(scopes)
    BY <1>2 DEF Depth
  <2> QED
    BY <1>2, <2>1, PoppedPools
<1>4. CASE ReturnPlain
  <2>1. CASE Top(frames).isolated
    <3>1. scopes' = Popped(scopes, 1) /\ cache' = Flushed
      BY <1>4, <2>1 DEF ReturnPlain, Flush
    <3> QED
      BY <1>1, <1>3, <2>1, <3>1, LaterIsLater, ReturnStep
  <2>2. CASE ~Top(frames).isolated
    <3> DEFINE F == DropFrees(scopes, Depth, RESULT)
    <3>1. scopes' = Freed(scopes, F) /\ cache' = Stale(scopes, F)
      BY <1>4, <2>2 DEF ReturnPlain
    <3> HIDE DEF F
    <3>2. Later(Freed(scopes, F), scopes')
      BY <1>2, <3>1, FreedLater, LaterIsLater DEF Later
    <3> QED
      BY <1>1, <2>2, <3>1, <3>2, ReturnStep
  <2> QED
    BY <2>1, <2>2
<1>5. CASE ReturnValue(v)
  <2>1. CASE Top(frames).isolated
    <3>1. PICK grow \in Grow : /\ scopes' = Assigned(Popped(scopes, 1), RESULT, v, grow)
                              /\ cache' = Flushed
      BY <1>5, <2>1 DEF ReturnValue, Flush
    <3>2. Later(Popped(scopes, 1), scopes')
      BY <1>3, <3>1, GrowNat, AssignedLater
    <3> QED
      BY <1>1, <2>1, <3>1, <3>2, ReturnStep
  <2>2. CASE ~Top(frames).isolated
    <3>1. PICK grow \in Grow : scopes' = Assigned(scopes, RESULT, v, grow) /\ cache' = cache
      BY <1>5, <2>2 DEF ReturnValue
    <3>2. Later(scopes, scopes')
      BY <1>2, <3>1, GrowNat, AssignedLater
    <3> QED
      BY <1>1, <2>2, <3>1, <3>2, ReturnStep
  <2> QED
    BY <2>1, <2>2
<1> QED
  BY <1>4, <1>5

\* SIGNAL and END leave every call: the exec's pool is what is left, or nothing.
LEMMA SignalStep ==
  ASSUME CacheInv, Signal
  PROVE  StepOK
<1> DEFINE r == Popped(scopes, Isolated)
<1>1. PICK grow \in Grow, more \in Grow :
        scopes' \in {Assigned(r, SIGL, Number, grow),
                    Assigned(Assigned(r, SIGL, Number, grow), RC, Number, more)}
  BY DEF Signal
<1>2. /\ Running /\ frames' = <<>> /\ at' = "body"
      /\ cache' = IF Isolated > 0 THEN Flushed ELSE cache
  BY DEF Signal, Flush
<1>3. /\ scopes \in Seq(Pool) /\ frames \in Seq(Frame) /\ AddrsDiffer(scopes)
      /\ SlotsOK(scopes, cache) /\ cache \in [Cached -> Slot] /\ Len(scopes) \in Nat
  BY DEF CacheInv, Typed
<1>4. Isolated = Own(frames, Len(frames)) /\ Isolated \in Nat
  BY <1>3, IsolatedIsOwn
<1>5. Isolated \in 0 .. Len(scopes) /\ Len(scopes) - Isolated >= 1
  BY <1>2, <1>3, <1>4 DEF CacheInv, DepthInv, Depth
<1>6. /\ r \in Seq(Pool) /\ Len(r) = Len(scopes) - Isolated /\ AddrsDiffer(r)
      /\ \A j \in 1 .. Len(scopes) - Isolated : r[j] = scopes[j]
  BY <1>3, <1>5, PoppedPools
<1> HIDE DEF r
<1>7. Later(r, scopes')
  <2> DEFINE u == Assigned(r, SIGL, Number, grow)
  <2>1. Later(r, u)
    BY <1>6, GrowNat, PoolAssumption, AssignedLater
  <2>2. scopes' = u \/ scopes' = Assigned(u, RC, Number, more)
    BY <1>1
  <2> HIDE DEF u
  <2>3. Later(u, Assigned(u, RC, Number, more))
    BY <2>1, GrowNat, PoolAssumption, AssignedLater DEF Later
  <2> QED
    BY <1>6, <2>1, <2>2, <2>3, LaterIsLater
<1>8. scopes' \in Seq(Pool) /\ Len(scopes') = Len(scopes) - Isolated /\ AddrsDiffer(scopes')
  BY <1>6, <1>7 DEF Later, AddrsDiffer
<1>9. SlotsOK(scopes', cache') /\ cache' \in [Cached -> Slot]
  <2>1. CASE Isolated > 0
    BY <1>2, <1>8, <2>1, FlushedOK
  <2>2. CASE Isolated = 0
    <3>1. SlotsOK(r, cache)
      BY <1>3, <1>6, <2>2 DEF SlotsOK
    <3>2. SlotsOK(scopes', Stale(r, {}))
      BY <1>3, <1>6, <1>7, <3>1, StaleOK
    <3> QED
      BY <1>2, <1>3, <2>2, <3>2, NothingStale
  <2> QED
    BY <1>4, <2>1, <2>2
<1>10. Len(frames') = 0 /\ Own(frames', 0) = 0 /\ frames' \in Seq(Frame)
  BY <1>2, OwnNat
<1>11. Typed' /\ AddrsDiffer(scopes)' /\ SlotsOK(scopes, cache)'
  BY <1>2, <1>8, <1>9, <1>10 DEF Typed, Places, AddrsDiffer, SlotsOK
<1>12. DepthInv'
  BY <1>2, <1>5, <1>8, <1>10 DEF DepthInv, Depth, Running
<1>13. ASSUME ScopeInv PROVE ScopeInv' /\ Restored
  <2>1. Len(scopes') = 1
    BY <1>2, <1>3, <1>4, <1>8, <1>13 DEF ScopeInv, Depth
  <2>2. ScopeInv'
    BY <1>2, <1>10, <2>1 DEF ScopeInv, Depth, Running
  <2>3. Len(frames') = Len(frames) - 1 => Top(frames).base = 1
    <3>1. ASSUME Len(frames') = Len(frames) - 1 PROVE Top(frames).base = 1
      <4>1. Len(frames) = 1 /\ 1 \in 1 .. Len(frames)
        <5>1. Len(frames) \in Nat /\ 0 = Len(frames) - 1
          BY <1>3, <1>10, <3>1
        <5> QED
          BY <5>1
      <4>2. frames[1].base = 1 + Own(frames, 1 - 1)
        BY <1>13, <4>1 DEF ScopeInv
      <4>3. Own(frames, 0) = 0
        BY OwnNat
      <4> QED
        BY <4>1, <4>2, <4>3 DEF Top
    <3> QED
      BY <3>1
  <2> QED
    BY <2>1, <2>2, <2>3 DEF Restored
<1> QED
  BY <1>11, <1>12, <1>13 DEF CacheInv, StepOK

LEMMA EndStep ==
  ASSUME CacheInv, End
  PROVE  StepOK
<1>1. /\ Running /\ frames' = <<>> /\ scopes' = Popped(scopes, Isolated + 1)
      /\ cache' = Flushed /\ at' = "ended"
  BY DEF End
<1>2. /\ scopes \in Seq(Pool) /\ frames \in Seq(Frame) /\ AddrsDiffer(scopes)
      /\ Len(scopes) \in Nat
  BY DEF CacheInv, Typed
<1>3. Isolated = Own(frames, Len(frames)) /\ Isolated \in Nat
  BY <1>2, IsolatedIsOwn
<1>4. Isolated + 1 \in 0 .. Len(scopes)
  BY <1>1, <1>2, <1>3 DEF CacheInv, DepthInv, Depth
<1>5. /\ scopes' \in Seq(Pool) /\ Len(scopes') = Len(scopes) - (Isolated + 1)
      /\ AddrsDiffer(scopes')
  BY <1>1, <1>2, <1>4, PoppedPools
<1>6. frames' \in Seq(Frame) /\ Len(frames') = 0
  BY <1>1
<1>7. Typed' /\ AddrsDiffer(scopes)' /\ SlotsOK(scopes, cache)'
  BY <1>1, <1>5, <1>6, FlushedOK DEF Typed, Places, AddrsDiffer, SlotsOK
<1>8. DepthInv'
  BY <1>1 DEF DepthInv, Running
<1>9. ASSUME ScopeInv PROVE ScopeInv'
  <2>1. Len(scopes') = 0
    BY <1>1, <1>2, <1>3, <1>5, <1>9 DEF ScopeInv, Depth
  <2>2. scopes' = <<>>
    BY <1>5, <2>1, EmptySeq
  <2> QED
    BY <1>1, <1>6, <2>2 DEF ScopeInv, Running
<1> QED
  BY <1>1, <1>7, <1>8, <1>9 DEF CacheInv, StepOK, Restored

LEMMA StartStep ==
  ASSUME CacheInv, NEW a \in Addrs, Start(a)
  PROVE  StepOK
<1>1. /\ scopes = <<>> /\ frames = <<>> /\ scopes' = <<NewPool(a)>> /\ frames' = <<>>
      /\ cache' = Flushed /\ at' = "body"
  BY DEF Start, CacheInv, DepthInv, Running
<1>2. /\ Append(<<>>, NewPool(a)) = <<NewPool(a)>> /\ Len(<<>>) = 0 /\ <<>> \in Seq(Pool)
      /\ AddrsDiffer(<<>>) /\ \A k \in 1 .. 0 : FALSE
  BY DEF AddrsDiffer
<1>3. scopes' \in Seq(Pool) /\ Len(scopes') = 1 /\ AddrsDiffer(scopes')
  BY <1>1, <1>2, NewPools
<1>4. frames' \in Seq(Frame) /\ Len(frames') = 0 /\ Own(frames', 0) = 0 /\ Len(frames) = 0
  BY <1>1, OwnNat
<1>5. Typed' /\ AddrsDiffer(scopes)' /\ SlotsOK(scopes, cache)'
  BY <1>1, <1>3, <1>4, FlushedOK DEF Typed, Places, AddrsDiffer, SlotsOK
<1>6. DepthInv' /\ ScopeInv'
  BY <1>1, <1>3, <1>4 DEF DepthInv, ScopeInv, Depth, Running
<1> QED
  BY <1>4, <1>5, <1>6 DEF CacheInv, StepOK, Restored

LEMMA InitOK ==
  ASSUME Init
  PROVE  CacheInv /\ ScopeInv
<1>1. scopes = <<>> /\ frames = <<>> /\ cache = Flushed /\ at = "ended"
  BY DEF Init
<1>2. scopes \in Seq(Pool) /\ Len(scopes) = 0 /\ frames \in Seq(Frame) /\ Len(frames) = 0
  BY <1>1
<1>3. AddrsDiffer(scopes)
  BY <1>2 DEF AddrsDiffer
<1>4. SlotsOK(scopes, Flushed) /\ Flushed \in [Cached -> Slot]
  BY <1>2, FlushedOK
<1>5. SlotsOK(scopes, cache) /\ Typed
  BY <1>1, <1>2, <1>4 DEF Typed, Places
<1> QED
  BY <1>1, <1>2, <1>3, <1>5 DEF CacheInv, DepthInv, ScopeInv, Running

LEMMA StepsOK ==
  ASSUME CacheInv, [Next]_vars
  PROVE  StepOK
<1>1. CASE UNCHANGED vars
  <2>1. Len(frames') # Len(frames) - 1
    BY <1>1 DEF vars, CacheInv, Typed
  <2>2. CacheInv' /\ (ScopeInv => ScopeInv')
    BY <1>1 DEF vars, CacheInv, Typed, AddrsDiffer, SlotsOK, DepthInv, ScopeInv, Depth, Running
  <2> QED
    BY <2>1, <2>2 DEF StepOK, Restored
<1>2. ASSUME NEW a \in Addrs, Start(a) \/ Procedure(a) PROVE StepOK
  BY <1>2, StartStep, ProcedureStep
<1>3. ASSUME NEW v \in Values, NEW n \in Mentions, Assign(n, v) \/ AssignStem(n, v)
      PROVE  StepOK
  BY <1>3, AssignSteps
<1>4. ASSUME NEW n \in Mentions, Drop(n) PROVE StepOK
  BY <1>4, AssignSteps, PoolAssumption
<1>5. ASSUME NEW n \in Cached, Load(n) PROVE StepOK
  BY <1>5, LoadStep
<1>6. ASSUME NEW m \in Mentions \cap Stems, ExposeStem(m) PROVE StepOK
  BY <1>6, ExposeStemStep
<1>7. ASSUME NEW n \in Mentions \ Stems, ExposeVar(n) PROVE StepOK
  BY <1>7, ExposeVarStep
<1>8. ASSUME NEW v \in Values, ReturnPlain \/ ReturnValue(v) PROVE StepOK
  BY <1>8, ReturnSteps
<1>9. CASE Call \/ Signal \/ End
  BY <1>9, CallStep, SignalStep, EndStep
<1>10. Number \in Values
  BY PoolAssumption
<1> QED
  BY <1>1, <1>2, <1>3, <1>4, <1>5, <1>6, <1>7, <1>8, <1>9, <1>10 DEF Next

-----------------------------------------------------------------------------
(* The theorems.                                                           *)

\* The variables keep their types.
THEOREM TypeCorrect == Spec => []TypeOK
<1>1. CacheInv => TypeOK
  BY DEF CacheInv, Typed, TypeOK, Pool, Frame, Slot
<1>2. Init => CacheInv
  BY InitOK
<1>3. CacheInv /\ [Next]_vars => CacheInv'
  BY StepsOK DEF StepOK
<1> QED
  BY <1>1, <1>2, <1>3, PTL DEF Spec

\* OP_LOAD never follows a pointer to a freed entry (vpool_get_cached): whoever
\* frees an entry moves its pool's generation on, and at a change of scope,
\* after which a pool may have the address of an earlier one, the cache is empty.
THEOREM NoStalePointer == Spec => []CacheSound
<1>1. CacheInv => CacheSound
  <2> SUFFICES ASSUME CacheInv, Running, NEW n \in Cached, Hit(n)
               PROVE  cache[n].ok
    BY DEF CacheSound
  <2>1. Depth \in 1 .. Len(scopes) /\ Top(scopes) = scopes[Depth]
    BY TopPool
  <2>2. cache[n].addr = scopes[Depth].addr /\ cache[n].gen = scopes[Depth].gen
    BY <2>1 DEF Hit
  <2>3. cache[n].ok \/ cache[n].gen < scopes[Depth].gen
    BY <2>1, <2>2 DEF CacheInv, SlotsOK
  <2>4. scopes[Depth].gen \in Int
    BY <2>1, PoolAt DEF CacheInv, Typed
  <2> QED
    BY <2>2, <2>3, <2>4
<1>2. Init => CacheInv
  BY InitOK
<1>3. CacheInv /\ [Next]_vars => CacheInv'
  BY StepsOK DEF StepOK
<1> QED
  BY <1>1, <1>2, <1>3, PTL DEF Spec

\* Where PROCEDURE is the first clause of its routine, the end of an exec, from
\* whatever depth of calls, destroys all its pools.
THEOREM AllPoolsDestroyed ==
  ASSUME ProcFirst
  PROVE  Spec => []NoPoolLeak
<1>1. ScopeInv => NoPoolLeak
  BY DEF ScopeInv, NoPoolLeak, Running
<1>2. Init => CacheInv /\ ScopeInv
  BY InitOK
<1>3. CacheInv /\ ScopeInv /\ [Next]_vars => (CacheInv /\ ScopeInv)'
  BY StepsOK DEF StepOK
<1> QED
  BY <1>1, <1>2, <1>3, PTL DEF Spec

\* And the end of a call brings back the pool the caller had, whether the call
\* ends by RETURN or by a SIGNAL that leaves only this call.
THEOREM CallerScopeBack ==
  ASSUME ProcFirst
  PROVE  Spec => ScopeRestored
<1>1. CacheInv /\ ScopeInv /\ [Next]_vars => Restored
  BY StepsOK DEF StepOK
<1>2. Init => CacheInv /\ ScopeInv
  BY InitOK
<1>3. CacheInv /\ ScopeInv /\ [Next]_vars => (CacheInv /\ ScopeInv)'
  BY StepsOK DEF StepOK
<1>4. CacheInv /\ ScopeInv /\ [Next]_vars =>
        [Len(frames') = Len(frames) - 1 /\ at' # "ended" =>
            Len(scopes') = Top(frames).base]_vars
  BY <1>1 DEF Restored
<1> QED
  BY <1>2, <1>3, <1>4, PTL DEF Spec, ScopeRestored

-----------------------------------------------------------------------------
(* No reference dangles while EXPOSE names no tail beside its stem.        *)

LEMMA MarksDiffer ==
  /\ Absent # Ref /\ Absent # Dangling /\ Unset # Ref /\ Unset # Dangling /\ Ref # Dangling
  /\ Absent # Unset
  /\ \A v \in Values : v # Absent /\ v # Unset /\ v # Ref /\ v # Dangling
<1>1. ASSUME NEW a, NEW b, NEW c PROVE Cardinality({a, b, c}) # 4
  <2>1. IsFiniteSet({}) /\ Cardinality({}) = 0
    BY FS_EmptySet
  <2>2. IsFiniteSet({a}) /\ Cardinality({a}) = 1
    BY FS_Singleton
  <2>3. IsFiniteSet({a} \cup {b}) /\ Cardinality({a} \cup {b}) \in {1, 2}
    BY <2>2, FS_AddElement
  <2>4. Cardinality(({a} \cup {b}) \cup {c}) \in {1, 2, 3}
    BY <2>3, FS_AddElement
  <2>5. ({a} \cup {b}) \cup {c} = {a, b, c}
    OBVIOUS
  <2> QED
    BY <2>4, <2>5
<1>2. Cardinality({Absent, Unset, Ref, Dangling}) = 4
  BY PoolAssumption
<1>3. ASSUME NEW a, NEW b, NEW c, {Absent, Unset, Ref, Dangling} = {a, b, c} PROVE FALSE
  BY <1>1, <1>2, <1>3
<1>4. Absent # Ref
  <2>1. Absent = Ref => {Absent, Unset, Ref, Dangling} = {Unset, Ref, Dangling}
    OBVIOUS
  <2> QED
    BY <1>3, <2>1
<1>5. Absent # Dangling
  <2>1. Absent = Dangling => {Absent, Unset, Ref, Dangling} = {Unset, Ref, Dangling}
    OBVIOUS
  <2> QED
    BY <1>3, <2>1
<1>6. Unset # Ref
  <2>1. Unset = Ref => {Absent, Unset, Ref, Dangling} = {Absent, Ref, Dangling}
    OBVIOUS
  <2> QED
    BY <1>3, <2>1
<1>7. Unset # Dangling
  <2>1. Unset = Dangling => {Absent, Unset, Ref, Dangling} = {Absent, Ref, Dangling}
    OBVIOUS
  <2> QED
    BY <1>3, <2>1
<1>8. Ref # Dangling
  <2>1. Ref = Dangling => {Absent, Unset, Ref, Dangling} = {Absent, Unset, Ref}
    OBVIOUS
  <2> QED
    BY <1>3, <2>1
<1>9. Absent # Unset
  <2>1. Absent = Unset => {Absent, Unset, Ref, Dangling} = {Unset, Ref, Dangling}
    OBVIOUS
  <2> QED
    BY <1>3, <2>1
<1>10. \A v \in Values : v # Absent /\ v # Unset /\ v # Ref /\ v # Dangling
  BY PoolAssumption
<1> QED
  BY <1>4, <1>5, <1>6, <1>7, <1>8, <1>9, <1>10

\* A reference is in a pool that does not expose its stem, so a DROP that ends
\* below it has passed it; and the exec's own pool exposes nothing.
RefsOK(s) ==
    /\ \A k \in 1 .. Len(s), n \in Names :
          /\ s[k].entry[n] # Dangling
          /\ s[k].entry[n] = Ref => ~Delegates(s, k, n)
    /\ Len(s) > 0 => s[1].exposed = {}

\* What is freed takes every reference to it along.
Closed(s, F) ==
    \A k \in 1 .. Len(s), n \in Names :
        s[k].entry[n] = Ref /\ <<k - 1, n>> \in F => <<k, n>> \in F

LEMMA PutRefs ==
  ASSUME NEW s \in Seq(Pool), RefsOK(s), NEW k, NEW n, NEW e \in Entry \ {Dangling},
         NEW d \in Nat, e = Ref /\ k \in 1 .. Len(s) => ~Delegates(s, k, n)
  PROVE  RefsOK(Put(s, k, n, e, d))
<1> DEFINE t == Put(s, k, n, e, d)
<1>0. e \in Entry
  OBVIOUS
<1>1. /\ Len(t) = Len(s) /\ Len(s) \in Nat
      /\ \A j \in 1 .. Len(s), m \in Names :
            t[j].entry[m] = IF j = k /\ m = n THEN e ELSE s[j].entry[m]
      /\ \A j \in 1 .. Len(s) : t[j].exposed = s[j].exposed
  <2>1. Later(s, t)
    BY <1>0, PutLater
  <2>2. \A j \in 1 .. Len(s), m \in Names :
          t[j].entry[m] = IF j = k /\ m = n THEN e ELSE s[j].entry[m]
    BY <1>0, PutLater
  <2>3. \A j \in 1 .. Len(s) : t[j].exposed = s[j].exposed
    BY PutExposed
  <2> HIDE DEF t
  <2>4. Len(t) = Len(s) /\ Len(s) \in Nat
    BY <2>1 DEF Later
  <2> QED
    BY <2>2, <2>3, <2>4
<1> HIDE DEF t
<1>2. \A j \in 1 .. Len(s), m \in Names : Delegates(t, j, m) = Delegates(s, j, m)
  BY <1>1 DEF Delegates
<1>3. Len(t) > 0 => t[1].exposed = {}
  BY <1>1 DEF RefsOK
<1>4. ASSUME NEW j \in 1 .. Len(s), NEW m \in Names
      PROVE  /\ t[j].entry[m] # Dangling
             /\ t[j].entry[m] = Ref => ~Delegates(t, j, m)
  BY <1>1, <1>2 DEF RefsOK
<1> QED
  BY <1>1, <1>3, <1>4 DEF RefsOK, t

LEMMA FreedRefs ==
  ASSUME NEW s \in Seq(Pool), RefsOK(s), NEW F, Closed(s, F)
  PROVE  RefsOK(Freed(s, F))
<1> DEFINE t == Freed(s, F)
<1>1. /\ Len(t) = Len(s) /\ Len(s) \in Nat
      /\ \A j \in 1 .. Len(s), m \in Names :
            t[j].entry[m] = IF <<j, m>> \in F THEN Absent
                            ELSE IF s[j].entry[m] = Ref /\ <<j - 1, m>> \in F THEN Dangling
                            ELSE s[j].entry[m]
      /\ \A j \in 1 .. Len(s) : t[j].exposed = s[j].exposed
  BY FreedLater DEF Later
<1> HIDE DEF t
<1>2. \A j \in 1 .. Len(s), m \in Names : Delegates(t, j, m) = Delegates(s, j, m)
  BY <1>1 DEF Delegates
<1>3. Len(t) > 0 => t[1].exposed = {}
  BY <1>1 DEF RefsOK
<1>4. ASSUME NEW j \in 1 .. Len(s), NEW m \in Names
      PROVE  /\ t[j].entry[m] # Dangling
             /\ t[j].entry[m] = Ref => ~Delegates(t, j, m)
  <2>1. t[j].entry[m] = Absent \/ t[j].entry[m] = s[j].entry[m]
    BY <1>1 DEF Closed
  <2> QED
    BY <1>2, <2>1, MarksDiffer DEF RefsOK
<1> QED
  BY <1>1, <1>3, <1>4 DEF RefsOK, t

LEMMA AssignedRefs ==
  ASSUME NEW s \in Seq(Pool), RefsOK(s), NEW n, NEW v \in Values, NEW grow \in Nat
  PROVE  RefsOK(Assigned(s, n, v, grow))
<1>1. v \in Entry \ {Dangling} /\ v # Ref
  BY MarksDiffer DEF Entry
<1> QED
  BY <1>1, PutRefs DEF Assigned

\* vpool_drop frees the reference before what it refers to, all the way down.
LEMMA DropClosed ==
  ASSUME NEW s \in Seq(Pool), RefsOK(s), NEW n \in Names, NEW k \in 1 .. Len(s),
         \A j \in k + 1 .. Len(s) : Delegates(s, j, n)
  PROVE  Closed(s, DropFrees(s, k, n))
<1> DEFINE F == DropFrees(s, k, n)
<1> SUFFICES ASSUME NEW i \in 1 .. Len(s), NEW m \in Names, s[i].entry[m] = Ref,
                    <<i - 1, m>> \in F
             PROVE  <<i, m>> \in F
  BY DEF Closed
<1>1. /\ m = n /\ i - 1 \in 1 .. k
      /\ \A l \in i - 1 + 1 .. k : Delegates(s, l, n) \/ s[l].entry[n] \in {Ref, Dangling}
  BY DEF DropFrees
<1>2. ~Delegates(s, i, n) /\ s[i].entry[n] # Absent
  BY <1>1, MarksDiffer DEF RefsOK
<1>3. i \in 1 .. k
  BY <1>1, <1>2
<1>4. \A l \in i + 1 .. k : Delegates(s, l, n) \/ s[l].entry[n] \in {Ref, Dangling}
  BY <1>1
<1> QED
  BY <1>1, <1>2, <1>3, <1>4 DEF DropFrees

\* An access from level L ends at the highest level that does not delegate the name.
LEMMA HomeIs ==
  ASSUME NEW s \in Seq(Pool), RefsOK(s), NEW L \in 1 .. Len(s), NEW m
  PROVE  /\ Home(s, L, m) \in 1 .. L /\ ~Delegates(s, Home(s, L, m), m)
         /\ \A j \in Home(s, L, m) + 1 .. L : Delegates(s, j, m)
<1> DEFINE T == {j \in 1 .. L : ~Delegates(s, j, m)}
<1>1. T \subseteq 1 .. L /\ L \in Nat
  OBVIOUS
<1>2. 1 \in T
  BY DEF Delegates, RefsOK
<1>3. Home(s, L, m) = Max(T)
  BY DEF Home
<1>4. \A j \in 1 .. L : ~Delegates(s, j, m) <=> j \in T
  OBVIOUS
<1> HIDE DEF T
<1>5. Max(T) \in T /\ \A j \in T : j <= Max(T)
  BY <1>1, <1>2, MaxExists
<1> DEFINE h == Home(s, L, m)
<1>6. h = Max(T)
  BY <1>3
<1> HIDE DEF h
<1>7. h \in 1 .. L
  BY <1>1, <1>5, <1>6
<1>8. ASSUME NEW j \in h + 1 .. L PROVE Delegates(s, j, m)
  <2>1. j \in 1 .. L /\ ~(j <= h)
    BY <1>1, <1>7
  <2> QED
    BY <1>4, <1>5, <1>6, <2>1
<1> QED
  BY <1>4, <1>5, <1>6, <1>7, <1>8 DEF h

\* vpool_drop_stem_all does so for every tail: the levels it passes delegate the
\* stem, and with it every tail.
LEMMA StemClosed ==
  ASSUME NEW s \in Seq(Pool), RefsOK(s), Len(s) > 0, NEW m \in Stems
  PROVE  Closed(s, DropStemFrees(s, m))
<1> DEFINE k == Home(s, Len(s), m)
           X == {x \in Under(m) : s[k].entry[x] # Absent}
<1>1. k \in 1 .. Len(s) /\ \A j \in k + 1 .. Len(s) : Delegates(s, j, m)
  <2>1. Len(s) \in 1 .. Len(s)
    OBVIOUS
  <2> QED
    BY <2>1, HomeIs
<1>2. DropStemFrees(s, m) = UNION {DropFrees(s, k, x) : x \in X}
  BY DEF DropStemFrees
<1>3. X \subseteq Under(m)
  OBVIOUS
<1> HIDE DEF k, X
<1>4. ASSUME NEW x \in X PROVE Closed(s, DropFrees(s, k, x))
  <2>1. x \in Names /\ StemsOf(m) = {m} /\ m \in StemsOf(x)
    BY <1>3, PoolAssumption DEF Under, StemsOf
  <2>2. \A j \in k + 1 .. Len(s) : Delegates(s, j, x)
    BY <1>1, <2>1 DEF Delegates
  <2> QED
    BY <1>1, <2>1, <2>2, DropClosed
<1> QED
  BY <1>2, <1>4 DEF Closed

RefInv == RefsOK(scopes)

LEMMA KeepRefs ==
  ASSUME CacheInv, RefInv, NEW n \in Names, NEW v \in Values,
         Assign(n, v) \/ (n \in Stems /\ AssignStem(n, v)) \/ Drop(n)
  PROVE  RefInv'
<1>1. Running
  BY DEF Assign, AssignStem, Drop
<1>2. scopes \in Seq(Pool) /\ RefsOK(scopes) /\ Depth = Len(scopes) /\ Depth \in 1 .. Len(scopes)
      /\ Len(scopes) > 0
  BY <1>1, TopPool DEF CacheInv, Typed, RefInv, Depth
<1>3. n \in Stems => Closed(scopes, DropStemFrees(scopes, n))
  BY <1>2, StemClosed
<1>4. Closed(scopes, DropFrees(scopes, Depth, n))
  BY <1>2, DropClosed
<1>5. CASE Assign(n, v)
  BY <1>2, <1>5, GrowNat, AssignedRefs DEF Assign, RefInv
<1>6. CASE n \in Stems /\ AssignStem(n, v)
  <2> DEFINE u == Freed(scopes, DropStemFrees(scopes, n))
  <2>1. PICK grow \in Grow : scopes' = Assigned(u, n, v, grow)
    BY <1>6 DEF AssignStem
  <2>2. u \in Seq(Pool) /\ RefsOK(u)
    BY <1>2, <1>3, <1>6, FreedLater, FreedRefs DEF Later
  <2> HIDE DEF u
  <2> QED
    BY <2>1, <2>2, GrowNat, AssignedRefs DEF RefInv
<1>7. CASE Drop(n)
  BY <1>2, <1>3, <1>4, <1>7, FreedRefs DEF Drop, RefInv
<1> QED
  BY <1>5, <1>6, <1>7

LEMMA PoppedRefs ==
  ASSUME NEW s \in Seq(Pool), RefsOK(s), AddrsDiffer(s), NEW k \in 0 .. Len(s)
  PROVE  Popped(s, k) \in Seq(Pool) /\ RefsOK(Popped(s, k))
<1> DEFINE t == Popped(s, k)
<1>1. t \in Seq(Pool) /\ Len(t) = Len(s) - k /\ \A j \in 1 .. Len(s) - k : t[j] = s[j]
  BY PoppedPools
<1> HIDE DEF t
<1>2. Len(s) \in Nat /\ Len(t) \in Nat /\ \A j \in 1 .. Len(t) : j \in 1 .. Len(s)
  BY <1>1
<1>3. \A j \in 1 .. Len(t), m \in Names : Delegates(t, j, m) = Delegates(s, j, m)
  BY <1>1 DEF Delegates
<1> QED
  BY <1>1, <1>2, <1>3 DEF RefsOK, t

LEMMA NewRefs ==
  ASSUME NEW s \in Seq(Pool), RefsOK(s), AddrsDiffer(s), NEW a \in Addrs,
         \A k \in 1 .. Len(s) : s[k].addr # a
  PROVE  RefsOK(Append(s, NewPool(a)))
<1> DEFINE t == Append(s, NewPool(a))
<1>1. /\ Len(t) = Len(s) + 1 /\ \A j \in 1 .. Len(s) : t[j] = s[j]
      /\ t[Len(s) + 1] = NewPool(a) /\ Len(s) \in Nat
  BY NewPools
<1>2. NewPool(a).exposed = {} /\ \A m \in Names : NewPool(a).entry[m] = Absent
  BY DEF NewPool
<1> HIDE DEF t
<1>3. Len(t) > 0 => t[1].exposed = {}
  <2>1. CASE Len(s) = 0
    BY <1>1, <1>2, <2>1
  <2>2. CASE Len(s) > 0
    BY <1>1, <2>2 DEF RefsOK
  <2> QED
    BY <1>1, <2>1, <2>2
<1>4. ASSUME NEW j \in 1 .. Len(t), NEW m \in Names
      PROVE  /\ t[j].entry[m] # Dangling
             /\ t[j].entry[m] = Ref => ~Delegates(t, j, m)
  <2>1. CASE j \in 1 .. Len(s)
    BY <1>1, <2>1 DEF RefsOK, Delegates
  <2>2. CASE j = Len(s) + 1
    BY <1>1, <1>2, <2>2, MarksDiffer
  <2> QED
    BY <1>1, <2>1, <2>2
<1> QED
  BY <1>3, <1>4 DEF RefsOK, t

LEMMA ExposeRefs ==
  ASSUME CacheInv, RefInv, ~Overlap, NEW n \in Names,
         (n \in Stems /\ ExposeStem(n)) \/ (n \notin Stems /\ ExposeVar(n))
  PROVE  RefInv'
<1>1. at = "expose" /\ Running /\ ~Overlaps(n)
  BY DEF ExposeStem, ExposeVar, Running
<1>2. /\ scopes \in Seq(Pool) /\ RefsOK(scopes) /\ Depth = Len(scopes)
      /\ Depth \in 1 .. Len(scopes) /\ Depth > 1 /\ Top(scopes) = scopes[Depth]
      /\ DOMAIN scopes = 1 .. Len(scopes)
  BY <1>1, TopPool DEF CacheInv, Typed, RefInv, Depth, DepthInv
<1>3. CASE n \in Stems /\ ExposeStem(n)
  <2>1. scopes' = [scopes EXCEPT ![Depth].exposed = @ \cup {n}, ![Depth].gen = Bump(@, 1)]
    BY <1>3 DEF ExposeStem
  <2>2. \A c \in Under(n) : scopes[Depth].entry[c] = Absent
    BY <1>1, <1>2, <1>3 DEF Overlaps
  <2> DEFINE d == Depth
             p == [scopes[d] EXCEPT !.exposed = @ \cup {n}, !.gen = Bump(@, 1)]
  <2>3. /\ DOMAIN scopes' = 1 .. Len(scopes) /\ scopes'[d] = p
        /\ \A j \in 1 .. Len(scopes) : j # d => scopes'[j] = scopes[j]
    BY <1>2, <2>1
  <2>4. p.entry = scopes[d].entry /\ p.exposed = scopes[d].exposed \cup {n}
    <3>1. scopes[d] \in Pool
      BY <1>2
    <3> QED
      BY <3>1 DEF Pool
  <2> HIDE DEF p, d
  <2>5. Len(scopes') = Len(scopes)
    <3>1. StepOK
      BY <1>3, ExposeStemStep
    <3>2. scopes' \in Seq(Pool)
      BY <3>1 DEF StepOK, CacheInv, Typed
    <3> QED
      BY <1>2, <2>3, <3>2
  <2>6. ASSUME NEW j \in 1 .. Len(scopes), NEW m \in Names
        PROVE  /\ scopes'[j].entry[m] # Dangling
               /\ scopes'[j].entry[m] = Ref => ~Delegates(scopes', j, m)
    <3>1. CASE j # d
      BY <1>2, <2>3, <3>1 DEF RefsOK, Delegates
    <3>2. CASE j = d
      <4>1. scopes'[j].entry[m] = scopes[d].entry[m]
        BY <2>3, <2>4, <3>2
      <4>2. ASSUME scopes'[j].entry[m] = Ref PROVE ~Delegates(scopes', j, m)
        <5>1. m \notin Under(n)
          BY <2>2, <4>1, <4>2, MarksDiffer DEF d
        <5>2. n \notin StemsOf(m)
          BY <5>1 DEF Under
        <5>3. ~Delegates(scopes, j, m)
          BY <1>2, <3>2, <4>1, <4>2 DEF RefsOK
        <5> QED
          BY <2>3, <2>4, <3>2, <5>2, <5>3 DEF Delegates
      <4> QED
        BY <1>2, <3>2, <4>1, <4>2 DEF RefsOK
    <3> QED
      BY <3>1, <3>2
  <2>7. scopes'[1].exposed = {}
    <3>1. 1 \in 1 .. Len(scopes) /\ 1 # d
      BY <1>2 DEF d
    <3> QED
      BY <1>2, <2>3, <3>1 DEF RefsOK
  <2> QED
    BY <2>5, <2>6, <2>7 DEF RefInv, RefsOK
<1>4. CASE n \notin Stems /\ ExposeVar(n)
  <2> DEFINE F == IF Top(scopes).entry[n] = Absent THEN {} ELSE {<<Depth, n>>}
             s == Freed(scopes, F)
             up(g) == IF s[Depth - 1].entry[n] # Absent THEN s ELSE Put(s, Depth - 1, n, Unset, g)
  <2>1. PICK g \in Grow, grow \in Grow : scopes' = Put(up(g), Depth, n, Ref, 1 + grow)
    BY <1>4 DEF ExposeVar
  <2>2. ~Delegates(scopes, Depth, n)
    <3>1. n \notin Compounds => StemsOf(n) = {}
      BY <1>4 DEF StemsOf
    <3> QED
      BY <1>1, <3>1 DEF Overlaps, Delegates
  <2>3. Closed(scopes, F)
    BY <1>2 DEF Closed
  <2> HIDE DEF F
  <2>4. s \in Seq(Pool) /\ RefsOK(s) /\ Len(s) = Len(scopes)
    BY <1>2, <2>3, FreedLater, FreedRefs DEF Later
  <2>5. \A j \in 1 .. Len(scopes) : s[j].exposed = scopes[j].exposed
    BY <1>2, FreedLater
  <2> HIDE DEF s
  <2>6. /\ Unset \in Entry \ {Dangling} /\ Unset # Ref /\ Ref \in Entry \ {Dangling}
        /\ g \in Nat /\ 1 + grow \in Nat /\ Unset \in Entry
    BY MarksDiffer, GrowNat DEF Entry
  <2>7. /\ up(g) \in Seq(Pool) /\ RefsOK(up(g)) /\ Len(up(g)) = Len(scopes)
        /\ \A j \in 1 .. Len(scopes) : up(g)[j].exposed = scopes[j].exposed
    <3>1. CASE s[Depth - 1].entry[n] # Absent
      BY <2>4, <2>5, <3>1
    <3>2. CASE s[Depth - 1].entry[n] = Absent
      <4> DEFINE t == Put(s, Depth - 1, n, Unset, g)
      <4>1. RefsOK(t)
        BY <2>4, <2>6, PutRefs
      <4>2. Later(s, t)
        BY <2>4, <2>6, PutLater
      <4>3. \A j \in 1 .. Len(s) : t[j].exposed = s[j].exposed
        BY <2>4, PutExposed
      <4>4. up(g) = t
        BY <3>2
      <4> HIDE DEF t, up
      <4> QED
        BY <2>4, <2>5, <4>1, <4>2, <4>3, <4>4 DEF Later
    <3> QED
      BY <3>1, <3>2
  <2> HIDE DEF up
  <2>8. ~Delegates(up(g), Depth, n)
    BY <1>2, <2>2, <2>7 DEF Delegates
  <2>9. RefsOK(scopes')
    BY <2>1, <2>6, <2>7, <2>8, PutRefs
  <2> QED
    BY <2>9 DEF RefInv
<1> QED
  BY <1>3, <1>4

LEMMA ScopeRefs ==
  ASSUME CacheInv, RefInv, NEW a \in Addrs, NEW v \in Values,
         \/ Start(a) \/ Procedure(a) \/ Call \/ ReturnPlain \/ ReturnValue(v) \/ Signal \/ End
  PROVE  RefInv'
<1>1. /\ scopes \in Seq(Pool) /\ RefsOK(scopes) /\ AddrsDiffer(scopes)
      /\ frames \in Seq(Frame) /\ DOMAIN scopes = 1 .. Len(scopes) /\ Depth = Len(scopes)
      /\ Len(scopes) \in Nat
  BY DEF CacheInv, Typed, RefInv, Depth
<1>2. Running => Len(scopes) >= 1 + Isolated /\ Isolated \in Nat
  BY <1>1, IsolatedIsOwn DEF CacheInv, DepthInv
<1>3. CASE Start(a)
  <2>1. scopes = <<>> /\ scopes' = <<NewPool(a)>>
    BY <1>3 DEF Start
  <2>2. scopes' = Append(scopes, NewPool(a)) /\ \A k \in 1 .. Len(scopes) : FALSE
    BY <2>1
  <2>3. RefsOK(Append(scopes, NewPool(a)))
    BY <1>1, <2>2, NewRefs
  <2> QED
    BY <2>2, <2>3 DEF RefInv
<1>4. CASE Procedure(a)
  BY <1>1, <1>4, NewRefs DEF Procedure, RefInv
<1>5. CASE Call
  BY <1>1, <1>5, GrowNat, PoolAssumption, AssignedRefs DEF Call, RefInv
<1>6. Running => RefsOK(Popped(scopes, 1)) /\ Popped(scopes, 1) \in Seq(Pool)
  <2> SUFFICES ASSUME Running
               PROVE  RefsOK(Popped(scopes, 1)) /\ Popped(scopes, 1) \in Seq(Pool)
    OBVIOUS
  <2>1. 1 \in 0 .. Len(scopes)
    BY <1>1, <1>2
  <2> QED
    BY <1>1, <2>1, PoppedRefs
<1>7. CASE ReturnPlain
  <2>1. CASE Top(frames).isolated
    BY <1>6, <1>7, <2>1 DEF ReturnPlain, RefInv
  <2>2. CASE ~Top(frames).isolated
    <3>1. scopes' = Freed(scopes, DropFrees(scopes, Depth, RESULT)) /\ Running
      BY <1>7, <2>2 DEF ReturnPlain
    <3>2. Depth \in 1 .. Len(scopes) /\ RESULT \in Names
      BY <1>1, <1>2, <3>1, PoolAssumption DEF Names
    <3>3. Closed(scopes, DropFrees(scopes, Depth, RESULT))
      BY <1>1, <3>2, DropClosed
    <3> QED
      BY <1>1, <3>1, <3>3, FreedRefs DEF RefInv
  <2> QED
    BY <2>1, <2>2
<1>8. CASE ReturnValue(v)
  <2>1. CASE Top(frames).isolated
    BY <1>6, <1>8, <2>1, GrowNat, AssignedRefs DEF ReturnValue, RefInv
  <2>2. CASE ~Top(frames).isolated
    BY <1>1, <1>8, <2>2, GrowNat, AssignedRefs DEF ReturnValue, RefInv
  <2> QED
    BY <2>1, <2>2
<1>9. CASE Signal
  <2> DEFINE r == Popped(scopes, Isolated)
  <2>1. PICK grow \in Grow, more \in Grow :
          scopes' \in {Assigned(r, SIGL, Number, grow),
                      Assigned(Assigned(r, SIGL, Number, grow), RC, Number, more)}
    BY <1>9 DEF Signal
  <2>2. Isolated \in 0 .. Len(scopes)
    BY <1>1, <1>2, <1>9 DEF Signal
  <2>3. RefsOK(r) /\ r \in Seq(Pool)
    BY <1>1, <2>2, PoppedRefs
  <2> HIDE DEF r
  <2> DEFINE u == Assigned(r, SIGL, Number, grow)
  <2>4. RefsOK(u) /\ u \in Seq(Pool)
    BY <2>3, GrowNat, PoolAssumption, AssignedRefs, AssignedLater DEF Later
  <2>5. scopes' = u \/ scopes' = Assigned(u, RC, Number, more)
    BY <2>1
  <2> HIDE DEF u
  <2>6. RefsOK(Assigned(u, RC, Number, more))
    BY <2>4, GrowNat, PoolAssumption, AssignedRefs
  <2> QED
    BY <2>4, <2>5, <2>6 DEF RefInv
<1>10. CASE End
  <2>1. scopes' = Popped(scopes, Isolated + 1) /\ Running
    BY <1>10 DEF End
  <2>2. Isolated + 1 \in 0 .. Len(scopes)
    BY <1>1, <1>2, <2>1
  <2> QED
    BY <1>1, <2>1, <2>2, PoppedRefs DEF RefInv
<1> QED
  BY <1>3, <1>4, <1>5, <1>7, <1>8, <1>9, <1>10

LEMMA StepRefs ==
  ASSUME CacheInv, RefInv, ~Overlap, [Next]_vars
  PROVE  RefInv'
<1>1. ASSUME NEW a \in Addrs, Start(a) \/ Procedure(a) PROVE RefInv'
  BY <1>1, ScopeRefs, PoolAssumption
<1>2. ASSUME NEW v \in Values, NEW n \in Mentions \ Stems, Assign(n, v) PROVE RefInv'
  BY <1>2, KeepRefs, PoolAssumption
<1>3. ASSUME NEW v \in Values, NEW m \in Mentions \cap Stems, AssignStem(m, v) PROVE RefInv'
  BY <1>3, KeepRefs, PoolAssumption
<1>4. ASSUME NEW n \in Mentions, Drop(n) PROVE RefInv'
  BY <1>4, KeepRefs, PoolAssumption
<1>5. CASE UNCHANGED scopes
  BY <1>5 DEF RefInv, RefsOK, Delegates
<1>6. ASSUME NEW m \in Mentions \cap Stems, ExposeStem(m) PROVE RefInv'
  BY <1>6, ExposeRefs, PoolAssumption
<1>7. ASSUME NEW n \in Mentions \ Stems, ExposeVar(n) PROVE RefInv'
  BY <1>7, ExposeRefs, PoolAssumption
<1>8. ASSUME NEW v \in Values, Call \/ ReturnPlain \/ ReturnValue(v) \/ Signal \/ End
      PROVE  RefInv'
  <2>1. Running
    BY <1>8 DEF Call, ReturnPlain, ReturnValue, Signal, End
  <2>2. Top(scopes).addr \in Addrs
    BY <2>1, TopPool, PoolAt DEF CacheInv, Typed
  <2> QED
    BY <1>8, <2>2, ScopeRefs
<1>9. ASSUME NEW n \in Cached, Load(n) PROVE UNCHANGED scopes
  BY <1>9 DEF Load
<1>10. UNCHANGED vars => UNCHANGED scopes
  BY DEF vars
<1>11. Number \in Values
  BY PoolAssumption
<1> QED
  BY <1>1, <1>2, <1>3, <1>4, <1>5, <1>6, <1>7, <1>8, <1>9, <1>10, <1>11 DEF Next

\* While EXPOSE names no tail beside its stem, no entry refers to one that was
\* freed, however deep the pools are: vpool_drop frees the reference before the
\* entry it refers to, and vpool_drop_stem_all does so for every tail.
THEOREM NothingDangles ==
  ASSUME ~Overlap
  PROVE  Spec => []NoDanglingRef
<1>1. CacheInv /\ RefInv => NoDanglingRef
  BY DEF CacheInv, Typed, RefInv, RefsOK, NoDanglingRef
<1>2. Init => CacheInv /\ RefInv
  BY InitOK DEF Init, RefInv, RefsOK
<1>3. CacheInv /\ RefInv /\ [Next]_vars => (CacheInv /\ RefInv)'
  BY StepsOK, StepRefs DEF StepOK
<1> QED
  BY <1>1, <1>2, <1>3, PTL DEF Spec
=============================================================================
