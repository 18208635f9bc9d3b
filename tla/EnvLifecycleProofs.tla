------------------------ MODULE EnvLifecycleProofs ------------------------
(***************************************************************************)
(* What EnvLifecycle guarantees for any set of ENVBLOCK addresses and any  *)
(* registry size, whichever GETMAIN or LOAD fails.                         *)
(***************************************************************************)
EXTENDS EnvLifecycle, FiniteSetTheorems, TLAPS

-----------------------------------------------------------------------------
(* The inductive invariant.                                                *)

Building(b) == call # NoCall /\ call.b = b

BeforeLoad == {"env", "parm", "modnamet", "exte", "overrides"}
AfterLoad == {"defaults", "register", "subhdr", "subent", "wkblk", "undo"}
AfterRegister == {"subhdr", "subent", "wkblk", "undo"}

\* What INITENVB has acquired by the time it is at pc.
AcquiredAt(pc, h) ==
    /\ pc = "env" => h = {}
    /\ pc = "parm" => h = {"env"}
    /\ pc = "modnamet" => h = {"env", "parm"}
    /\ pc = "exte" => h = {"env", "parm", "modnamet"}
    /\ pc \in {"overrides", "defaults", "register", "subhdr"} => h = CoreKinds
    /\ pc = "subent" => h = CoreKinds \cup {"subhdr"}
    /\ pc = "wkblk" => h = CoreKinds \cup SubcomtbKinds
    /\ pc = "cleanup" => h \subseteq CoreKinds
    /\ pc = "undo" => CoreKinds \subseteq h /\ h \subseteq CoreKinds \cup SubcomtbKinds

\* The environment under construction: where the call is tells what it owns,
\* whether step 6 has run and whether step 8 has.
CallInv ==
    call # NoCall =>
        /\ call.b \in Blocks \ held
        /\ call.pc # "none"
        /\ call.door \in Doors
        /\ AcquiredAt(call.pc, heap[call.b])
        /\ call.pc \in BeforeLoad => ~call.loaded
        /\ call.pc \in AfterLoad => call.loaded
        /\ call.pc \in AfterRegister => call.b \in registered \/ left = 0
        /\ call.b \in registered => call.pc \in AfterRegister
        /\ call.pc = "undo" => call.door = "c"

\* No caller and no slot is left with an ENVBLOCK that was freed.
OwnersBacked == \A b \in held \cup registered : CoreKinds \subseteq heap[b]

\* Only an environment with an ENVBLOCK that has been through step 6 has
\* routines, and its MODNAMET names exactly those IRXTERM will have to DELETE.
NamesInv ==
    \A b \in Blocks :
        /\ "env" \notin heap[b] => active[b] = NoNames
        /\ names[b] = active[b] \/ (Building(b) /\ ~call.loaded)
        /\ Building(b) /\ ~call.loaded => active[b] = NoNames

\* The slots whose routine is r, over all environments.
Users(act, r) == {p \in Blocks \X Slots : act[p[1]][p[2]] = r}

UsesInv ==
    \A r \in Routines :
        IsFiniteSet(Users(active, r)) /\ uses[r] = Cardinality(Users(active, r))

LifeInv == TypeOK /\ CallInv /\ OwnersBacked /\ NamesInv /\ UsesInv

\* Through the C functions alone nothing is lost on the way either.
OrphansInv ==
    \A b \in Blocks :
        heap[b] # {} => b \in held \/ Building(b) \/ (left = 0 /\ b \notin registered)

ReadyInv ==
    \A b \in registered : Building(b) \/ SubcomtbKinds \cup {"wkblk"} \subseteq heap[b]

-----------------------------------------------------------------------------
(* Counting the slots that name a routine.                                 *)

Names == [Slots -> Routines \cup {Blank}]

LEMMA SlotsFinite ==
  ASSUME NEW S \in SUBSET Slots
  PROVE  IsFiniteSet(S) /\ Cardinality(S) \in Nat
<1>1. IsFiniteSet({"iorout"})
  BY FS_Singleton
<1>2. IsFiniteSet({"iorout"} \cup {"exrout"})
  BY <1>1, FS_AddElement
<1>3. IsFiniteSet(({"iorout"} \cup {"exrout"}) \cup {"idrout"})
  BY <1>2, FS_AddElement
<1>4. IsFiniteSet((({"iorout"} \cup {"exrout"}) \cup {"idrout"}) \cup {"msgidrt"})
  BY <1>3, FS_AddElement
<1>5. (({"iorout"} \cup {"exrout"}) \cup {"idrout"}) \cup {"msgidrt"} = Slots
  BY DEF Slots
<1>6. IsFiniteSet(S)
  BY <1>4, <1>5, FS_Subset
<1> QED
  BY <1>6, FS_CardinalityType

LEMMA NameCountNat ==
  ASSUME NEW n, NEW r
  PROVE  NameCount(n, r) \in Nat
<1>1. {s \in Slots : n[s] = r} \in SUBSET Slots
  OBVIOUS
<1> QED
  BY <1>1, SlotsFinite DEF NameCount

LEMMA NoNamesCount ==
  ASSUME NEW r \in Routines
  PROVE  NameCount(NoNames, r) = 0
<1>1. {s \in Slots : NoNames[s] = r} = {}
  BY LifecycleAssumption DEF NoNames
<1> QED
  BY <1>1, FS_EmptySet DEF NameCount

\* Two sets of wirings that share no slot are counted one by one.
LEMMA MergedCount ==
  ASSUME NEW r \in Routines, NEW n \in Names, NEW m \in Names, NEW w \in Names,
         \A s \in Slots : n[s] = Blank \/ m[s] = Blank,
         \A s \in Slots : w[s] = IF m[s] = Blank THEN n[s] ELSE m[s]
  PROVE  NameCount(w, r) = NameCount(n, r) + NameCount(m, r)
<1> DEFINE N == {s \in Slots : n[s] = r}
           M == {s \in Slots : m[s] = r}
<1>1. r # Blank
  BY LifecycleAssumption
<1>2. {s \in Slots : w[s] = r} = N \cup M
  BY <1>1
<1>3. N \cap M = {}
  BY <1>1
<1>4. IsFiniteSet(N) /\ IsFiniteSet(M) /\ Cardinality(N) \in Nat /\ Cardinality(M) \in Nat
  BY SlotsFinite
<1>5. Cardinality(N \cup M) = Cardinality(N) + Cardinality(M) - Cardinality(N \cap M)
  BY <1>4, FS_Union
<1>6. Cardinality(N \cap M) = 0
  BY <1>3, FS_EmptySet
<1>7. Cardinality(N \cup M) = Cardinality(N) + Cardinality(M)
  BY <1>4, <1>5, <1>6
<1> QED
  BY <1>2, <1>7 DEF NameCount

\* The users of r in the row of one environment are its slots that name r.
LEMMA RowCount ==
  ASSUME NEW b, NEW S \in SUBSET Slots
  PROVE  IsFiniteSet({b} \X S) /\ Cardinality({b} \X S) = Cardinality(S)
<1>1. IsFiniteSet({b}) /\ Cardinality({b}) = 1
  BY FS_Singleton
<1>2. IsFiniteSet(S) /\ Cardinality(S) \in Nat
  BY SlotsFinite
<1>3. IsFiniteSet({b} \X S) /\ Cardinality({b} \X S) = 1 * Cardinality(S)
  BY <1>1, <1>2, FS_Product
<1> QED
  BY <1>2, <1>3

\* Giving one environment new wirings moves the count of users of a routine by
\* the difference of the two.
LEMMA Rewired ==
  ASSUME NEW act \in [Blocks -> Names], NEW b \in Blocks, NEW n \in Names,
         NEW r \in Routines, IsFiniteSet(Users(act, r))
  PROVE  LET act2 == [act EXCEPT ![b] = n] IN
         /\ IsFiniteSet(Users(act2, r))
         /\ Cardinality(Users(act, r)) >= NameCount(act[b], r)
         /\ Cardinality(Users(act2, r)) =
              Cardinality(Users(act, r)) - NameCount(act[b], r) + NameCount(n, r)
<1> DEFINE act2 == [act EXCEPT ![b] = n]
           Others == {p \in Blocks \X Slots : p[1] # b /\ act[p[1]][p[2]] = r}
           OldRow == {b} \X {s \in Slots : act[b][s] = r}
           NewRow == {b} \X {s \in Slots : n[s] = r}
<1>1. Users(act, r) = Others \cup OldRow
  BY DEF Users
<1>2. Users(act2, r) = Others \cup NewRow
  BY DEF Users
<1>3. Others \cap OldRow = {} /\ Others \cap NewRow = {}
  OBVIOUS
<1>4. IsFiniteSet(Others)
  BY <1>1, FS_Subset
<1>5. /\ IsFiniteSet(OldRow) /\ Cardinality(OldRow) = NameCount(act[b], r)
      /\ IsFiniteSet(NewRow) /\ Cardinality(NewRow) = NameCount(n, r)
  BY RowCount DEF NameCount
<1>6. Cardinality({}) = 0
  BY FS_EmptySet
<1>7. Cardinality(Users(act, r)) = Cardinality(Others) + NameCount(act[b], r) - 0
  BY <1>1, <1>3, <1>4, <1>5, <1>6, FS_Union
<1>8. /\ IsFiniteSet(Users(act2, r))
      /\ Cardinality(Users(act2, r)) = Cardinality(Others) + NameCount(n, r) - 0
  <2>1. /\ IsFiniteSet(Others \cup NewRow)
        /\ Cardinality(Others \cup NewRow) = Cardinality(Others) + NameCount(n, r) - 0
    BY <1>3, <1>4, <1>5, <1>6, FS_Union
  <2> QED
    BY <1>2, <2>1
<1>9. /\ Cardinality(Others) \in Nat
      /\ NameCount(act[b], r) \in Nat
      /\ NameCount(n, r) \in Nat
  BY <1>4, FS_CardinalityType, NameCountNat
<1> QED
  BY <1>7, <1>8, <1>9

LEMMA UsesCounted == UsesInv => UsesBacked
  BY DEF UsesInv, UsesBacked, Users

-----------------------------------------------------------------------------
(* The invariant holds initially and is preserved by every operation.      *)

LEMMA NoCallShape == NoCall.pc = "none" /\ NoCall.b = Idle
  BY DEF NoCall

\* A call in progress is recognised by its pc.
LEMMA InCall ==
  ASSUME LifeInv
  PROVE  /\ call.pc # "none" => call # NoCall
         /\ call # NoCall => call.pc # "none" /\ call.b \in Blocks /\ Building(call.b)
  BY DEF LifeInv, CallInv, NoCall, Building

LEMMA InitLife == Init => LifeInv
<1> SUFFICES ASSUME Init PROVE LifeInv
  OBVIOUS
<1> USE LifecycleAssumption
<1>1. NoNames \in [Slots -> Routines \cup {Blank}]
  BY DEF NoNames
<1>2. TypeOK
  BY <1>1 DEF Init, TypeOK, NoCall, Pcs
<1>3. CallInv /\ OwnersBacked
  BY DEF Init, CallInv, OwnersBacked
<1>4. NamesInv
  BY DEF Init, NamesInv, Building
<1>5. UsesInv
  <2> SUFFICES ASSUME NEW r \in Routines
               PROVE  IsFiniteSet(Users(active, r)) /\ uses[r] = Cardinality(Users(active, r))
    BY DEF UsesInv
  <2>1. Users(active, r) = {}
    BY DEF Users, Init, NoNames
  <2> QED
    BY <2>1, FS_EmptySet DEF Init
<1> QED
  BY <1>2, <1>3, <1>4, <1>5 DEF LifeInv

\* Steps that rewire the routines of one environment and LOAD or DELETE the
\* difference keep the use counts exact.
LEMMA RewiredUses ==
  ASSUME LifeInv, NEW b \in Blocks, NEW n \in Names,
         active' = [active EXCEPT ![b] = n],
         \A r \in Routines :
            uses'[r] = uses[r] - NameCount(active[b], r) + NameCount(n, r),
         uses' = [r \in Routines |-> uses'[r]]
  PROVE  UsesInv' /\ uses' \in [Routines -> Nat]
<1>1. active \in [Blocks -> Names]
  BY DEF LifeInv, TypeOK, Names
<1>2. ASSUME NEW r \in Routines
      PROVE  /\ IsFiniteSet(Users(active', r))
             /\ uses'[r] = Cardinality(Users(active', r))
             /\ uses'[r] \in Nat
  <2>1. IsFiniteSet(Users(active, r)) /\ uses[r] = Cardinality(Users(active, r))
    BY DEF LifeInv, UsesInv
  <2>2. /\ IsFiniteSet(Users(active', r))
        /\ Cardinality(Users(active', r)) =
             Cardinality(Users(active, r)) - NameCount(active[b], r) + NameCount(n, r)
    BY <1>1, <2>1, Rewired
  <2>3. Cardinality(Users(active', r)) \in Nat
    BY <2>2, FS_CardinalityType
  <2> QED
    BY <2>1, <2>2, <2>3
<1> QED
  BY <1>2 DEF UsesInv

\* Steps that leave routines and use counts alone.
LEMMA QuietUses ==
  ASSUME LifeInv, UNCHANGED <<active, uses>>
  PROVE  UsesInv' /\ uses' \in [Routines -> Nat]
  BY DEF LifeInv, UsesInv, TypeOK

LEMMA BeginLife ==
  ASSUME LifeInv, NEW b \in Blocks, NEW door \in Doors, Begin(b, door)
  PROVE  LifeInv'
<1> USE LifecycleAssumption
<1>1. PICK staged \in StagedNames : names' = [names EXCEPT ![b] = staged]
  BY DEF Begin
<1>2. staged \in Names
  BY DEF StagedNames, NoNames, ParmNames, Names, Routines
<1>3. /\ heap[b] = {} /\ call = NoCall
      /\ call' = [b |-> b, pc |-> "env", door |-> door, loaded |-> FALSE]
      /\ UNCHANGED <<isTso, heap, active, uses, registered, left, held>>
  BY DEF Begin
<1>4. TypeOK'
  BY <1>1, <1>2, <1>3 DEF LifeInv, TypeOK, Names, Pcs
<1>5. b \notin held \cup registered
  BY <1>3 DEF LifeInv, OwnersBacked, CoreKinds
<1>6. CallInv' /\ OwnersBacked'
  BY <1>3, <1>5
  DEF LifeInv, CallInv, OwnersBacked, AcquiredAt, BeforeLoad, AfterLoad, AfterRegister
<1>7. Building(b)' /\ ~call'.loaded /\ active'[b] = NoNames
  BY <1>3, NoCallShape DEF Building, LifeInv, NamesInv
<1>8. NamesInv'
  BY <1>1, <1>3, <1>7 DEF LifeInv, NamesInv, Building, TypeOK
<1> QED
  BY <1>3, <1>4, <1>6, <1>8, QuietUses DEF LifeInv

\* The pc of a call moves on, or the call is over.
LEMMA GotoTyped ==
  ASSUME TypeOK, NEW pc \in Pcs, Goto(pc)
  PROVE  /\ call' \in [b : Blocks \cup {Idle}, pc : Pcs, door : {"c", "module"},
                       loaded : BOOLEAN]
         /\ pc = "none" => call' = NoCall
         /\ pc # "none" => /\ call'.pc = pc /\ call'.b = call.b
                           /\ call'.door = call.door /\ call'.loaded = call.loaded
  BY DEF TypeOK, Goto, NoCall, Pcs

LEMMA AfterGetValues ==
  /\ DOMAIN AfterGet = {"env", "parm", "modnamet", "exte", "subhdr", "subent", "wkblk"}
  /\ AfterGet["env"] = "parm" /\ AfterGet["parm"] = "modnamet"
  /\ AfterGet["modnamet"] = "exte" /\ AfterGet["exte"] = "overrides"
  /\ AfterGet["subhdr"] = "subent" /\ AfterGet["subent"] = "wkblk"
  /\ AfterGet["wkblk"] = "none"
  BY DEF AfterGet

LEMMA GetLife ==
  ASSUME LifeInv, Get
  PROVE  LifeInv'
<1> DEFINE b == call.b
           next == AfterGet[call.pc]
<1>1. /\ call.pc \in DOMAIN AfterGet
      /\ heap' = [heap EXCEPT ![b] = @ \cup {call.pc}]
      /\ Goto(next)
      /\ held' = IF call.pc = "wkblk" THEN held \cup {b} ELSE held
      /\ UNCHANGED <<isTso, names, active, uses, registered, left>>
  BY DEF Get
<1>2. call # NoCall /\ b \in Blocks \ held /\ TypeOK
  BY <1>1, AfterGetValues, InCall DEF LifeInv, CallInv
<1>3. next \in Pcs
  BY <1>1, AfterGetValues DEF Pcs
<1>4. call.pc \in Kinds
  BY <1>1, AfterGetValues DEF Kinds, CoreKinds, SubcomtbKinds, WorkKinds
<1>5. TypeOK'
  BY <1>1, <1>2, <1>3, <1>4, GotoTyped DEF TypeOK
<1>6. /\ heap'[b] = heap[b] \cup {call.pc}
      /\ \A c \in Blocks \ {b} : heap'[c] = heap[c]
  BY <1>1, <1>2 DEF TypeOK
<1>7. AcquiredAt(call.pc, heap[b])
  BY <1>2 DEF LifeInv, CallInv
<1>8. CallInv'
  <2> SUFFICES ASSUME next # "none" PROVE CallInv'
    BY <1>1, <1>2, <1>3, GotoTyped DEF CallInv
  <2>1. /\ call'.pc = next /\ call'.b = b
        /\ call'.door = call.door /\ call'.loaded = call.loaded
    BY <1>1, <1>2, <1>3, GotoTyped
  <2>2. AcquiredAt(next, heap'[b])
    BY <1>1, <1>6, <1>7, AfterGetValues DEF AcquiredAt, CoreKinds, SubcomtbKinds
  <2>3. UNCHANGED held
    BY <1>1, AfterGetValues
  <2> QED
    BY <1>1, <1>2, <2>1, <2>2, <2>3, AfterGetValues
    DEF LifeInv, CallInv, BeforeLoad, AfterLoad, AfterRegister
<1>9. OwnersBacked'
  BY <1>1, <1>6, <1>7 DEF LifeInv, OwnersBacked, AcquiredAt
<1>10. NamesInv'
  <2>1. ASSUME next = "none" PROVE call.loaded
    BY <1>1, <1>2, <2>1, AfterGetValues DEF LifeInv, CallInv, AfterLoad
  <2>2. \A c \in Blocks : Building(c)' => Building(c) /\ call'.loaded = call.loaded
    BY <1>1, <1>2, <1>3, GotoTyped DEF Building
  <2>3. \A c \in Blocks : Building(c) /\ ~call.loaded => Building(c)' /\ ~call'.loaded
    BY <1>1, <1>2, <1>3, <2>1, GotoTyped, NoCallShape, LifecycleAssumption DEF Building
  <2> QED
    BY <1>1, <1>6, <2>2, <2>3 DEF LifeInv, NamesInv
<1> QED
  BY <1>1, <1>5, <1>8, <1>9, <1>10, QuietUses DEF LifeInv

LEMMA GetFailsLife ==
  ASSUME LifeInv, GetFails
  PROVE  LifeInv'
<1> DEFINE b == call.b
           next == IF call.pc \in CoreKinds THEN "cleanup" ELSE FinishFailed(call.door)
<1>1. /\ call.pc \in DOMAIN AfterGet
      /\ heap' = IF call.pc = "subent"
                 THEN [heap EXCEPT ![b] = @ \ {"subhdr"}] ELSE heap
      /\ Goto(next)
      /\ UNCHANGED <<isTso, names, active, uses, registered, left, held>>
  BY DEF GetFails
<1>2. call # NoCall /\ b \in Blocks \ held /\ TypeOK
  BY <1>1, AfterGetValues, InCall DEF LifeInv, CallInv
<1>3. next \in Pcs
  BY DEF Pcs, FinishFailed
<1>4. TypeOK'
  BY <1>1, <1>2, <1>3, GotoTyped DEF TypeOK
<1>5. AcquiredAt(call.pc, heap[b])
  BY <1>2 DEF LifeInv, CallInv
<1>6. /\ heap'[b] = IF call.pc = "subent" THEN CoreKinds ELSE heap[b]
      /\ \A c \in Blocks \ {b} : heap'[c] = heap[c]
  <2>1. b \in Blocks /\ b \in DOMAIN heap /\ DOMAIN heap = Blocks
    BY <1>2 DEF TypeOK
  <2>2. CASE call.pc # "subent"
    BY <1>1, <2>2
  <2>3. CASE call.pc = "subent"
    <3>1. /\ heap'[b] = heap[b] \ {"subhdr"}
          /\ \A c \in Blocks \ {b} : heap'[c] = heap[c]
      BY <1>1, <2>1, <2>3
    <3>2. heap[b] \ {"subhdr"} = CoreKinds
      BY <1>5, <2>3 DEF AcquiredAt, CoreKinds
    <3> QED
      BY <2>3, <3>1, <3>2
  <2> QED
    BY <2>2, <2>3
<1>7. CallInv'
  <2> SUFFICES ASSUME next # "none" PROVE CallInv'
    BY <1>1, <1>2, <1>3, GotoTyped DEF CallInv
  <2>1. /\ call'.pc = next /\ call'.b = b
        /\ call'.door = call.door /\ call'.loaded = call.loaded
    BY <1>1, <1>2, <1>3, GotoTyped
  <2>2. AcquiredAt(next, heap'[b])
    BY <1>1, <1>5, <1>6, AfterGetValues
    DEF AcquiredAt, CoreKinds, SubcomtbKinds, FinishFailed
  <2>3. call.pc \in CoreKinds => call.pc \in BeforeLoad
    BY DEF CoreKinds, BeforeLoad
  <2>4. call.pc \notin CoreKinds => call.pc \in AfterLoad /\ call.pc \in AfterRegister
    BY <1>1, AfterGetValues DEF CoreKinds, AfterLoad, AfterRegister
  <2>5. call.pc \in CoreKinds => b \notin registered
    BY <1>2 DEF LifeInv, CallInv, CoreKinds, AfterRegister
  <2> QED
    BY <1>1, <1>2, <2>1, <2>2, <2>3, <2>4, <2>5
    DEF LifeInv, CallInv, BeforeLoad, AfterLoad, AfterRegister, FinishFailed
<1>8. OwnersBacked'
  BY <1>1, <1>6 DEF LifeInv, OwnersBacked
<1>9. NamesInv'
  <2>1. ASSUME next = "none" PROVE call.loaded
    BY <1>1, <1>2, <2>1, AfterGetValues DEF LifeInv, CallInv, AfterLoad, CoreKinds
  <2>2. \A c \in Blocks : Building(c)' => Building(c) /\ call'.loaded = call.loaded
    BY <1>1, <1>2, <1>3, GotoTyped DEF Building
  <2>3. \A c \in Blocks : Building(c) /\ ~call.loaded => Building(c)' /\ ~call'.loaded
    BY <1>1, <1>2, <1>3, <2>1, GotoTyped, NoCallShape, LifecycleAssumption DEF Building
  <2>4. "env" \notin heap'[b] => "env" \notin heap[b]
    BY <1>6 DEF CoreKinds
  <2> QED
    BY <1>1, <1>6, <2>2, <2>3, <2>4 DEF LifeInv, NamesInv
<1> QED
  BY <1>1, <1>4, <1>7, <1>8, <1>9, QuietUses DEF LifeInv

LEMMA OverridesLife ==
  ASSUME LifeInv, Overrides
  PROVE  LifeInv'
<1> USE LifecycleAssumption
<1> DEFINE b == call.b
<1>1. /\ call.pc = "overrides"
      /\ call' = [call EXCEPT !.pc = "defaults", !.loaded = TRUE]
      /\ UNCHANGED <<isTso, heap, registered, left, held>>
  BY DEF Overrides
<1>2. call # NoCall /\ b \in Blocks \ held /\ TypeOK /\ names[b] \in Names
  BY <1>1, InCall DEF LifeInv, CallInv, TypeOK, Names
<1>3. PICK found \in SUBSET {s \in Slots : names[b][s] # Blank} :
        LET wired == [s \in Slots |-> IF s \in found THEN names[b][s] ELSE Blank] IN
        /\ LoadOverrides(found)
        /\ active' = [active EXCEPT ![b] = wired]
        /\ Loaded(wired)
  BY DEF Overrides
<1> DEFINE wired == [s \in Slots |-> IF s \in found THEN names[b][s] ELSE Blank]
<1>4. wired \in Names
  BY <1>2 DEF Names
<1>5. names' = [names EXCEPT ![b] = wired]
  BY <1>3 DEF LoadOverrides
<1>6. active[b] = NoNames
  BY <1>1, <1>2 DEF LifeInv, NamesInv, CallInv, BeforeLoad, Building
<1>7. UsesInv' /\ uses' \in [Routines -> Nat]
  <2>1. \A r \in Routines :
          uses'[r] = uses[r] - NameCount(active[b], r) + NameCount(wired, r)
    <3> SUFFICES ASSUME NEW r \in Routines
                 PROVE  uses'[r] = uses[r] - NameCount(active[b], r) + NameCount(wired, r)
      OBVIOUS
    <3>1. uses'[r] = uses[r] + NameCount(wired, r)
      BY <1>3 DEF Loaded
    <3>2. NameCount(active[b], r) = 0 /\ NameCount(wired, r) \in Nat /\ uses[r] \in Nat
      BY <1>2, <1>6, NoNamesCount, NameCountNat DEF TypeOK
    <3> QED
      BY <3>1, <3>2
  <2>2. /\ active' = [active EXCEPT ![b] = wired]
        /\ uses' = [r \in Routines |-> uses'[r]]
    BY <1>3 DEF Loaded
  <2> QED
    BY <1>2, <1>4, <2>1, <2>2, RewiredUses
<1>8. TypeOK'
  BY <1>1, <1>2, <1>3, <1>4, <1>5, <1>7 DEF TypeOK, Names, Pcs
<1>9. CallInv' /\ OwnersBacked'
  BY <1>1, <1>2
  DEF LifeInv, TypeOK, CallInv, OwnersBacked, AcquiredAt, BeforeLoad, AfterLoad,
      AfterRegister
<1>10. "env" \in heap[b]
  BY <1>1, <1>2 DEF LifeInv, CallInv, AcquiredAt, CoreKinds
<1>11. /\ names'[b] = active'[b]
       /\ \A c \in Blocks \ {b} : names'[c] = names[c] /\ active'[c] = active[c]
  BY <1>2, <1>3, <1>5 DEF TypeOK
<1>12. call'.loaded /\ call'.b = b
  BY <1>1, <1>2 DEF TypeOK
<1>13. NamesInv'
  BY <1>1, <1>10, <1>11, <1>12 DEF LifeInv, NamesInv, Building
<1> QED
  BY <1>7, <1>8, <1>9, <1>13 DEF LifeInv

LEMMA DefaultsLife ==
  ASSUME LifeInv, Defaults
  PROVE  LifeInv'
<1> USE LifecycleAssumption
<1> DEFINE b == call.b
           open == {s \in DOMAIN Default : active[b][s] = Blank}
<1>1. /\ call.pc = "defaults"
      /\ UNCHANGED <<isTso, heap, registered, left, held>>
  BY DEF Defaults
<1>2. /\ call # NoCall /\ b \in Blocks \ held /\ TypeOK
      /\ names[b] \in Names /\ active[b] \in Names
  BY <1>1, InCall DEF LifeInv, CallInv, TypeOK, Names
<1>3. PICK found \in SUBSET open :
        LET wired == [s \in Slots |-> IF s \in found THEN Default[s] ELSE Blank] IN
        /\ active' = [active EXCEPT ![b] =
                        [s \in Slots |-> IF s \in found THEN wired[s] ELSE @[s]]]
        /\ names' = [names EXCEPT ![b] =
                        [s \in Slots |-> IF s \in found THEN wired[s] ELSE @[s]]]
        /\ Loaded(wired)
        /\ Goto(IF "iorout" \in open \ found THEN "cleanup" ELSE "register")
  BY DEF Defaults
<1> DEFINE wired == [s \in Slots |-> IF s \in found THEN Default[s] ELSE Blank]
           merged == [s \in Slots |-> IF s \in found THEN wired[s] ELSE active[b][s]]
           next == IF "iorout" \in open \ found THEN "cleanup" ELSE "register"
<1>4. names[b] = active[b] /\ call.loaded
  BY <1>1, <1>2 DEF LifeInv, NamesInv, CallInv, AfterLoad
<1>5. /\ active' = [active EXCEPT ![b] = merged]
      /\ names' = [names EXCEPT ![b] = merged]
  BY <1>2, <1>3, <1>4 DEF TypeOK
<1>6. \A s \in found : s \in Slots /\ Default[s] \in Routines /\ active[b][s] = Blank
  BY DEF Default, Slots, Routines
<1>7. wired \in Names /\ merged \in Names
  BY <1>2, <1>6 DEF Names
<1>8. UsesInv' /\ uses' \in [Routines -> Nat]
  <2>1. \A r \in Routines :
          uses'[r] = uses[r] - NameCount(active[b], r) + NameCount(merged, r)
    <3> SUFFICES ASSUME NEW r \in Routines
                 PROVE  uses'[r] = uses[r] - NameCount(active[b], r) + NameCount(merged, r)
      OBVIOUS
    <3>1. uses'[r] = uses[r] + NameCount(wired, r)
      BY <1>3 DEF Loaded
    <3>2. NameCount(merged, r) = NameCount(active[b], r) + NameCount(wired, r)
      <4>1. \A s \in Slots : active[b][s] = Blank \/ wired[s] = Blank
        BY <1>6
      <4>2. \A s \in Slots :
              merged[s] = IF wired[s] = Blank THEN active[b][s] ELSE wired[s]
        BY <1>6
      <4> QED
        BY <1>2, <1>7, <4>1, <4>2, MergedCount
    <3>3. /\ NameCount(active[b], r) \in Nat /\ NameCount(wired, r) \in Nat
          /\ uses[r] \in Nat
      BY <1>2, NameCountNat DEF TypeOK
    <3> QED
      BY <3>1, <3>2, <3>3
  <2>2. uses' = [r \in Routines |-> uses'[r]]
    BY <1>3 DEF Loaded
  <2> QED
    BY <1>2, <1>5, <1>7, <2>1, <2>2, RewiredUses
<1>9. /\ call' \in [b : Blocks \cup {Idle}, pc : Pcs, door : {"c", "module"},
                    loaded : BOOLEAN]
      /\ call'.pc = next /\ call'.b = b /\ call'.door = call.door /\ call'.loaded
  BY <1>2, <1>3, <1>4, GotoTyped DEF Pcs
<1>10. TypeOK'
  BY <1>1, <1>2, <1>5, <1>7, <1>8, <1>9 DEF TypeOK, Names
<1>11. heap[b] = CoreKinds /\ b \notin registered /\ call.door \in Doors
  BY <1>1, <1>2 DEF LifeInv, CallInv, AcquiredAt, AfterRegister
<1>12. CallInv' /\ OwnersBacked'
  BY <1>1, <1>2, <1>9, <1>11
  DEF LifeInv, CallInv, OwnersBacked, AcquiredAt, BeforeLoad, AfterLoad, AfterRegister
<1>13. /\ names'[b] = active'[b]
       /\ \A c \in Blocks \ {b} : names'[c] = names[c] /\ active'[c] = active[c]
  BY <1>2, <1>5 DEF TypeOK
<1>14. NamesInv'
  BY <1>1, <1>9, <1>11, <1>13 DEF LifeInv, NamesInv, Building, CoreKinds
<1> QED
  BY <1>8, <1>10, <1>12, <1>14 DEF LifeInv

LEMMA RegisterLife ==
  ASSUME LifeInv, Register
  PROVE  LifeInv'
<1> USE LifecycleAssumption
<1> DEFINE b == call.b
<1>1. /\ call.pc = "register"
      /\ IF left > 0 THEN registered' = registered \cup {b} /\ left' = left - 1
         ELSE UNCHANGED <<registered, left>>
      /\ Goto("subhdr")
      /\ UNCHANGED <<isTso, heap, names, active, uses, held>>
  BY DEF Register
<1>2. call # NoCall /\ b \in Blocks \ held /\ TypeOK
  BY <1>1, InCall DEF LifeInv, CallInv
<1>3. /\ call' \in [b : Blocks \cup {Idle}, pc : Pcs, door : {"c", "module"},
                    loaded : BOOLEAN]
      /\ call'.pc = "subhdr" /\ call'.b = b /\ call'.door = call.door
      /\ call'.loaded = call.loaded
  BY <1>1, <1>2, GotoTyped DEF Pcs
<1>4. left \in 0 .. Capacity /\ Capacity \in Nat
  BY <1>2 DEF TypeOK
<1>5. left' \in 0 .. Capacity /\ (b \in registered' \/ left' = 0)
  BY <1>1, <1>4
<1>6. TypeOK'
  BY <1>1, <1>2, <1>3, <1>5 DEF TypeOK
<1>7. heap[b] = CoreKinds /\ call.loaded /\ call.door \in Doors
  BY <1>1, <1>2 DEF LifeInv, CallInv, AcquiredAt, AfterLoad
<1>8. CallInv' /\ OwnersBacked'
  BY <1>1, <1>2, <1>3, <1>5, <1>7
  DEF LifeInv, CallInv, OwnersBacked, AcquiredAt, BeforeLoad, AfterLoad, AfterRegister
<1>9. \A c \in Blocks : Building(c)' => Building(c)
  BY <1>2, <1>3 DEF Building
<1>10. NamesInv'
  BY <1>1, <1>2, <1>3, <1>7, <1>9 DEF LifeInv, NamesInv, Building
<1> QED
  BY <1>1, <1>6, <1>8, <1>10, QuietUses DEF LifeInv

\* DELETE of what the MODNAMET of an environment names lowers the use counts to
\* what the other environments account for, and never below zero.
LEMMA DeletedUses ==
  ASSUME LifeInv, NEW b \in Blocks, names[b] = active[b], Deleted(names[b]),
         active' = [active EXCEPT ![b] = NoNames]
  PROVE  UsesInv' /\ uses' \in [Routines -> Nat]
<1>1. NoNames \in Names
  BY DEF NoNames, Names
<1>2. \A r \in Routines :
        uses'[r] = uses[r] - NameCount(active[b], r) + NameCount(NoNames, r)
  <2> SUFFICES ASSUME NEW r \in Routines
               PROVE  uses'[r] = uses[r] - NameCount(active[b], r) + NameCount(NoNames, r)
    OBVIOUS
  <2>1. uses'[r] = uses[r] - NameCount(active[b], r)
    BY DEF Deleted
  <2>2. NameCount(NoNames, r) = 0 /\ NameCount(active[b], r) \in Nat /\ uses[r] \in Nat
    BY NoNamesCount, NameCountNat DEF LifeInv, TypeOK
  <2> QED
    BY <2>1, <2>2
<1>3. uses' = [r \in Routines |-> uses'[r]]
  BY DEF Deleted
<1> QED
  BY <1>1, <1>2, <1>3, RewiredUses

LEMMA CleanupLife ==
  ASSUME LifeInv, Cleanup
  PROVE  LifeInv'
<1> USE LifecycleAssumption
<1> DEFINE b == call.b
<1>1. /\ call.pc = "cleanup"
      /\ Deletes(b)
      /\ heap' = [heap EXCEPT ![b] = @ \ CoreKinds]
      /\ names' = [names EXCEPT ![b] = NoNames]
      /\ active' = [active EXCEPT ![b] = NoNames]
      /\ call' = NoCall
      /\ UNCHANGED <<isTso, registered, left, held>>
  BY DEF Cleanup, CleanupFrees
<1>2. call # NoCall /\ b \in Blocks \ held /\ TypeOK /\ NoNames \in Names
  BY <1>1, InCall DEF LifeInv, CallInv, NoNames, Names
<1>3. b \notin registered
  BY <1>1, <1>2 DEF LifeInv, CallInv, AfterRegister
<1>4. UsesInv' /\ uses' \in [Routines -> Nat]
  <2>1. CASE call.loaded
    <3>1. names[b] = active[b]
      BY <1>2, <2>1 DEF LifeInv, NamesInv
    <3> QED
      BY <1>1, <1>2, <2>1, <3>1, DeletedUses DEF Deletes
  <2>2. CASE ~call.loaded
    <3>1. active[b] = NoNames
      BY <1>2, <2>2 DEF LifeInv, NamesInv, Building
    <3>2. UNCHANGED <<active, uses>>
      BY <1>1, <1>2, <2>2, <3>1 DEF Deletes, TypeOK
    <3> QED
      BY <3>2, QuietUses
  <2> QED
    BY <2>1, <2>2
<1>5. TypeOK'
  BY <1>1, <1>2, <1>4 DEF TypeOK, Names, NoCall, Pcs
<1>6. CallInv' /\ OwnersBacked'
  BY <1>1, <1>2, <1>3 DEF LifeInv, TypeOK, CallInv, OwnersBacked
<1>7. NamesInv'
  BY <1>1, <1>2 DEF LifeInv, TypeOK, NamesInv, Building
<1> QED
  BY <1>4, <1>5, <1>6, <1>7 DEF LifeInv

\* IRXTERM of a complete environment, or of one irx_init_finish gave up on.
LEMMA CoreTermLife ==
  ASSUME LifeInv, NEW b \in Blocks, NEW door \in Doors, CoreTerm(b, door),
         UNCHANGED <<isTso, left>>, call' = NoCall,
         call = NoCall \/ (call.b = b /\ call.pc = "undo")
  PROVE  LifeInv'
<1> USE LifecycleAssumption
<1>1. TypeOK /\ NoNames \in Names
  BY DEF LifeInv, NoNames, Names
<1>2. names[b] = active[b] /\ \A c \in Blocks : names[c] = active[c]
  BY DEF LifeInv, NamesInv, Building, CallInv, AfterLoad
<1>3. NoCall \in [b : Blocks \cup {Idle}, pc : Pcs, door : {"c", "module"},
                  loaded : BOOLEAN]
  BY DEF NoCall, Pcs
<1>4. CASE b \in registered
  <2>1. /\ heap' = [heap EXCEPT ![b] = (@ \ WrapperFrees(door)) \ CoreKinds]
        /\ Deleted(names[b])
        /\ names' = [names EXCEPT ![b] = NoNames]
        /\ active' = [active EXCEPT ![b] = NoNames]
        /\ registered' = registered \ {b}
        /\ held' = held \ {b}
    BY <1>4 DEF CoreTerm
  <2>2. UsesInv' /\ uses' \in [Routines -> Nat]
    BY <1>2, <2>1, DeletedUses
  <2>3. TypeOK'
    BY <1>1, <1>3, <2>1, <2>2 DEF TypeOK, Names
  <2>4. CallInv' /\ OwnersBacked'
    BY <1>1, <2>1 DEF LifeInv, TypeOK, CallInv, OwnersBacked
  <2>5. NamesInv'
    BY <1>1, <1>2, <2>1 DEF LifeInv, TypeOK, NamesInv, Building
  <2> QED
    BY <2>2, <2>3, <2>4, <2>5 DEF LifeInv
<1>5. CASE b \notin registered
  <2>1. /\ heap' = [heap EXCEPT ![b] = @ \ WrapperFrees(door)]
        /\ UNCHANGED <<names, active, uses, registered, held>>
    BY <1>5 DEF CoreTerm
  <2>2. WrapperFrees(door) \cap CoreKinds = {}
    BY DEF WrapperFrees, CoreKinds, SubcomtbKinds, WorkKinds
  <2>3. TypeOK'
    BY <1>1, <1>3, <2>1 DEF TypeOK
  <2>4. CallInv' /\ OwnersBacked'
    BY <1>1, <2>1, <2>2 DEF LifeInv, TypeOK, CallInv, OwnersBacked
  <2>5. NamesInv'
    <3>1. "env" \in CoreKinds
      BY DEF CoreKinds
    <3> QED
      BY <1>1, <1>2, <2>1, <2>2, <3>1 DEF LifeInv, TypeOK, NamesInv, Building
  <2> QED
    BY <2>1, <2>3, <2>4, <2>5, QuietUses DEF LifeInv
<1> QED
  BY <1>4, <1>5

LEMMA TermLife ==
  ASSUME LifeInv, NEW b \in Blocks, NEW door \in Doors, Term(b, door)
  PROVE  LifeInv'
  BY CoreTermLife DEF Term

\* Only the C functions undo, so WrapperFrees is theirs.
LEMMA UndoCall ==
  ASSUME LifeInv, call.pc = "undo"
  PROVE  call # NoCall /\ call.b \in Blocks /\ "c" \in Doors
  BY InCall DEF LifeInv, CallInv

LEMMA UndoLife ==
  ASSUME LifeInv, Undo
  PROVE  LifeInv'
<1>1. call.pc = "undo" /\ CoreTerm(call.b, "c") /\ call' = NoCall /\ UNCHANGED <<isTso, left>>
  BY DEF Undo
<1> QED
  BY <1>1, UndoCall, CoreTermLife

LEMMA ExecLife ==
  ASSUME LifeInv, NEW b \in Blocks, Exec(b)
  PROVE  LifeInv'
<1>1. /\ call = NoCall
      /\ heap' = [heap EXCEPT ![b] = @ \cup {"pool"}]
      /\ UNCHANGED <<isTso, names, active, uses, registered, left, held, call>>
  BY DEF Exec
<1>2. "pool" \in Kinds /\ TypeOK
  BY DEF Kinds, WorkKinds, LifeInv
<1>3. TypeOK'
  BY <1>1, <1>2 DEF TypeOK
<1>4. CallInv' /\ OwnersBacked' /\ NamesInv'
  BY <1>1, <1>2
  DEF LifeInv, TypeOK, CallInv, OwnersBacked, NamesInv, Building
<1> QED
  BY <1>1, <1>3, <1>4, QuietUses DEF LifeInv

LEMMA StepLife == LifeInv /\ [Next]_vars => LifeInv'
<1> SUFFICES ASSUME LifeInv, [Next]_vars PROVE LifeInv'
  OBVIOUS
<1>1. ASSUME UNCHANGED vars PROVE LifeInv'
  BY <1>1
  DEF vars, LifeInv, TypeOK, CallInv, OwnersBacked, NamesInv, Building, UsesInv
<1>2. NoEnvblock => UNCHANGED vars
  BY DEF NoEnvblock
<1> QED
  BY <1>1, <1>2, BeginLife, TermLife, ExecLife, GetLife, GetFailsLife, OverridesLife,
     DefaultsLife, RegisterLife, CleanupLife, UndoLife DEF Next

LEMMA LifeInvariant == Spec => []LifeInv
  BY InitLife, StepLife, PTL DEF Spec

\* The variables keep their types; in particular no DELETE takes the use count
\* of a load module below zero, whatever LOADs and GETMAINs fail before it.
THEOREM TypeCorrect == Spec => []TypeOK
<1>1. LifeInv => TypeOK
  BY DEF LifeInv
<1> QED
  BY <1>1, LifeInvariant, PTL

\* The use count of every routine is the number of environment slots that point
\* at it: step 6, its cleanup and IRXTERM LOAD and DELETE in pairs.
THEOREM UsesAlwaysBacked == Spec => []UsesBacked
<1>1. LifeInv => UsesBacked
  BY UsesCounted DEF LifeInv
<1> QED
  BY <1>1, LifeInvariant, PTL

-----------------------------------------------------------------------------
(* Through the C functions: irxinit() undoes what irx_init_finish could    *)
(* not finish, and irxterm() frees everything.                             *)

OwnedInv == LifeInv /\ OrphansInv /\ ReadyInv

LEMMA InitOwned == Init => OwnedInv
<1>1. Init => OrphansInv /\ ReadyInv
  BY DEF Init, OrphansInv, ReadyInv
<1> QED
  BY <1>1, InitLife DEF OwnedInv

\* What IRXTERM leaves of an environment: nothing, unless the registry refuses
\* to know it.
LEMMA CoreTermFrees ==
  ASSUME OwnedInv, NEW b \in Blocks, CoreTerm(b, "c")
  PROVE  /\ b \in registered => heap'[b] = {}
         /\ b \in registered => registered' = registered \ {b} /\ held' = held \ {b}
         /\ b \notin registered => UNCHANGED <<registered, held>>
         /\ b \notin registered /\ "env" \in heap[b] => "env" \in heap'[b]
         /\ \A c \in Blocks \ {b} : heap'[c] = heap[c]
<1>1. heap \in [Blocks -> SUBSET Kinds]
  BY DEF OwnedInv, LifeInv, TypeOK
<1>2. /\ Kinds \ (WrapperFrees("c") \cup CoreKinds) = {}
      /\ "env" \notin WrapperFrees("c")
  BY DEF Kinds, WrapperFrees, CoreKinds, SubcomtbKinds, WorkKinds
<1>3. CASE b \in registered
  BY <1>1, <1>2, <1>3 DEF CoreTerm
<1>4. CASE b \notin registered
  BY <1>1, <1>2, <1>4 DEF CoreTerm
<1> QED
  BY <1>3, <1>4

LEMMA TermOwned ==
  ASSUME Doors \subseteq {"c"}, OwnedInv, NEW b \in Blocks, NEW door \in Doors,
         Term(b, door)
  PROVE  OrphansInv' /\ ReadyInv'
<1>1. call = NoCall /\ CoreTerm(b, "c") /\ b \in held \cup registered
      /\ UNCHANGED <<left, call>>
  BY DEF Term
<1>2. OrphansInv'
  BY <1>1, CoreTermFrees DEF OwnedInv, OrphansInv, Building
<1>3. ReadyInv'
  BY <1>1, CoreTermFrees DEF OwnedInv, LifeInv, TypeOK, ReadyInv, Building
<1> QED
  BY <1>2, <1>3

LEMMA UndoOwned ==
  ASSUME OwnedInv, Undo
  PROVE  OrphansInv' /\ ReadyInv'
<1> DEFINE b == call.b
<1>1. /\ call.pc = "undo" /\ CoreTerm(b, "c") /\ call' = NoCall
      /\ UNCHANGED left
  BY DEF Undo
<1>2. b \in Blocks /\ call # NoCall /\ (b \in registered \/ left = 0)
  BY <1>1, UndoCall DEF OwnedInv, LifeInv, CallInv, AfterRegister
<1>3. OrphansInv'
  BY <1>1, <1>2, CoreTermFrees DEF OwnedInv, OrphansInv, Building
<1>4. b \notin registered'
  BY <1>2, CoreTermFrees, <1>1
<1>5. ReadyInv'
  BY <1>1, <1>2, <1>4, CoreTermFrees DEF OwnedInv, LifeInv, TypeOK, ReadyInv, Building
<1> QED
  BY <1>3, <1>5

\* Steps before registration that keep the environment under construction.
LEMMA QuietOwned ==
  ASSUME OwnedInv, UNCHANGED <<heap, registered, left, held>>,
         \A c \in Blocks : Building(c) => Building(c)'
  PROVE  OrphansInv' /\ ReadyInv'
<1>1. OrphansInv'
  BY DEF OwnedInv, OrphansInv
<1>2. ReadyInv'
  BY DEF OwnedInv, LifeInv, TypeOK, ReadyInv
<1> QED
  BY <1>1, <1>2

\* Steps of INITENVB that change its own environment only, and leave it under
\* construction or complete.
LEMMA BuildingOwned ==
  ASSUME OwnedInv, NEW b \in Blocks, Building(b),
         UNCHANGED <<registered, left>>, held \subseteq held',
         \A c \in Blocks \ {b} : heap'[c] = heap[c],
         \/ Building(b)'
         \/ b \in held' /\ SubcomtbKinds \cup {"wkblk"} \subseteq heap'[b]
  PROVE  OrphansInv' /\ ReadyInv'
<1>1. \A c \in Blocks \ {b} : ~Building(c)
  BY DEF Building
<1>2. registered \subseteq Blocks
  BY DEF OwnedInv, LifeInv, TypeOK
<1>3. OrphansInv'
  <2> SUFFICES ASSUME NEW c \in Blocks, heap'[c] # {}
               PROVE  c \in held' \/ Building(c)' \/ (left' = 0 /\ c \notin registered')
    BY DEF OrphansInv
  <2>1. CASE c = b
    BY <2>1
  <2>2. CASE c # b
    BY <1>1, <2>2 DEF OwnedInv, OrphansInv
  <2> QED
    BY <2>1, <2>2
<1>4. ReadyInv'
  <2> SUFFICES ASSUME NEW c \in registered
               PROVE  Building(c)' \/ SubcomtbKinds \cup {"wkblk"} \subseteq heap'[c]
    BY DEF ReadyInv
  <2>1. CASE c = b
    BY <2>1
  <2>2. CASE c # b
    BY <1>1, <1>2, <2>2 DEF OwnedInv, ReadyInv
  <2> QED
    BY <2>1, <2>2
<1> QED
  BY <1>3, <1>4

\* A GETMAIN that succeeds, or fails, leaves the environment either under
\* construction or complete.
LEMMA GetOwned ==
  ASSUME OwnedInv, Get
  PROVE  OrphansInv' /\ ReadyInv'
<1> DEFINE next == AfterGet[call.pc]
<1>1. /\ call.pc \in DOMAIN AfterGet
      /\ heap' = [heap EXCEPT ![call.b] = @ \cup {call.pc}]
      /\ Goto(next)
      /\ held' = IF call.pc = "wkblk" THEN held \cup {call.b} ELSE held
      /\ UNCHANGED <<registered, left>>
  BY DEF Get
<1>2. LifeInv /\ TypeOK /\ next \in Pcs
  BY <1>1, AfterGetValues DEF OwnedInv, LifeInv, Pcs
<1>3. PICK b \in Blocks : b = call.b /\ Building(b)
  BY <1>1, <1>2, AfterGetValues, InCall
<1>4. /\ heap'[b] = heap[b] \cup {call.pc}
      /\ \A c \in Blocks \ {b} : heap'[c] = heap[c]
  BY <1>1, <1>2, <1>3 DEF TypeOK
<1>5. next # "none" => Building(b)'
  BY <1>1, <1>2, <1>3, GotoTyped, NoCallShape DEF Building
<1>6. next = "none" => /\ b \in held'
                       /\ SubcomtbKinds \cup {"wkblk"} \subseteq heap'[b]
  <2> SUFFICES ASSUME next = "none"
               PROVE  b \in held' /\ SubcomtbKinds \cup {"wkblk"} \subseteq heap'[b]
    OBVIOUS
  <2>1. call.pc = "wkblk"
    BY <1>1, AfterGetValues
  <2>2. heap[b] = CoreKinds \cup SubcomtbKinds
    BY <1>2, <1>3, <2>1 DEF LifeInv, CallInv, AcquiredAt, Building
  <2> QED
    BY <1>1, <1>3, <1>4, <2>1, <2>2
<1>7. held \subseteq held'
  BY <1>1
<1> QED
  BY <1>1, <1>3, <1>4, <1>5, <1>6, <1>7, BuildingOwned

LEMMA GetFailsOwned ==
  ASSUME Doors \subseteq {"c"}, OwnedInv, GetFails
  PROVE  OrphansInv' /\ ReadyInv'
<1> DEFINE next == IF call.pc \in CoreKinds THEN "cleanup" ELSE FinishFailed(call.door)
<1>1. /\ call.pc \in DOMAIN AfterGet
      /\ heap' = IF call.pc = "subent"
                 THEN [heap EXCEPT ![call.b] = @ \ {"subhdr"}] ELSE heap
      /\ Goto(next)
      /\ UNCHANGED <<registered, left, held>>
  BY DEF GetFails
<1>2. LifeInv /\ TypeOK /\ next \in Pcs
  BY DEF OwnedInv, LifeInv, Pcs, FinishFailed
<1>3. PICK b \in Blocks : b = call.b /\ Building(b) /\ call.door = "c"
  BY <1>1, <1>2, AfterGetValues, InCall DEF LifeInv, CallInv
<1>4. next # "none"
  BY <1>3 DEF FinishFailed
<1>5. Building(b)'
  BY <1>1, <1>2, <1>3, <1>4, GotoTyped, NoCallShape DEF Building
<1>6. \A c \in Blocks \ {b} : heap'[c] = heap[c]
  BY <1>1, <1>2, <1>3 DEF TypeOK
<1> QED
  BY <1>1, <1>3, <1>5, <1>6, BuildingOwned

LEMMA RegisterOwned ==
  ASSUME OwnedInv, Register
  PROVE  OrphansInv' /\ ReadyInv'
<1> DEFINE b == call.b
<1>1. /\ call.pc = "register"
      /\ IF left > 0 THEN registered' = registered \cup {b} /\ left' = left - 1
         ELSE UNCHANGED <<registered, left>>
      /\ Goto("subhdr")
      /\ UNCHANGED <<heap, held>>
  BY DEF Register
<1>2. LifeInv /\ TypeOK
  BY DEF OwnedInv, LifeInv
<1>3. Building(b)' /\ call'.b = b /\ b \in Blocks
  BY <1>1, <1>2, InCall, GotoTyped, NoCallShape DEF Building, Pcs
<1>4. left = 0 => UNCHANGED <<registered, left>>
  BY <1>1
<1>5. OrphansInv'
  BY <1>1, <1>3, <1>4 DEF OwnedInv, OrphansInv, Building
<1>6. ReadyInv'
  BY <1>1, <1>2, <1>3 DEF OwnedInv, TypeOK, ReadyInv, Building
<1> QED
  BY <1>5, <1>6

LEMMA CleanupOwned ==
  ASSUME OwnedInv, Cleanup
  PROVE  OrphansInv' /\ ReadyInv' /\ heap'[call.b] = {}
<1> DEFINE b == call.b
<1>1. /\ call.pc = "cleanup"
      /\ heap' = [heap EXCEPT ![b] = @ \ CoreKinds]
      /\ call' = NoCall
      /\ UNCHANGED <<registered, left, held>>
  BY DEF Cleanup, CleanupFrees
<1>2. LifeInv /\ TypeOK
  BY DEF OwnedInv, LifeInv
<1>3. call # NoCall /\ b \in Blocks /\ heap[b] \subseteq CoreKinds /\ b \notin registered
  BY <1>1, <1>2, InCall DEF LifeInv, CallInv, AcquiredAt, AfterRegister
<1>4. heap'[b] = {} /\ \A c \in Blocks \ {b} : heap'[c] = heap[c]
  BY <1>1, <1>2, <1>3 DEF TypeOK
<1>5. OrphansInv'
  BY <1>1, <1>4 DEF OwnedInv, OrphansInv, Building
<1>6. ReadyInv'
  BY <1>1, <1>2, <1>3, <1>4 DEF OwnedInv, TypeOK, ReadyInv, Building
<1> QED
  BY <1>4, <1>5, <1>6

LEMMA ExecOwned ==
  ASSUME OwnedInv, NEW b \in Blocks, Exec(b)
  PROVE  OrphansInv' /\ ReadyInv'
<1>1. /\ b \in held \cup registered
      /\ heap' = [heap EXCEPT ![b] = @ \cup {"pool"}]
      /\ UNCHANGED <<registered, left, held, call>>
  BY DEF Exec
<1>2. heap[b] # {} /\ heap \in [Blocks -> SUBSET Kinds] /\ registered \subseteq Blocks
  BY <1>1 DEF OwnedInv, LifeInv, TypeOK, OwnersBacked, CoreKinds
<1>3. OrphansInv'
  BY <1>1, <1>2 DEF OwnedInv, OrphansInv, Building
<1>4. ReadyInv'
  BY <1>1, <1>2 DEF OwnedInv, ReadyInv, Building
<1> QED
  BY <1>3, <1>4

LEMMA StepOwned ==
  Doors \subseteq {"c"} /\ OwnedInv /\ [Next]_vars => OwnedInv'
<1> SUFFICES ASSUME Doors \subseteq {"c"}, OwnedInv, [Next]_vars
             PROVE  OrphansInv' /\ ReadyInv'
  BY StepLife DEF OwnedInv
<1>1. ASSUME NEW b \in Blocks, NEW door \in Doors, Begin(b, door)
      PROVE  OrphansInv' /\ ReadyInv'
  BY <1>1, QuietOwned DEF Begin, Building
<1>2. CASE Overrides
  <2>1. \A c \in Blocks : Building(c) => Building(c)'
    <3>1. call'.b = call.b /\ call'.pc = "defaults"
      BY <1>2 DEF Overrides, OwnedInv, LifeInv, TypeOK
    <3> QED
      BY <3>1, NoCallShape DEF Building
  <2> QED
    BY <1>2, <2>1, QuietOwned DEF Overrides
<1>3. CASE Defaults
  <2>1. \E pc \in {"cleanup", "register"} : Goto(pc)
    BY <1>3 DEF Defaults
  <2>2. call'.b = call.b /\ call'.pc # "none"
    BY <2>1, GotoTyped DEF OwnedInv, LifeInv, Pcs
  <2>3. \A c \in Blocks : Building(c) => Building(c)'
    BY <2>2, NoCallShape DEF Building
  <2> QED
    BY <1>3, <2>3, QuietOwned DEF Defaults
<1>4. CASE NoEnvblock \/ UNCHANGED vars
  BY <1>4, QuietOwned DEF NoEnvblock, vars, Building
<1> QED
  BY <1>1, <1>2, <1>3, <1>4, TermOwned, UndoOwned, GetOwned, GetFailsOwned,
     RegisterOwned, CleanupOwned, ExecOwned DEF Next

LEMMA OwnedInvariant == ASSUME Doors \subseteq {"c"} PROVE Spec => []OwnedInv
<1>1. OwnedInv /\ [Next]_vars => OwnedInv'
  BY StepOwned
<1> QED
  BY <1>1, InitOwned, PTL DEF Spec

\* Between C calls every piece of storage belongs to an environment a caller
\* holds, or to one the full registry made IRXTERM refuse: no failing GETMAIN or
\* LOAD leaves anything behind, for any number of environments.
THEOREM NothingOrphaned == ASSUME Doors \subseteq {"c"} PROVE Spec => []NoOrphans
<1>1. OwnedInv => NoOrphans
  BY DEF OwnedInv, OrphansInv, NoOrphans, NoCalls, Building
<1> QED
  BY <1>1, OwnedInvariant, PTL

\* Between C calls whatever FINDENVB can return is ready for IRXEXEC.
THEOREM AlwaysReadyToRun == ASSUME Doors \subseteq {"c"} PROVE Spec => []ReadyToRun
<1>1. OwnedInv => ReadyToRun
  BY DEF OwnedInv, LifeInv, TypeOK, ReadyInv, ReadyToRun, NoCalls, Building
<1> QED
  BY <1>1, OwnedInvariant, PTL

\* A C call that frees an ENVBLOCK has freed SUBCOMTB, the work block and the
\* string pool of the environment, in the same call.
THEOREM EnvblockFreedLast ==
  ASSUME Doors \subseteq {"c"} PROVE Spec => NothingOutlivesEnvblock
<1> DEFINE Last == \A b \in Blocks :
                     "env" \in heap[b] /\ "env" \notin heap'[b] => heap'[b] = {}
<1>1. ASSUME OwnedInv, [Next]_vars PROVE [Last]_vars
  <2>1. ASSUME NEW b \in Blocks, CoreTerm(b, "c") PROVE Last
    BY <1>1, <2>1, CoreTermFrees
  <2>2. ASSUME NEW b \in Blocks, NEW door \in Doors, Term(b, door) PROVE Last
    BY <2>1, <2>2 DEF Term
  <2>3. CASE Undo
    BY <1>1, <2>1, <2>3, UndoCall DEF Undo, OwnedInv
  <2>4. CASE Cleanup
    BY <1>1, <2>4, CleanupOwned DEF Cleanup, OwnedInv, LifeInv, TypeOK
  <2>5. CASE Get
    BY <1>1, <2>5 DEF Get, OwnedInv, LifeInv, TypeOK
  <2>6. CASE GetFails
    BY <1>1, <2>6 DEF GetFails, OwnedInv, LifeInv, TypeOK
  <2>7. ASSUME NEW b \in Blocks, Exec(b) PROVE Last
    BY <1>1, <2>7 DEF Exec, OwnedInv, LifeInv, TypeOK
  <2>8. CASE UNCHANGED heap
    BY <2>8
  <2> QED
    BY <1>1, <2>2, <2>3, <2>4, <2>5, <2>6, <2>7, <2>8
    DEF Next, vars, Begin, NoEnvblock, Overrides, Defaults, Register
<1> QED
  BY <1>1, OwnedInvariant, PTL DEF Spec, NothingOutlivesEnvblock
=============================================================================
