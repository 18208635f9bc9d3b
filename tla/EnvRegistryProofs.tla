------------------------- MODULE EnvRegistryProofs -------------------------
(***************************************************************************)
(* What EnvRegistry guarantees for any number of tasks, ENVBLOCKs and      *)
(* slots, whether services run one at a time or interleave at SVCs; and    *)
(* that one service at a time it implements EnvService.                    *)
(***************************************************************************)
EXTENDS EnvRefinement, StackLemmas, TLAPS

-----------------------------------------------------------------------------
(* Types.                                                                  *)

LEMMA InitTyped == Init => TypeOK
  BY SlotsAssumption, ConstAssumption
  DEF Init, TypeOK, SlotIx, Slot, EnvRec, NoEnv, Op, Pcs, Idle

\* irx_anchor_alloc_slot keeps the table well-formed.
LEMMA AllocTyped ==
  ASSUME TypeOK, NEW b \in Blocks, NEW t \in Tasks, NEW tso \in BOOLEAN,
         AllocSlot(b, t, tso)
  PROVE  /\ slots' \in [SlotIx -> Slot]
         /\ used' \in 0 .. TotalSlots
         /\ counter' \in Nat
<1>1. ASSUME NEW i \in SlotIx, NextToken, HighWater(i),
             slots' = [slots EXCEPT ![i] =
                         [eb |-> b, token |-> counter + 1, tcb |-> t, tso |-> tso]]
      PROVE  /\ slots' \in [SlotIx -> Slot]
             /\ used' \in 0 .. TotalSlots
             /\ counter' \in Nat
  <2>1. counter + 1 \in Nat
    BY DEF TypeOK
  <2>2. slots' \in [SlotIx -> Slot]
    BY <1>1, <2>1 DEF TypeOK, Slot
  <2>3. used' \in 0 .. TotalSlots
    BY <1>1, SlotsAssumption DEF TypeOK, HighWater, SlotIx
  <2> QED
    BY <1>1, <2>1, <2>2, <2>3 DEF NextToken
<1>2. CASE OpenSlots = {} /\ UNCHANGED <<slots, used, counter>>
  BY <1>2 DEF TypeOK
<1> QED
  BY <1>1, <1>2 DEF AllocSlot

\* A task inside a service names an ENVBLOCK and a slot.
LEMMA OpTyped ==
  ASSUME TypeOK, NEW t \in Tasks, op[t].pc # "idle"
  PROVE  op[t].b \in Blocks /\ op[t].slot \in SlotIx
  BY DEF TypeOK, Op, Idle

\* FINDENVB's secondary stage stores an ENVBLOCK into ECTENVBK.
LEMMA SecondaryTyped ==
  ASSUME TypeOK, NEW t \in Tasks, FindSecondary(t)
  PROVE  ectenvbk' \in Blocks \cup {None, Foreign} /\ op' \in [Tasks -> Op]
<1> USE SlotsAssumption, ConstAssumption
<1>1. CASE isTso /\ TsoSlots # {}
  <2>1. PICK i \in TsoSlots : ectenvbk' = slots[i].eb /\ Found(t, slots[i].eb)
    BY <1>1 DEF FindSecondary
  <2>2. slots[i].eb \in Blocks
    BY <2>1 DEF TsoSlots, Usable, LiveSlot
  <2> QED
    BY <2>1, <2>2 DEF TypeOK, Found, At, Op, Pcs, SlotIx
<1>2. CASE ~(isTso /\ TsoSlots # {})
  BY <1>2 DEF FindSecondary, TypeOK, Op
<1> QED
  BY <1>1, <1>2

\* Every step of every service keeps the types of the variables.
LEMMA StepTyped == TypeOK /\ [Next]_vars => TypeOK'
<1> SUFFICES ASSUME TypeOK, [Next]_vars PROVE TypeOK'
  OBVIOUS
<1> USE SlotsAssumption, ConstAssumption
<1>1. ASSUME NEW t \in Tasks, InitPrep(t) PROVE TypeOK'
  <2>1. PICK b \in Blocks, tso \in BOOLEAN, rent \in BOOLEAN, perm \in PermChoices :
          /\ env' = [env EXCEPT ![b] = [status |-> "live", tso |-> tso,
                        rent |-> rent, perm |-> perm, pb |-> TRUE, owner |-> t]]
          /\ op' = [op EXCEPT ![t] = At("initCommit", b, 0)]
    BY <1>1 DEF InitPrep
  <2>2. env' \in [Blocks -> EnvRec]
    BY <2>1 DEF TypeOK, EnvRec
  <2>3. op' \in [Tasks -> Op]
    BY <2>1 DEF TypeOK, Op, Pcs, At, SlotIx
  <2> QED
    BY <1>1, <2>2, <2>3 DEF TypeOK, InitPrep
<1>2. ASSUME NEW t \in Tasks, InitCommit(t) PROVE TypeOK'
  <2>1. op[t].b \in Blocks
    BY <1>2, OpTyped DEF InitCommit
  <2>2. env[op[t].b].tso \in BOOLEAN
    BY <2>1 DEF TypeOK, EnvRec
  <2>3. AllocSlot(op[t].b, t, env[op[t].b].tso)
    BY <1>2 DEF InitCommit
  <2>4. /\ slots' \in [SlotIx -> Slot]
        /\ used' \in 0 .. TotalSlots
        /\ counter' \in Nat
    BY <2>1, <2>2, <2>3, AllocTyped
  <2>5. op' \in [Tasks -> Op]
    BY <1>2 DEF TypeOK, InitCommit, Op
  <2> QED
    BY <1>2, <2>1, <2>4, <2>5 DEF TypeOK, InitCommit
<1>3. ASSUME NEW t \in Tasks, FindBegin(t) PROVE TypeOK'
  <2>1. ASSUME NEW i \in OwnSlots(t), Found(t, slots[i].eb), UNCHANGED ectenvbk
        PROVE  ectenvbk' \in Blocks \cup {None, Foreign} /\ op' \in [Tasks -> Op]
    <3>1. slots[i].eb \in Blocks
      BY DEF OwnSlots, Usable, LiveSlot
    <3> QED
      BY <2>1, <3>1 DEF TypeOK, Found, At, Op, Pcs, SlotIx
  <2>2. ASSUME CacheCandidate, UNCHANGED ectenvbk,
               op' = [op EXCEPT ![t] = At("findCached", ectenvbk, 0)]
        PROVE  ectenvbk' \in Blocks \cup {None, Foreign} /\ op' \in [Tasks -> Op]
    BY <2>2 DEF TypeOK, CacheCandidate, At, Op, Pcs, SlotIx
  <2>3. ectenvbk' \in Blocks \cup {None, Foreign} /\ op' \in [Tasks -> Op]
    BY <1>3, <2>1, <2>2, SecondaryTyped DEF FindBegin
  <2> QED
    BY <1>3, <2>3 DEF TypeOK, FindBegin
<1>4. ASSUME NEW t \in Tasks, FindCached(t) PROVE TypeOK'
  <2>1. op[t].b \in Blocks
    BY <1>4, OpTyped DEF FindCached
  <2>2. CASE Found(t, op[t].b) /\ UNCHANGED ectenvbk
    BY <1>4, <2>1, <2>2 DEF TypeOK, FindCached, Found, At, Op, Pcs, SlotIx
  <2>3. CASE FindSecondary(t)
    BY <1>4, <2>3, SecondaryTyped DEF TypeOK, FindCached
  <2> QED
    BY <1>4, <2>2, <2>3 DEF FindCached
<1>5. ASSUME NEW t \in Tasks, FindDone(t) PROVE TypeOK'
  BY <1>5 DEF TypeOK, FindDone, Op
<1>6. ASSUME NEW t \in Tasks, NEW b \in Blocks, TermBegin(t, b) PROVE TypeOK'
  <2>1. op' \in [Tasks -> Op]
    BY <1>6 DEF TypeOK, TermBegin, At, Op, Pcs
  <2>2. env' \in [Blocks -> EnvRec]
    <3>1. env' = [env EXCEPT ![b] = [env[b] EXCEPT !.pb = FALSE]]
      BY <1>6 DEF TermBegin
    <3>2. [env[b] EXCEPT !.pb = FALSE] \in EnvRec
      <4>1. env[b] \in EnvRec
        BY DEF TypeOK
      <4> QED
        BY <4>1 DEF EnvRec
    <3> QED
      BY <3>1, <3>2 DEF TypeOK
  <2> QED
    BY <1>6, <2>1, <2>2 DEF TypeOK, TermBegin
<1>7. ASSUME NEW t \in Tasks, TermUnregister(t) PROVE TypeOK'
  <2>1. op[t].b \in Blocks /\ op[t].slot \in SlotIx
    BY <1>7, OpTyped DEF TermUnregister
  <2>2. slots' \in [SlotIx -> Slot]
    BY <1>7 DEF TypeOK, TermUnregister, FreeSlot, Slot
  <2>3. op' \in [Tasks -> Op]
    BY <1>7, <2>1 DEF TypeOK, TermUnregister, Op, Pcs, Idle
  <2>4. env' \in [Blocks -> EnvRec]
    <3>1. NoEnv \in EnvRec
      BY DEF NoEnv, EnvRec
    <3> QED
      BY <1>7, <3>1 DEF TypeOK, TermUnregister, NeedsRollback, TsoAttached
  <2> QED
    BY <1>7, <2>2, <2>3, <2>4 DEF TypeOK, TermUnregister
<1>8. ASSUME NEW t \in Tasks, TermRollback(t) PROVE TypeOK'
  <2>1. ectenvbk' \in Blocks \cup {None, Foreign}
    BY <1>8 DEF TermRollback, PreviousUsed, RollbackSlots, LiveSlot
  <2>2. env' \in [Blocks -> EnvRec]
    BY <1>8 DEF TypeOK, TermRollback, EnvRec, NoEnv
  <2>3. op' \in [Tasks -> Op]
    BY <1>8 DEF TypeOK, TermRollback, Op
  <2> QED
    BY <1>8, <2>1, <2>2, <2>3 DEF TypeOK, TermRollback
<1>9. CASE ForeignClaim \/ ForeignRelease
  BY <1>9 DEF TypeOK, ForeignClaim, ForeignRelease
<1>10. ASSUME NEW t \in Tasks, TaskEnd(t) PROVE TypeOK'
  <2>1. PICK rest \in {"ghost", "none"} : env' = AfterTaskEnd(t, rest)
    BY <1>10 DEF TaskEnd
  <2>2. AfterTaskEnd(t, rest) \in [Blocks -> EnvRec]
    <3> SUFFICES ASSUME NEW c \in Blocks PROVE AfterTaskEnd(t, rest)[c] \in EnvRec
      BY DEF AfterTaskEnd
    <3>1. env[c] \in EnvRec /\ NoEnv \in EnvRec
      BY DEF TypeOK, EnvRec, NoEnv
    <3>2. /\ [env[c] EXCEPT !.owner = None] \in EnvRec
          /\ [env[c] EXCEPT !.status = "ghost", !.owner = None] \in EnvRec
      BY <3>1 DEF EnvRec
    <3> QED
      BY <3>1, <3>2 DEF AfterTaskEnd
  <2> QED
    BY <1>10, <2>1, <2>2 DEF TypeOK, TaskEnd
<1>11. ASSUME NEW t \in Tasks, TaskStart(t) PROVE TypeOK'
  BY <1>11 DEF TypeOK, TaskStart
<1>12. CASE UNCHANGED vars
  BY <1>12 DEF TypeOK, vars
<1> QED
  BY <1>1, <1>2, <1>3, <1>4, <1>5, <1>6, <1>7, <1>8, <1>9, <1>10, <1>11, <1>12
  DEF Next

\* The variables keep their types: the high-watermark stays within the table,
\* and a service in progress always names an ENVBLOCK and a slot.
THEOREM TypeCorrect == Spec => []TypeOK
  BY InitTyped, StepTyped, PTL DEF Spec

-----------------------------------------------------------------------------
(* Tokens.                                                                 *)

\* Slots with a token lie below the high-watermark, in the order of tokens.
TokenInv ==
    /\ TypeOK
    /\ \A i \in SlotIx : slots[i].token > 0 => i < used
    /\ TokenOrder

\* A step either keeps every token, the high-watermark and the counter, or
\* fills one slot at or above the high-watermark with a new token.
LEMMA TokensKeptOrAdded ==
  ASSUME TypeOK, [Next]_vars
  PROVE  \/ /\ \A i \in SlotIx : slots'[i].token = slots[i].token
            /\ used' = used
            /\ counter' = counter
         \/ \E i \in SlotIx :
            /\ i >= used
            /\ slots'[i].token = counter + 1
            /\ \A j \in SlotIx \ {i} : slots'[j] = slots[j]
            /\ used' = i + 1
            /\ counter' = counter + 1
<1> DEFINE Kept == /\ \A i \in SlotIx : slots'[i].token = slots[i].token
                   /\ used' = used
                   /\ counter' = counter
           Added == \E i \in SlotIx :
                   /\ i >= used
                   /\ slots'[i].token = counter + 1
                   /\ \A j \in SlotIx \ {i} : slots'[j] = slots[j]
                   /\ used' = i + 1
                   /\ counter' = counter + 1
<1>1. ASSUME NEW t \in Tasks, InitCommit(t) PROVE Kept \/ Added
  <2>1. AllocSlot(op[t].b, t, env[op[t].b].tso)
    BY <1>1 DEF InitCommit
  <2>2. CASE OpenSlots = {} /\ UNCHANGED <<slots, used, counter>>
    BY <2>2
  <2>3. ASSUME NEW i \in SlotIx, IsNextSlot(i), NextToken, HighWater(i),
               slots' = [slots EXCEPT ![i] =
                           [eb |-> op[t].b, token |-> counter + 1, tcb |-> t,
                            tso |-> env[op[t].b].tso]]
        PROVE  Added
    <3>1. i >= used
      BY <2>3, SlotsAssumption DEF TypeOK, IsNextSlot, OpenSlots, ScanStart, SlotIx
    <3>2. used' = i + 1
      BY <2>3, <3>1, SlotsAssumption DEF TypeOK, HighWater, SlotIx
    <3> QED
      BY <2>3, <3>1, <3>2 DEF TypeOK, NextToken
  <2> QED
    BY <2>1, <2>2, <2>3 DEF AllocSlot
<1>2. ASSUME NEW t \in Tasks, TermUnregister(t) PROVE Kept
  BY <1>2 DEF TypeOK, TermUnregister, FreeSlot, Slot
<1>3. CASE UNCHANGED <<slots, used, counter>>
  BY <1>3
<1>4. QED
  BY <1>1, <1>2, <1>3
  DEF Next, vars, InitPrep, FindBegin, FindCached, FindDone, TermBegin,
      TermRollback, ForeignClaim, ForeignRelease, TaskEnd, TaskStart

LEMMA InitTokens == Init => TokenInv
  BY InitTyped DEF Init, TokenInv, TokenOrder

LEMMA StepTokens == TokenInv /\ [Next]_vars => TokenInv'
<1> SUFFICES ASSUME TokenInv, [Next]_vars PROVE TokenInv'
  OBVIOUS
<1>1. TypeOK /\ TypeOK'
  BY StepTyped DEF TokenInv
<1>2. \A i \in SlotIx : slots[i].token \in Nat /\ slots'[i].token \in Nat
  BY <1>1 DEF TypeOK, Slot
<1>3. CASE /\ \A i \in SlotIx : slots'[i].token = slots[i].token
           /\ used' = used
           /\ counter' = counter
  BY <1>1, <1>3 DEF TokenInv, TokenOrder
<1>4. ASSUME NEW i \in SlotIx,
             i >= used,
             slots'[i].token = counter + 1,
             \A j \in SlotIx \ {i} : slots'[j] = slots[j],
             used' = i + 1,
             counter' = counter + 1
      PROVE  TokenInv'
  <2>1. \A j \in SlotIx : slots'[j].token > 0 => j < used'
    BY <1>1, <1>2, <1>4, SlotsAssumption DEF TokenInv, TypeOK, SlotIx
  <2>2. TokenOrder'
    BY <1>1, <1>2, <1>4, SlotsAssumption DEF TokenInv, TokenOrder, TypeOK, SlotIx
  <2> QED
    BY <1>1, <2>1, <2>2 DEF TokenInv
<1> QED
  BY <1>1, <1>3, <1>4, TokensKeptOrAdded

\* The order of slot indexes, which IRXTERM's rollback walks, is the order of
\* tokens, whose maximum FINDENVB takes, however many services interleave.
THEOREM TokensOrdered == Spec => []TokenOrder
<1>1. TokenInv => TokenOrder
  BY DEF TokenInv
<1> QED
  BY <1>1, InitTokens, StepTokens, PTL DEF Spec

\* A slot that was ever allocated is never allocated again.
THEOREM SlotsNeverRecycled == Spec => NeverRecycled
<1>1. ASSUME TokenInv, [Next]_vars
      PROVE  [\A i \in SlotIx : slots[i].token > 0 => slots'[i].token = slots[i].token]_vars
  <2>1. TypeOK
    BY <1>1 DEF TokenInv
  <2>2. ASSUME NEW i \in SlotIx, slots[i].token > 0,
               NEW k \in SlotIx, k >= used, \A j \in SlotIx \ {k} : slots'[j] = slots[j]
        PROVE  slots'[i].token = slots[i].token
    BY <1>1, <2>1, <2>2 DEF TokenInv, TypeOK, SlotIx
  <2> QED
    BY <1>1, <2>1, <2>2, TokensKeptOrAdded
<1> QED
  BY <1>1, InitTokens, StepTokens, PTL DEF Spec, NeverRecycled

-----------------------------------------------------------------------------
(* The registry and the anchor.                                            *)

BusyPcs == {"initCommit", "termUnreg", "termRollback"}
Busy(t) == op[t].pc \in BusyPcs
Slotted(b) == \E i \in SlotIx : slots[i].eb = b
Live(b) == env[b].status = "live"

\* A live slot lies below the high-watermark and describes its environment.
SlotsLive ==
    \A i \in SlotIx : LiveSlot(i) =>
        i < used /\ Live(slots[i].eb) /\ slots[i].tso = env[slots[i].eb].tso

SlotsUnique ==
    \A i, j \in SlotIx : LiveSlot(i) /\ slots[i].eb = slots[j].eb => i = j

\* INITENVB has not registered its environment yet, IRXTERM has its slot and
\* has freed it before it rolls the anchor back.
OpsInv ==
    \A t \in Tasks : Busy(t) =>
        /\ Live(op[t].b)
        /\ op[t].pc = "termUnreg" => slots[op[t].slot].eb = op[t].b
        /\ op[t].pc # "termUnreg" => ~Slotted(op[t].b)
        /\ op[t].pc = "termRollback" => isTso

OpsApart ==
    \A t, u \in Tasks : Busy(t) /\ Busy(u) /\ t # u => op[t].b # op[u].b

AnchorLive ==
    ectenvbk \in Blocks => isTso /\ Live(ectenvbk) /\ env[ectenvbk].tso

AllListed ==
    \A b \in Blocks : Live(b) => Slotted(b) \/ BusyWith(b) \/ OpenSlots = {}

Permanent == \A b \in Blocks : Live(b) => env[b].perm

RegInv == /\ TypeOK /\ SlotsLive /\ SlotsUnique /\ OpsInv /\ OpsApart
          /\ AnchorLive /\ AllListed /\ Permanent

LEMMA InitRegistry == Init => RegInv
<1> SUFFICES ASSUME Init PROVE RegInv
  OBVIOUS
<1>1. TypeOK
  BY InitTyped
<1>2. SlotsLive /\ SlotsUnique
  BY ConstAssumption DEF Init, SlotsLive, SlotsUnique, LiveSlot
<1>3. OpsInv /\ OpsApart
  BY DEF Init, OpsInv, OpsApart, Busy, BusyPcs, Idle
<1>4. AnchorLive /\ AllListed /\ Permanent
  BY ConstAssumption DEF Init, AnchorLive, AllListed, Permanent, Live, NoEnv
<1> QED
  BY <1>1, <1>2, <1>3, <1>4 DEF RegInv

\* Steps that leave the registry, the environments and every service that is
\* changing them alone.
LEMMA QuietStep ==
  ASSUME RegInv, TypeOK', AnchorLive', UNCHANGED <<isTso, slots, used, env>>,
         \A u \in Tasks : Busy(u) \/ Busy(u)' => op'[u] = op[u]
  PROVE  RegInv'
<1>1. SlotsLive' /\ SlotsUnique' /\ Permanent'
  BY DEF RegInv, SlotsLive, SlotsUnique, Permanent, LiveSlot, Live
<1>2. OpsInv' /\ OpsApart'
  BY DEF RegInv, OpsInv, OpsApart, Busy, Live, Slotted
<1>3. AllListed'
  <2>1. \A b \in Blocks : BusyWith(b) => BusyWith(b)'
    BY DEF BusyWith, Busy, BusyPcs
  <2> QED
    BY <2>1 DEF RegInv, AllListed, Live, Slotted, OpenSlots, ScanStart
<1> QED
  BY <1>1, <1>2, <1>3 DEF RegInv

\* What FINDENVB's secondary stage stores into ECTENVBK is a live
\* TSO-attached environment.
LEMMA SecondaryAnchors ==
  ASSUME RegInv, NEW t \in Tasks, FindSecondary(t), UNCHANGED <<isTso, env>>
  PROVE  AnchorLive'
<1>1. CASE isTso /\ TsoSlots # {}
  <2>1. PICK i \in TsoSlots : ectenvbk' = slots[i].eb
    BY <1>1 DEF FindSecondary
  <2> QED
    BY <1>1, <2>1
    DEF RegInv, SlotsLive, AnchorLive, TsoSlots, Usable, TsoAttached, Live
<1>2. CASE ~(isTso /\ TsoSlots # {})
  BY <1>2 DEF FindSecondary, RegInv, AnchorLive, Live
<1> QED
  BY <1>1, <1>2

LEMMA InitPrepRegistry ==
  ASSUME PermChoices \subseteq {TRUE}, RegInv, TypeOK', NEW t \in Tasks, InitPrep(t)
  PROVE  RegInv'
<1>1. PICK b \in Blocks, tso \in BOOLEAN, rent \in BOOLEAN, perm \in PermChoices :
        /\ ~Live(b)
        /\ env' = [env EXCEPT ![b] = [status |-> "live", tso |-> tso,
                      rent |-> rent, perm |-> perm, pb |-> TRUE, owner |-> t]]
        /\ op' = [op EXCEPT ![t] = At("initCommit", b, 0)]
  BY DEF InitPrep, Live
<1>2. /\ \A c \in Blocks \ {b} : env'[c] = env[c]
      /\ env'[b].status = "live" /\ env'[b].perm
  BY <1>1 DEF RegInv, TypeOK
<1>3. /\ \A u \in Tasks \ {t} : op'[u] = op[u]
      /\ op'[t].pc = "initCommit" /\ op'[t].b = b
      /\ ~Busy(t)
  BY <1>1 DEF RegInv, TypeOK, At, InitPrep, CanBegin, Busy, BusyPcs
<1>4. UNCHANGED <<isTso, slots, used, ectenvbk>>
  BY DEF InitPrep
<1>5. ~Slotted(b)
  BY <1>1 DEF RegInv, SlotsLive, Slotted, LiveSlot
<1>6. SlotsLive' /\ SlotsUnique'
  BY <1>2, <1>4, <1>5 DEF RegInv, SlotsLive, SlotsUnique, LiveSlot, Live, Slotted
<1>7. \A u \in Tasks \ {t} : Busy(u) => op[u].b \in Blocks /\ op[u].b # b
  BY <1>1, OpTyped DEF RegInv, OpsInv, Busy, BusyPcs
<1>8. OpsInv'
  BY <1>2, <1>3, <1>4, <1>5, <1>7 DEF RegInv, OpsInv, Busy, BusyPcs, Live, Slotted
<1>9. OpsApart'
  BY <1>3, <1>7 DEF RegInv, OpsApart, Busy
<1>10. AnchorLive'
  BY <1>1, <1>2, <1>4 DEF RegInv, AnchorLive, Live
<1>11. AllListed'
  <2>1. BusyWith(b)'
    BY <1>3 DEF BusyWith
  <2>2. \A c \in Blocks : BusyWith(c) => BusyWith(c)'
    BY <1>3 DEF BusyWith, Busy, BusyPcs
  <2> QED
    BY <1>2, <1>4, <2>1, <2>2 DEF RegInv, AllListed, Live, Slotted, OpenSlots, ScanStart
<1>12. Permanent'
  BY <1>2 DEF RegInv, Permanent, Live
<1> QED
  BY <1>6, <1>8, <1>9, <1>10, <1>11, <1>12 DEF RegInv

LEMMA InitCommitRegistry ==
  ASSUME RegInv, TypeOK', NEW t \in Tasks, InitCommit(t)
  PROVE  RegInv'
<1> DEFINE b == op[t].b
<1> USE SlotsAssumption, ConstAssumption
<1>1. /\ b \in Blocks /\ Busy(t) /\ Live(b) /\ ~Slotted(b)
  BY OpTyped DEF RegInv, OpsInv, InitCommit, Busy, BusyPcs
<1>2. /\ \A u \in Tasks \ {t} : op'[u] = op[u]
      /\ ~Busy(t)'
  BY DEF RegInv, TypeOK, InitCommit, Idle, Busy, BusyPcs
<1>3. UNCHANGED <<isTso, env>>
  BY DEF InitCommit
<1>4. \A u \in Tasks \ {t} : Busy(u) => op[u].b \in Blocks /\ op[u].b # b
  BY <1>1, OpTyped DEF RegInv, OpsApart, Busy, BusyPcs
<1>5. AnchorLive'
  BY <1>1, <1>3 DEF RegInv, AnchorLive, InitCommit, Live
<1>6. OpsApart' /\ Permanent'
  BY <1>2, <1>3 DEF RegInv, OpsApart, Permanent, Busy, Live
<1>7. \A c \in Blocks \ {b} : BusyWith(c) => BusyWith(c)'
  BY <1>2 DEF BusyWith
<1>8. CASE OpenSlots = {} /\ UNCHANGED <<slots, used, counter>>
  <2>1. SlotsLive' /\ SlotsUnique' /\ OpsInv'
    BY <1>2, <1>3, <1>8
    DEF RegInv, SlotsLive, SlotsUnique, OpsInv, LiveSlot, Live, Slotted, Busy
  <2>2. AllListed'
    BY <1>8 DEF AllListed, OpenSlots, ScanStart
  <2> QED
    BY <1>5, <1>6, <2>1, <2>2 DEF RegInv
<1>9. ASSUME NEW i \in SlotIx, IsNextSlot(i), HighWater(i),
             slots' = [slots EXCEPT ![i] =
                         [eb |-> b, token |-> counter + 1, tcb |-> t, tso |-> env[b].tso]]
      PROVE  RegInv'
  <2>1. /\ slots[i].eb = Free /\ i >= used
        /\ \A j \in SlotIx \ {i} : slots'[j] = slots[j]
        /\ slots'[i].eb = b /\ slots'[i].tso = env[b].tso
    BY <1>9 DEF RegInv, TypeOK, IsNextSlot, OpenSlots, ScanStart, SlotIx
  <2>2. used' = i + 1
    BY <1>9, <2>1 DEF RegInv, TypeOK, HighWater, SlotIx
  <2>3. SlotsLive'
    <3> SUFFICES ASSUME NEW j \in SlotIx, LiveSlot(j)'
                 PROVE  /\ j < used' /\ Live(slots[j].eb)'
                        /\ slots'[j].tso = env'[slots'[j].eb].tso
      BY DEF SlotsLive
    <3>1. CASE j = i
      BY <1>1, <1>3, <2>1, <2>2, <3>1 DEF Live, SlotIx
    <3>2. CASE j # i
      BY <1>3, <2>1, <2>2, <3>2 DEF RegInv, TypeOK, SlotsLive, LiveSlot, Live, SlotIx
    <3> QED
      BY <3>1, <3>2
  <2>4. SlotsUnique'
    BY <1>1, <2>1 DEF RegInv, SlotsUnique, LiveSlot, Slotted
  <2>5. OpsInv'
    <3> SUFFICES ASSUME NEW u \in Tasks, Busy(u)'
                 PROVE  /\ Live(op[u].b)'
                        /\ op'[u].pc = "termUnreg" => slots'[op'[u].slot].eb = op'[u].b
                        /\ op'[u].pc # "termUnreg" => ~Slotted(op[u].b)'
                        /\ op'[u].pc = "termRollback" => isTso'
      BY DEF OpsInv
    <3>1. u # t /\ op'[u] = op[u] /\ Busy(u) /\ op[u].b # b /\ op[u].slot \in SlotIx
      BY <1>2, <1>4, OpTyped DEF RegInv, Busy, BusyPcs
    <3>2. op[u].b \in Blocks
      BY <1>4, <3>1
    <3> QED
      BY <1>3, <2>1, <3>1, <3>2 DEF RegInv, OpsInv, Live, Slotted
  <2>6. AllListed'
    <3> SUFFICES ASSUME NEW c \in Blocks, Live(c)'
                 PROVE  Slotted(c)' \/ BusyWith(c)'
      BY DEF AllListed
    <3>1. CASE c = b
      BY <2>1, <3>1 DEF Slotted
    <3>2. CASE c # b
      <4>1. OpenSlots # {}
        BY <1>9 DEF IsNextSlot
      <4>2. Slotted(c) \/ BusyWith(c)
        BY <1>3, <4>1 DEF RegInv, AllListed, Live
      <4> QED
        BY <1>7, <2>1, <3>2, <4>2 DEF Slotted
    <3> QED
      BY <3>1, <3>2
  <2> QED
    BY <1>5, <1>6, <2>3, <2>4, <2>5, <2>6 DEF RegInv
<1> QED
  BY <1>8, <1>9 DEF InitCommit, AllocSlot

LEMMA FindRegistry ==
  ASSUME RegInv, TypeOK', NEW t \in Tasks,
         FindBegin(t) \/ FindCached(t) \/ FindDone(t)
  PROVE  RegInv'
<1>1. UNCHANGED <<isTso, slots, used, env>>
  BY DEF FindBegin, FindCached, FindDone
<1>3. AnchorLive'
  BY <1>1, SecondaryAnchors
  DEF RegInv, AnchorLive, FindBegin, FindCached, FindDone, Live
<1>4. /\ \A u \in Tasks \ {t} : op'[u] = op[u]
      /\ ~Busy(t)
  BY DEF RegInv, TypeOK, FindBegin, FindCached, FindDone, FindSecondary, Found,
         CanBegin, Busy, BusyPcs
<1>5. op'[t].pc \in {"idle", "found", "findCached"}
  BY DEF RegInv, TypeOK, FindBegin, FindCached, FindDone, FindSecondary, Found, At, Idle
<1>6. ~Busy(t)'
  BY <1>5 DEF Busy, BusyPcs
<1> QED
  BY <1>1, <1>3, <1>4, <1>6, QuietStep

LEMMA TermBeginRegistry ==
  ASSUME RegInv, TypeOK', NEW t \in Tasks, NEW b \in Blocks, TermBegin(t, b)
  PROVE  RegInv'
<1>1. PICK i \in SlotIx : IsSlotOf(i, b) /\ op' = [op EXCEPT ![t] = At("termUnreg", b, i)]
  BY DEF TermBegin
<1>2. /\ \A u \in Tasks \ {t} : op'[u] = op[u]
      /\ op'[t].pc = "termUnreg" /\ op'[t].b = b /\ op'[t].slot = i
      /\ ~Busy(t)
  BY <1>1 DEF RegInv, TypeOK, At, TermBegin, CanBegin, Busy, BusyPcs
<1>3. UNCHANGED <<isTso, slots, used, ectenvbk>>
  BY DEF TermBegin
<1>4. \A c \in Blocks : /\ env'[c].status = env[c].status
                        /\ env'[c].tso = env[c].tso
                        /\ env'[c].perm = env[c].perm
  BY DEF RegInv, TypeOK, EnvRec, TermBegin
<1>5. slots[i].eb = b /\ Live(b)
  BY <1>1 DEF RegInv, SlotsLive, LiveSlot, IsSlotOf
<1>6. \A u \in Tasks \ {t} : Busy(u) => op[u].b \in Blocks /\ op[u].b # b
  BY OpTyped DEF RegInv, TermBegin, BusyWith, Busy, BusyPcs
<1>7. SlotsLive' /\ SlotsUnique' /\ AnchorLive' /\ Permanent'
  BY <1>3, <1>4
  DEF RegInv, SlotsLive, SlotsUnique, AnchorLive, Permanent, LiveSlot, Live
<1>8. OpsInv'
  BY <1>2, <1>3, <1>4, <1>5, <1>6 DEF RegInv, OpsInv, Busy, BusyPcs, Live, Slotted
<1>9. OpsApart'
  BY <1>2, <1>6 DEF RegInv, OpsApart, Busy
<1>10. AllListed'
  <2>1. \A c \in Blocks : BusyWith(c) => BusyWith(c)'
    BY <1>2 DEF BusyWith, Busy, BusyPcs
  <2> QED
    BY <1>3, <1>4, <2>1 DEF RegInv, AllListed, Live, Slotted, OpenSlots, ScanStart
<1> QED
  BY <1>7, <1>8, <1>9, <1>10 DEF RegInv

\* Freeing the slot and either freeing the ENVBLOCK or going on to roll back.
\* When there is nothing to roll back the anchor is not the ENVBLOCK freed.
LEMMA TermUnregisterRegistry ==
  ASSUME RegInv, TypeOK', NEW t \in Tasks, TermUnregister(t)
  PROVE  RegInv'
<1> DEFINE b == op[t].b
           i == op[t].slot
<1> USE SlotsAssumption, ConstAssumption
<1>1. b \in Blocks /\ i \in SlotIx /\ Busy(t) /\ Live(b) /\ slots[i].eb = b
  BY OpTyped DEF RegInv, OpsInv, TermUnregister, Busy, BusyPcs
<1>2. slots' = [slots EXCEPT ![i].eb = Free]
  BY <1>1 DEF RegInv, SlotsUnique, LiveSlot, TermUnregister, FreeSlot, IsSlotOf
<1>3. /\ slots'[i].eb = Free /\ i < used
      /\ \A j \in SlotIx \ {i} : slots'[j] = slots[j] /\ slots[j].eb # b
  BY <1>1, <1>2 DEF RegInv, TypeOK, Slot, SlotsUnique, SlotsLive, LiveSlot
<1>4. UNCHANGED <<isTso, used, ectenvbk>>
  BY DEF TermUnregister
<1>5. /\ \A u \in Tasks \ {t} : op'[u] = op[u]
      /\ Busy(t)' => /\ op'[t].pc = "termRollback" /\ op'[t].b = b
                     /\ env' = env /\ isTso
  <2>1. op \in [Tasks -> Op] /\ op[t] # Idle
    BY DEF RegInv, TypeOK, TermUnregister, Idle
  <2>2. CASE NeedsRollback(i, b)
    <3>1. op' = [op EXCEPT ![t].pc = "termRollback"] /\ env' = env
      BY <2>2 DEF TermUnregister
    <3> QED
      BY <2>1, <2>2, <3>1 DEF Op, NeedsRollback
  <2>3. CASE ~NeedsRollback(i, b)
    <3>1. op' = [op EXCEPT ![t] = Idle]
      BY <2>3 DEF TermUnregister
    <3> QED
      BY <2>1, <3>1 DEF Idle, Busy, BusyPcs
  <2> QED
    BY <2>2, <2>3
<1>6. /\ \A c \in Blocks \ {b} : env'[c] = env[c]
      /\ env'[b] = env[b] \/ (env'[b] = NoEnv /\ ectenvbk # b)
      /\ env'[b] = env[b] => Busy(t)'
  <2>1. CASE NeedsRollback(i, b)
    BY <1>1, <2>1 DEF RegInv, TypeOK, Op, TermUnregister, Busy, BusyPcs
  <2>2. CASE ~NeedsRollback(i, b)
    <3>1. env' = [env EXCEPT ![b] = NoEnv]
      BY <2>2 DEF TermUnregister
    <3>2. ectenvbk # b
      BY <1>1, <2>2
      DEF RegInv, AnchorLive, SlotsLive, LiveSlot, NeedsRollback, TsoAttached
    <3> QED
      BY <1>1, <3>1, <3>2 DEF RegInv, TypeOK, Live, NoEnv
  <2> QED
    BY <2>1, <2>2
<1>7. \A u \in Tasks \ {t} : Busy(u) =>
        op[u].b \in Blocks /\ op[u].b # b /\ op[u].slot \in SlotIx
  BY <1>1, OpTyped DEF RegInv, OpsApart, Busy, BusyPcs
<1>8. SlotsLive' /\ SlotsUnique'
  BY <1>1, <1>3, <1>4, <1>6 DEF RegInv, SlotsLive, SlotsUnique, LiveSlot, Live
<1>9. OpsInv'
  <2> SUFFICES ASSUME NEW u \in Tasks, Busy(u)'
               PROVE  /\ Live(op[u].b)'
                      /\ op'[u].pc = "termUnreg" => slots'[op'[u].slot].eb = op'[u].b
                      /\ op'[u].pc # "termUnreg" => ~Slotted(op[u].b)'
                      /\ op'[u].pc = "termRollback" => isTso'
    BY DEF OpsInv
  <2>1. CASE u = t
    BY <1>1, <1>3, <1>4, <1>5, <2>1 DEF Slotted, Live
  <2>2. CASE u # t
    <3>1. op'[u] = op[u] /\ Busy(u)
      BY <1>5, <2>2 DEF Busy
    <3>2. op[u].b \in Blocks /\ op[u].b # b /\ op[u].slot \in SlotIx
      BY <1>7, <2>2, <3>1
    <3>3. env'[op[u].b] = env[op[u].b]
      BY <1>6, <3>2
    <3>4. op[u].pc = "termUnreg" => slots'[op[u].slot].eb = op[u].b
      BY <1>1, <1>3, <3>1, <3>2 DEF RegInv, OpsInv
    <3>5. op[u].pc # "termUnreg" => ~Slotted(op[u].b)'
      BY <1>3, <3>1, <3>2 DEF RegInv, OpsInv, Slotted
    <3> QED
      BY <1>4, <3>1, <3>2, <3>3, <3>4, <3>5 DEF RegInv, OpsInv, Live
  <2> QED
    BY <2>1, <2>2
<1>10. OpsApart'
  BY <1>1, <1>5 DEF RegInv, OpsApart, Busy
<1>11. AnchorLive' /\ Permanent'
  BY <1>4, <1>6 DEF RegInv, AnchorLive, Permanent, Live, NoEnv
<1>12. AllListed'
  <2> SUFFICES ASSUME NEW c \in Blocks, Live(c)', ~(OpenSlots = {})'
               PROVE  Slotted(c)' \/ BusyWith(c)'
    BY DEF AllListed
  <2>1. OpenSlots # {}
    BY <1>3, <1>4 DEF RegInv, TypeOK, OpenSlots, ScanStart, SlotIx
  <2>2. CASE c = b
    <3>1. Busy(t)'
      BY <1>6, <2>2 DEF Live, NoEnv
    <3> QED
      BY <1>5, <2>2, <3>1 DEF BusyWith, Busy, BusyPcs
  <2>3. CASE c # b
    <3>1. Slotted(c) \/ BusyWith(c)
      BY <1>6, <2>1, <2>3 DEF RegInv, AllListed, Live
    <3> QED
      BY <1>1, <1>3, <1>5, <2>3, <3>1 DEF Slotted, BusyWith
  <2> QED
    BY <2>2, <2>3
<1> QED
  BY <1>8, <1>9, <1>10, <1>11, <1>12 DEF RegInv

LEMMA TermRollbackRegistry ==
  ASSUME RegInv, TypeOK', NEW t \in Tasks, TermRollback(t)
  PROVE  RegInv'
<1> DEFINE b == op[t].b
<1> USE ConstAssumption
<1>1. b \in Blocks /\ Busy(t) /\ Live(b) /\ ~Slotted(b)
  BY OpTyped DEF RegInv, OpsInv, TermRollback, Busy, BusyPcs
<1>2. /\ \A u \in Tasks \ {t} : op'[u] = op[u]
      /\ ~Busy(t)'
  BY DEF RegInv, TypeOK, TermRollback, Idle, Busy, BusyPcs
<1>3. UNCHANGED <<isTso, slots, used>>
  BY DEF TermRollback
<1>4. /\ \A c \in Blocks \ {b} : env'[c] = env[c]
      /\ env'[b] = NoEnv
  BY <1>1 DEF RegInv, TypeOK, TermRollback
<1>5. \A u \in Tasks \ {t} : Busy(u) =>
        op[u].b \in Blocks /\ op[u].b # b /\ op[u].slot \in SlotIx
  BY <1>1, OpTyped DEF RegInv, OpsApart, Busy, BusyPcs
<1>6. AnchorLive'
  <2>1. CASE ectenvbk' = None
    BY <2>1 DEF AnchorLive
  <2>2. CASE ectenvbk' \in PreviousUsed(op[t].slot)
    <3>1. PICK j \in SlotIx : LiveSlot(j) /\ TsoAttached(j) /\ ectenvbk' = slots[j].eb
      BY <2>2 DEF PreviousUsed, RollbackSlots
    <3>2. slots[j].eb \in Blocks \ {b}
      BY <1>1, <3>1 DEF LiveSlot, Slotted
    <3>3. isTso
      BY <1>1 DEF RegInv, OpsInv, TermRollback
    <3> QED
      BY <1>3, <1>4, <3>1, <3>2, <3>3
      DEF RegInv, SlotsLive, AnchorLive, TsoAttached, Live
  <2> QED
    BY <2>1, <2>2 DEF TermRollback
<1>7. SlotsLive' /\ SlotsUnique'
  BY <1>1, <1>3, <1>4 DEF RegInv, SlotsLive, SlotsUnique, LiveSlot, Live, Slotted
<1>8. OpsInv' /\ OpsApart'
  BY <1>2, <1>3, <1>4, <1>5 DEF RegInv, OpsInv, OpsApart, Busy, Live, Slotted
<1>9. Permanent'
  BY <1>4 DEF RegInv, Permanent, Live, NoEnv
<1>10. AllListed'
  <2>1. \A c \in Blocks \ {b} : BusyWith(c) => BusyWith(c)'
    BY <1>2 DEF BusyWith
  <2> QED
    BY <1>3, <1>4, <2>1
    DEF RegInv, AllListed, Live, Slotted, OpenSlots, ScanStart, NoEnv
<1> QED
  BY <1>6, <1>7, <1>8, <1>9, <1>10 DEF RegInv

\* A task that ends takes its subpool-0 storage along, which is no ENVBLOCK
\* when every ENVBLOCK is in a subpool that outlives the task.
LEMMA TaskEndRegistry ==
  ASSUME RegInv, TypeOK', NEW t \in Tasks, TaskEnd(t)
  PROVE  RegInv'
<1>1. PICK rest \in {"ghost", "none"} : env' = AfterTaskEnd(t, rest)
  BY DEF TaskEnd
<1>2. \A c \in Blocks : /\ env'[c].status = env[c].status
                        /\ env'[c].tso = env[c].tso
                        /\ env'[c].perm = env[c].perm
  <2> SUFFICES ASSUME NEW c \in Blocks
               PROVE  /\ env'[c].status = env[c].status
                      /\ env'[c].tso = env[c].tso
                      /\ env'[c].perm = env[c].perm
    OBVIOUS
  <2>1. env[c] \in EnvRec
    BY DEF RegInv, TypeOK
  <2>2. CASE env[c].status # "live" \/ env[c].owner # t
    <3>1. env'[c] = env[c]
      BY <1>1, <2>2 DEF AfterTaskEnd
    <3> QED
      BY <3>1
  <2>3. CASE env[c].status = "live" /\ env[c].owner = t
    <3>1. env[c].perm
      BY <2>3 DEF RegInv, Permanent, Live
    <3>2. env'[c] = [env[c] EXCEPT !.owner = None]
      BY <1>1, <2>3, <3>1 DEF AfterTaskEnd
    <3> QED
      BY <2>1, <3>2 DEF EnvRec
  <2> QED
    BY <2>2, <2>3
<1>3. UNCHANGED <<isTso, slots, used, ectenvbk, op>>
  BY DEF TaskEnd
<1>4. SlotsLive' /\ SlotsUnique' /\ AnchorLive' /\ Permanent'
  BY <1>2, <1>3
  DEF RegInv, SlotsLive, SlotsUnique, AnchorLive, Permanent, LiveSlot, Live
<1>5. OpsInv' /\ OpsApart'
  BY <1>2, <1>3, OpTyped
  DEF RegInv, OpsInv, OpsApart, Busy, BusyPcs, Live, Slotted
<1>6. AllListed'
  BY <1>2, <1>3 DEF RegInv, AllListed, Live, Slotted, BusyWith, OpenSlots, ScanStart
<1> QED
  BY <1>4, <1>5, <1>6 DEF RegInv

LEMMA StepRegistry ==
  ASSUME PermChoices \subseteq {TRUE}, RegInv, [Next]_vars
  PROVE  RegInv'
<1>1. TypeOK'
  BY StepTyped DEF RegInv
<1>2. CASE \/ ForeignClaim \/ ForeignRelease \/ UNCHANGED vars
           \/ \E t \in Tasks : TaskStart(t)
  <2>1. UNCHANGED <<isTso, slots, used, env, op>>
    BY <1>2 DEF ForeignClaim, ForeignRelease, TaskStart, vars
  <2>2. ectenvbk' = ectenvbk \/ ectenvbk' \in {Foreign, None}
    BY <1>2 DEF ForeignClaim, ForeignRelease, TaskStart, vars
  <2>3. AnchorLive'
    BY <2>1, <2>2, ConstAssumption DEF RegInv, AnchorLive, Live
  <2> QED
    BY <1>1, <2>1, <2>3, QuietStep
<1> QED
  BY <1>1, <1>2, InitPrepRegistry, InitCommitRegistry, FindRegistry,
     TermBeginRegistry, TermUnregisterRegistry, TermRollbackRegistry, TaskEndRegistry
  DEF Next

LEMMA RegistryInvariant ==
  ASSUME PermChoices \subseteq {TRUE}
  PROVE  Spec => []RegInv
<1>1. RegInv /\ [Next]_vars => RegInv'
  BY StepRegistry
<1> QED
  BY <1>1, InitRegistry, PTL DEF Spec

\* When ENVBLOCKs outlive their task, ECTENVBK never points at one that was
\* freed or is not TSO-attached, in whatever order any number of tasks
\* initialise, find and terminate environments.
THEOREM AnchorSafe ==
  ASSUME PermChoices \subseteq {TRUE}
  PROVE  Spec => []AnchorNotDangling
<1>1. RegInv => AnchorNotDangling
  BY DEF RegInv, AnchorLive, AnchorNotDangling, Live
<1> QED
  BY <1>1, RegistryInvariant, PTL

\* Under the same condition the registry lists exactly the environments in
\* existence.
THEOREM RegistryAlwaysExact ==
  ASSUME PermChoices \subseteq {TRUE}
  PROVE  Spec => []RegistryExact
<1>1. ASSUME RegInv PROVE RegistryExact
  <2>1. ASSUME NEW b \in Blocks, Slotted(b) PROVE Registered(b)
    <3>1. PICK i \in SlotIx : slots[i].eb = b
      BY <2>1 DEF Slotted
    <3>2. i < used /\ \A j \in SlotIx : slots[j].eb = b => j = i
      BY <1>1, <3>1 DEF RegInv, SlotsLive, SlotsUnique, LiveSlot
    <3>3. \A j \in SlotIx : j < i => j # i
      BY SlotsAssumption DEF SlotIx
    <3> QED
      BY <3>1, <3>2, <3>3 DEF Registered, IsSlotOf
  <2> QED
    BY <1>1, <2>1
    DEF RegInv, SlotsLive, SlotsUnique, AllListed, RegistryExact, Live
<1>2. RegInv => RegistryExact
  BY <1>1
<1> QED
  BY <1>2, RegistryInvariant, PTL

-----------------------------------------------------------------------------
(* What holds when services do not overlap.                                *)

Working(t) == op[t].pc \in {"initCommit", "findCached", "termUnreg", "termRollback"}
Alone == \A t, u \in Tasks : Working(t) /\ Working(u) => t = u

\* Slots are taken from the first on, one for each token, and none twice.
Taken == {i \in SlotIx : slots[i].token > 0}
Allotted ==
    /\ \A i \in Sentinels : slots[i].eb = Sentinel /\ slots[i].token = 0
    /\ \A i \in Usables : /\ slots[i].token = 0 => slots[i].eb = Free
                          /\ i < used => slots[i].token > 0
    /\ counter = Cardinality(Taken)

\* Only IRXTERM makes an ENVBLOCK lose its PARMBLOCK.
Complete ==
    \A b \in Blocks : Live(b) /\ ~env[b].pb =>
        \E t \in Tasks : op[t].pc \in {"termUnreg", "termRollback"} /\ op[t].b = b

\* Every TSO environment registered after the one in slot i is reentrant.
NoneAfter(i) ==
    \A j \in SlotIx : i < j /\ LiveSlot(j) /\ TsoAttached(j) => env[slots[j].eb].rent

\* FINDENVB takes the newest, IRXTERM goes back to the one before.
AnchorNewest ==
    \A i \in SlotIx : LiveSlot(i) /\ slots[i].eb = ectenvbk => NoneAfter(i)

FindInv ==
    \A t \in Tasks : op[t].pc = "findCached" =>
        isTso /\ ectenvbk = op[t].b /\ OwnSlots(t) = {}

RollInv ==
    \A t \in Tasks : op[t].pc = "termRollback" =>
        /\ ectenvbk = op[t].b
        /\ slots[op[t].slot].eb = Free
        /\ slots[op[t].slot].token > 0
        /\ TsoAttached(op[t].slot)
        /\ NoneAfter(op[t].slot)

ForeignOfTso == ectenvbk = Foreign => isTso

SerialInv ==
    /\ RegInv /\ TokenInv
    /\ Alone /\ Allotted /\ Complete /\ AnchorNewest /\ FindInv /\ RollInv
    /\ ForeignOfTso

LEMMA InitSerial == Init => SerialInv
<1> SUFFICES ASSUME Init PROVE SerialInv
  OBVIOUS
<1>1. RegInv /\ TokenInv
  BY InitRegistry, InitTokens
<1>2. \A t \in Tasks : op[t].pc = "idle"
  BY DEF Init, Idle
<1>3. \A i \in SlotIx : slots[i].token = 0 /\ ~LiveSlot(i)
  BY ConstAssumption DEF Init, LiveSlot
<1>4. Cardinality(Taken) = 0
  <2>1. Taken = {}
    BY <1>3 DEF Taken
  <2> QED
    BY <2>1, FS_EmptySet
<1>5. Allotted
  BY <1>4, SlotsAssumption DEF Init, Allotted, Usables, SlotIx
<1>6. Complete
  BY DEF Init, Complete, Live, NoEnv
<1>7. ForeignOfTso
  BY ConstAssumption DEF Init, ForeignOfTso
<1> QED
  BY <1>1, <1>2, <1>3, <1>5, <1>6, <1>7
  DEF SerialInv, Alone, Working, AnchorNewest, FindInv, RollInv

\* A service begins when no other runs.
LEMMA NobodyWorks ==
  ASSUME Serialized, Undisturbed
  PROVE  \A u \in Tasks : ~Working(u)
  BY DEF Undisturbed, Working

\* A step concerns one task, which was alone or finds nobody at work.
LEMMA AloneStep ==
  ASSUME Serialized, SerialInv, [Next]_vars
  PROVE  Alone'
<1>1. op \in [Tasks -> Op]
  BY DEF SerialInv, RegInv, TypeOK
<1>2. ASSUME NEW t \in Tasks, \A u \in Tasks \ {t} : op'[u] = op[u],
             \/ Working(t) \/ ~Working(t)' \/ Undisturbed
      PROVE  Alone'
  BY <1>2, NobodyWorks DEF SerialInv, Alone, Working
<1>3. ASSUME NEW t \in Tasks, InitPrep(t) PROVE Alone'
  BY <1>1, <1>2, <1>3 DEF InitPrep, CanBegin
<1>4. ASSUME NEW t \in Tasks, InitCommit(t) PROVE Alone'
  BY <1>1, <1>2, <1>4 DEF InitCommit, Working
<1>5. ASSUME NEW t \in Tasks, FindBegin(t) PROVE Alone'
  BY <1>1, <1>2, <1>5 DEF FindBegin, CanBegin, FindSecondary, Found
<1>6. ASSUME NEW t \in Tasks, FindCached(t) PROVE Alone'
  BY <1>1, <1>2, <1>6 DEF FindCached, FindSecondary, Found, Working
<1>7. ASSUME NEW t \in Tasks, FindDone(t) PROVE Alone'
  BY <1>1, <1>2, <1>7 DEF FindDone, Idle, Working
<1>8. ASSUME NEW t \in Tasks, NEW b \in Blocks, TermBegin(t, b) PROVE Alone'
  BY <1>1, <1>2, <1>8 DEF TermBegin, CanBegin
<1>9. ASSUME NEW t \in Tasks, TermUnregister(t) PROVE Alone'
  BY <1>1, <1>2, <1>9 DEF TermUnregister, Working
<1>10. ASSUME NEW t \in Tasks, TermRollback(t) PROVE Alone'
  BY <1>1, <1>2, <1>10 DEF TermRollback, Working
<1>11. CASE op' = op
  BY <1>11 DEF SerialInv, Alone, Working
<1> QED
  BY <1>3, <1>4, <1>5, <1>6, <1>7, <1>8, <1>9, <1>10, <1>11
  DEF Next, vars, ForeignClaim, ForeignRelease, TaskEnd, TaskStart

LEMMA TakenFinite == IsFiniteSet(Taken) /\ IsFiniteSet(Usables)
<1>1. IsFiniteSet(SlotIx)
  BY SlotsAssumption, FS_Interval DEF SlotIx
<1> QED
  BY <1>1, FS_Subset DEF Taken, Usables

\* irx_anchor_alloc_slot takes the first slot that was never taken.
LEMMA NextSlotIsNew ==
  ASSUME SerialInv, NEW i \in SlotIx, IsNextSlot(i)
  PROVE  /\ i \in Usables /\ i >= used /\ slots[i].token = 0 /\ slots[i].eb = Free
         /\ \A j \in Usables : j < i => slots[j].token > 0
<1> USE SlotsAssumption, ConstAssumption DEF SlotIx
<1>1. /\ used \in Nat /\ i >= used /\ i >= 1 /\ slots[i].eb = Free
      /\ \A j \in SlotIx : slots[j].token \in Nat
  BY DEF SerialInv, RegInv, TypeOK, Slot, IsNextSlot, OpenSlots, ScanStart
<1>2. i \notin Sentinels
  BY <1>1 DEF SerialInv, Allotted
<1>3. slots[i].token = 0
  BY <1>1 DEF SerialInv, TokenInv
<1>4. ASSUME NEW j \in Usables, j < i, slots[j].token = 0 PROVE FALSE
  <2>1. slots[j].eb = Free /\ j >= used /\ j >= 1 /\ j \in SlotIx
    BY <1>1, <1>4 DEF SerialInv, Allotted, Usables
  <2>2. j \in OpenSlots
    BY <1>1, <2>1 DEF OpenSlots, ScanStart
  <2> QED
    BY <1>1, <1>4, <2>1, <2>2 DEF IsNextSlot
<1> QED
  BY <1>1, <1>2, <1>3, <1>4 DEF Usables

LEMMA AllottedStep ==
  ASSUME SerialInv, [Next]_vars
  PROVE  Allotted'
<1> USE SlotsAssumption, ConstAssumption
<1>1. /\ used \in Nat /\ slots \in [SlotIx -> Slot] /\ counter \in Nat
      /\ \A i \in SlotIx : slots[i].token \in Nat
  BY DEF SerialInv, RegInv, TypeOK, Slot, SlotIx
<1>2. Sentinels \subseteq SlotIx /\ Usables \subseteq SlotIx
  BY DEF SlotIx, Usables
<1>3. ASSUME NEW t \in Tasks, NEW tso, NEW b \in Blocks, NEW i \in SlotIx, IsNextSlot(i), NextToken,
             HighWater(i),
             slots' = [slots EXCEPT ![i] =
                         [eb |-> b, token |-> counter + 1, tcb |-> t, tso |-> tso]]
      PROVE  Allotted'
  <2>1. /\ i \in Usables /\ i >= used /\ slots[i].token = 0
        /\ \A j \in Usables : j < i => slots[j].token > 0
    BY <1>3, NextSlotIsNew
  <2>2. /\ slots'[i].token = counter + 1 /\ slots'[i].token > 0
        /\ \A j \in SlotIx \ {i} : slots'[j] = slots[j]
    BY <1>1, <1>3
  <2>3. used' = i + 1
    BY <1>1, <1>3, <2>1 DEF HighWater, SlotIx
  <2>4. Taken' = Taken \cup {i} /\ i \notin Taken
    BY <2>1, <2>2 DEF Taken
  <2>5. counter' = Cardinality(Taken')
    BY <1>1, <1>3, <2>4, TakenFinite, FS_AddElement DEF NextToken, SerialInv, Allotted
  <2>6. \A j \in Sentinels : slots'[j].eb = Sentinel /\ slots'[j].token = 0
    BY <1>2, <2>1, <2>2 DEF SerialInv, Allotted, Usables
  <2>7. \A j \in Usables : /\ slots'[j].token = 0 => slots'[j].eb = Free
                           /\ j < used' => slots'[j].token > 0
    <3> SUFFICES ASSUME NEW j \in Usables
                 PROVE  /\ slots'[j].token = 0 => slots'[j].eb = Free
                        /\ j < used' => slots'[j].token > 0
      OBVIOUS
    <3>1. slots[j].token = 0 => slots[j].eb = Free
      BY <1>2 DEF SerialInv, Allotted
    <3>2. CASE j = i
      BY <2>2, <3>2
    <3>3. CASE j # i
      <4>1. slots'[j] = slots[j] /\ (j < i => slots[j].token > 0)
        BY <1>1, <1>2, <2>1, <2>2, <3>3
      <4>2. j < i + 1 => j < i
        BY <1>1, <2>1, <3>3 DEF SlotIx, Usables
      <4> QED
        BY <2>3, <3>1, <4>1, <4>2
    <3> QED
      BY <3>2, <3>3
  <2> QED
    BY <2>5, <2>6, <2>7 DEF Allotted
<1>4. ASSUME NEW t \in Tasks, TermUnregister(t) PROVE Allotted'
  <2>1. PICK i \in SlotIx : slots[i].eb \in Blocks /\ slots' = [slots EXCEPT ![i].eb = Free]
    BY <1>4, OpTyped DEF TermUnregister, FreeSlot, IsSlotOf, SerialInv, RegInv
  <2>2. /\ slots'[i].eb = Free /\ slots[i].eb # Sentinel
        /\ \A j \in SlotIx \ {i} : slots'[j] = slots[j]
        /\ \A j \in SlotIx : slots'[j].token = slots[j].token
    BY <1>1, <2>1 DEF Slot
  <2>3. used' = used /\ counter' = counter /\ Taken' = Taken
    BY <1>4, <2>2 DEF TermUnregister, Taken
  <2>4. i \notin Sentinels
    BY <2>2 DEF SerialInv, Allotted
  <2> QED
    BY <1>2, <2>2, <2>3, <2>4 DEF SerialInv, Allotted
<1>5. CASE UNCHANGED <<slots, used, counter>>
  BY <1>5 DEF SerialInv, Allotted, Taken
<1>6. ASSUME NEW t \in Tasks, InitCommit(t) PROVE Allotted'
  <2>1. op[t].b \in Blocks /\ AllocSlot(op[t].b, t, env[op[t].b].tso)
    BY <1>6, OpTyped DEF InitCommit, SerialInv, RegInv
  <2> QED
    BY <1>3, <1>5, <2>1 DEF AllocSlot
<1> QED
  BY <1>4, <1>5, <1>6
  DEF Next, vars, InitPrep, FindBegin, FindCached, FindDone, TermBegin,
      TermRollback, ForeignClaim, ForeignRelease, TaskEnd, TaskStart

Rest == Complete /\ AnchorNewest /\ FindInv /\ RollInv

\* While nobody works, or only a task that is not in IRXTERM, every ENVBLOCK in
\* existence has its PARMBLOCK.
LEMMA AllComplete ==
  ASSUME SerialInv, NEW t \in Tasks, \A u \in Tasks \ {t} : ~Working(u),
         op[t].pc \notin {"termUnreg", "termRollback"}, NEW b \in Blocks, Live(b)
  PROVE  env[b].pb
<1>1. \A u \in Tasks : op[u].pc \notin {"termUnreg", "termRollback"}
  BY DEF Working
<1> QED
  BY <1>1 DEF SerialInv, Complete

\* Who works, works alone.
LEMMA OthersIdle ==
  ASSUME SerialInv, NEW t \in Tasks, Working(t)
  PROVE  \A u \in Tasks \ {t} : ~Working(u)
  BY DEF SerialInv, Alone

LEMMA LiveIs ==
  ASSUME SerialInv, NEW i \in SlotIx, LiveSlot(i)
  PROVE  /\ slots[i].eb \in Blocks /\ Live(slots[i].eb) /\ i < used /\ i \in Usables
         /\ slots[i].token \in Nat /\ slots[i].token > 0
         /\ slots[i].tso = env[slots[i].eb].tso
<1>1. i \in Usables
  BY ConstAssumption DEF SerialInv, Allotted, LiveSlot, Usables
<1>2. slots[i].token \in Nat /\ slots[i].eb # Free
  BY ConstAssumption DEF SerialInv, RegInv, TypeOK, Slot, LiveSlot
<1> QED
  BY <1>1, <1>2 DEF SerialInv, Allotted, RegInv, SlotsLive, LiveSlot

\* Steps after which no task is inside FINDENVB's cache stage or rolls back.
LEMMA NobodyFinds ==
  ASSUME SerialInv, NEW t \in Tasks, \A u \in Tasks \ {t} : ~Working(u),
         \A u \in Tasks \ {t} : op'[u] = op[u],
         op'[t].pc \notin {"findCached", "termRollback"}
  PROVE  FindInv' /\ RollInv'
<1>1. \A u \in Tasks : op'[u].pc \notin {"findCached", "termRollback"}
  BY DEF Working
<1> QED
  BY <1>1 DEF FindInv, RollInv

LEMMA InitPrepRest ==
  ASSUME Serialized, SerialInv, NEW t \in Tasks, InitPrep(t)
  PROVE  Rest'
<1>1. PICK b \in Blocks, tso \in BOOLEAN, rent \in BOOLEAN, perm \in PermChoices :
        /\ ~Live(b)
        /\ env' = [env EXCEPT ![b] = [status |-> "live", tso |-> tso,
                      rent |-> rent, perm |-> perm, pb |-> TRUE, owner |-> t]]
        /\ op' = [op EXCEPT ![t] = At("initCommit", b, 0)]
  BY DEF InitPrep, Live
<1>2. \A u \in Tasks : ~Working(u)
  BY NobodyWorks DEF InitPrep, CanBegin
<1>3. /\ \A u \in Tasks \ {t} : op'[u] = op[u]
      /\ op'[t].pc = "initCommit" /\ op[t].pc = "idle"
  BY <1>1 DEF SerialInv, RegInv, TypeOK, At, InitPrep, CanBegin
<1>4. /\ env'[b].pb /\ \A c \in Blocks \ {b} : env'[c] = env[c]
      /\ UNCHANGED <<slots, ectenvbk>>
  BY <1>1 DEF SerialInv, RegInv, TypeOK, InitPrep
<1>5. Complete'
  BY <1>2, <1>3, <1>4, AllComplete DEF Complete, Live
<1>6. AnchorNewest'
  BY <1>1, <1>4, LiveIs DEF SerialInv, AnchorNewest, NoneAfter, LiveSlot, TsoAttached
<1>7. FindInv' /\ RollInv'
  BY <1>2, <1>3, NobodyFinds
<1> QED
  BY <1>5, <1>6, <1>7 DEF Rest

LEMMA InitCommitRest ==
  ASSUME SerialInv, NEW t \in Tasks, InitCommit(t)
  PROVE  Rest'
<1> DEFINE b == op[t].b
<1> USE SlotsAssumption, ConstAssumption
<1>1. /\ b \in Blocks /\ Live(b) /\ ~Slotted(b)
      /\ op[t].pc = "initCommit" /\ Working(t)
  BY OpTyped DEF SerialInv, RegInv, OpsInv, InitCommit, Busy, BusyPcs, Working
<1>2. \A u \in Tasks \ {t} : ~Working(u)
  BY <1>1, OthersIdle
<1>3. /\ \A u \in Tasks \ {t} : op'[u] = op[u]
      /\ op'[t].pc = "idle" /\ UNCHANGED <<isTso, env>>
      /\ ectenvbk' = IF env[b].tso /\ isTso THEN b ELSE ectenvbk
  BY DEF SerialInv, RegInv, TypeOK, InitCommit, Idle
<1>4. Complete'
  BY <1>1, <1>2, <1>3, AllComplete DEF Complete, Live
<1>5. FindInv' /\ RollInv'
  BY <1>2, <1>3, NobodyFinds
<1>6. CASE UNCHANGED <<slots, used, counter>>
  <2>1. AnchorNewest'
    BY <1>1, <1>3, <1>6
    DEF SerialInv, AnchorNewest, NoneAfter, LiveSlot, TsoAttached, Slotted
  <2> QED
    BY <1>4, <1>5, <2>1 DEF Rest
<1>7. ASSUME NEW i \in SlotIx, IsNextSlot(i),
             slots' = [slots EXCEPT ![i] =
                         [eb |-> b, token |-> counter + 1, tcb |-> t, tso |-> env[b].tso]]
      PROVE  Rest'
  <2>1. /\ i >= used /\ used \in Nat /\ slots'[i].eb = b /\ slots'[i].tso = env[b].tso
        /\ \A j \in SlotIx \ {i} : slots'[j] = slots[j]
    BY <1>7, NextSlotIsNew DEF SerialInv, RegInv, TypeOK, SlotIx
  <2>2. \A j \in SlotIx : i < j => ~LiveSlot(j)'
    BY <2>1, LiveIs DEF SlotIx, LiveSlot
  <2>3. ASSUME NEW k \in SlotIx, LiveSlot(k)', slots'[k].eb = ectenvbk', k # i
        PROVE  NoneAfter(k)'
    <3>1. LiveSlot(k) /\ slots[k].eb # b /\ ectenvbk' = ectenvbk /\ slots[k].eb = ectenvbk
      BY <1>1, <1>3, <2>1, <2>3 DEF LiveSlot, Slotted
    <3>2. isTso /\ ~env[b].tso
      BY <1>1, <1>3, <3>1 DEF SerialInv, RegInv, AnchorLive, LiveSlot
    <3>3. NoneAfter(k)
      BY <3>1 DEF SerialInv, AnchorNewest
    <3> QED
      BY <1>3, <2>1, <3>2, <3>3 DEF NoneAfter, LiveSlot, TsoAttached
  <2>4. NoneAfter(i)'
    BY <2>2 DEF NoneAfter
  <2>5. AnchorNewest'
    BY <2>3, <2>4 DEF AnchorNewest
  <2> QED
    BY <1>4, <1>5, <2>5 DEF Rest
<1> QED
  BY <1>6, <1>7 DEF InitCommit, AllocSlot

\* No TSO environment that is not reentrant is newer than the newest of them.
LEMMA NewestOfTso ==
  ASSUME SerialInv, NEW t \in Tasks, \A u \in Tasks \ {t} : ~Working(u),
         op[t].pc \notin {"termUnreg", "termRollback"},
         NEW i \in TsoSlots, Newest(i, TsoSlots)
  PROVE  NoneAfter(i)
<1> SUFFICES ASSUME NEW j \in SlotIx, i < j, LiveSlot(j), TsoAttached(j),
                    ~env[slots[j].eb].rent
             PROVE  FALSE
  BY DEF NoneAfter
<1>1. LiveSlot(i) /\ i \in SlotIx
  BY DEF TsoSlots, Usable
<1>2. Usable(j)
  BY LiveIs DEF Usable, EyeOK, Live, NonReentrant
<1>3. slots[j].token <= slots[i].token
  BY <1>2 DEF Newest, TsoSlots
<1>4. slots[i].token < slots[j].token
  BY <1>1, LiveIs DEF SerialInv, TokenInv, TokenOrder
<1>5. slots[i].token \in Nat /\ slots[j].token \in Nat
  BY <1>1, LiveIs
<1> QED
  BY <1>3, <1>4, <1>5

LEMMA SecondaryRest ==
  ASSUME SerialInv, NEW t \in Tasks, \A u \in Tasks \ {t} : ~Working(u),
         op[t].pc \notin {"termUnreg", "termRollback"},
         FindSecondary(t), UNCHANGED <<slots, env>>
  PROVE  AnchorNewest' /\ op'[t].pc \in {"idle", "found"}
<1>1. CASE isTso /\ TsoSlots # {}
  <2>1. PICK i \in TsoSlots : /\ Newest(i, TsoSlots)
                              /\ ectenvbk' = slots[i].eb
                              /\ Found(t, slots[i].eb)
    BY <1>1 DEF FindSecondary
  <2>2. NoneAfter(i) /\ LiveSlot(i) /\ i \in SlotIx
    BY <2>1, NewestOfTso DEF TsoSlots, Usable
  <2>3. \A k \in SlotIx : LiveSlot(k) /\ slots[k].eb = slots[i].eb => k = i
    BY <2>2 DEF SerialInv, RegInv, SlotsUnique
  <2> QED
    BY <2>1, <2>2, <2>3
    DEF AnchorNewest, NoneAfter, LiveSlot, TsoAttached, Found, At, SerialInv, RegInv, TypeOK
<1>2. CASE ~(isTso /\ TsoSlots # {})
  BY <1>2
  DEF FindSecondary, SerialInv, RegInv, TypeOK, AnchorNewest, NoneAfter, LiveSlot,
      TsoAttached, Idle
<1> QED
  BY <1>1, <1>2

LEMMA FindBeginRest ==
  ASSUME Serialized, SerialInv, NEW t \in Tasks, FindBegin(t)
  PROVE  Rest'
<1>1. /\ \A u \in Tasks : ~Working(u)
      /\ op[t].pc = "idle"
      /\ UNCHANGED <<isTso, slots, used, env>>
  BY NobodyWorks DEF FindBegin, CanBegin
<1>2. op \in [Tasks -> Op] /\ \A u \in Tasks \ {t} : op'[u] = op[u]
  BY DEF SerialInv, RegInv, TypeOK, FindBegin, FindSecondary, Found
<1>3. ASSUME op'[t].pc # "termRollback" PROVE Complete'
  BY <1>1, <1>2, AllComplete DEF Complete, Live
<1>4. ASSUME ectenvbk' = ectenvbk PROVE AnchorNewest'
  BY <1>1, <1>4 DEF SerialInv, AnchorNewest, NoneAfter, LiveSlot, TsoAttached
<1>5. CASE \E i \in OwnSlots(t) : Found(t, slots[i].eb) /\ UNCHANGED ectenvbk
  <2>1. op'[t].pc = "found"
    BY <1>2, <1>5 DEF Found, At
  <2> QED
    BY <1>1, <1>2, <1>3, <1>4, <1>5, <2>1, NobodyFinds DEF Rest
<1>6. CASE /\ OwnSlots(t) = {} /\ CacheCandidate
           /\ op' = [op EXCEPT ![t] = At("findCached", ectenvbk, 0)]
           /\ UNCHANGED ectenvbk
  <2>1. op'[t].pc = "findCached" /\ op'[t].b = ectenvbk
    BY <1>2, <1>6 DEF At
  <2>2. \A u \in Tasks : op'[u].pc = "findCached" => u = t
    BY <1>1, <1>2 DEF Working
  <2>3. FindInv'
    BY <1>1, <1>6, <2>1, <2>2
    DEF FindInv, CacheCandidate, OwnSlots, Usable, LiveSlot, EyeOK, NonReentrant, OfTask
  <2>4. RollInv'
    BY <1>1, <1>2, <2>1 DEF RollInv, Working
  <2> QED
    BY <1>3, <1>4, <1>6, <2>1, <2>3, <2>4 DEF Rest
<1>7. CASE FindSecondary(t)
  <2>1. AnchorNewest' /\ op'[t].pc \in {"idle", "found"}
    BY <1>1, <1>7, SecondaryRest
  <2> QED
    BY <1>1, <1>2, <1>3, <2>1, NobodyFinds DEF Rest
<1> QED
  BY <1>5, <1>6, <1>7 DEF FindBegin

LEMMA FindCachedRest ==
  ASSUME SerialInv, NEW t \in Tasks, FindCached(t)
  PROVE  Rest'
<1>1. /\ \A u \in Tasks \ {t} : ~Working(u)
      /\ op[t].pc = "findCached"
      /\ UNCHANGED <<isTso, slots, used, env>>
  BY OthersIdle DEF FindCached, Working
<1>2. op \in [Tasks -> Op] /\ \A u \in Tasks \ {t} : op'[u] = op[u]
  BY DEF SerialInv, RegInv, TypeOK, FindCached, FindSecondary, Found
<1>3. op'[t].pc \in {"idle", "found"} /\ AnchorNewest'
  <2>1. CASE Found(t, op[t].b) /\ UNCHANGED ectenvbk
    BY <1>1, <1>2, <2>1
    DEF Found, At, SerialInv, AnchorNewest, NoneAfter, LiveSlot, TsoAttached
  <2>2. CASE FindSecondary(t)
    BY <1>1, <2>2, SecondaryRest
  <2> QED
    BY <2>1, <2>2 DEF FindCached
<1>4. Complete'
  BY <1>1, <1>2, AllComplete DEF Complete, Live
<1> QED
  BY <1>1, <1>2, <1>3, <1>4, NobodyFinds DEF Rest

LEMMA TermBeginRest ==
  ASSUME Serialized, SerialInv, NEW t \in Tasks, NEW b \in Blocks, TermBegin(t, b)
  PROVE  Rest'
<1>1. /\ \A u \in Tasks : ~Working(u)
      /\ op[t].pc = "idle"
      /\ UNCHANGED <<isTso, slots, used, ectenvbk>>
  BY NobodyWorks DEF TermBegin, CanBegin
<1>2. /\ \A u \in Tasks \ {t} : op'[u] = op[u]
      /\ op'[t].pc = "termUnreg" /\ op'[t].b = b
  BY DEF SerialInv, RegInv, TypeOK, TermBegin, At
<1>3. \A c \in Blocks : /\ env'[c].status = env[c].status
                        /\ env'[c].rent = env[c].rent
                        /\ c # b => env'[c] = env[c]
  BY DEF SerialInv, RegInv, TypeOK, EnvRec, TermBegin
<1>4. Complete'
  BY <1>1, <1>2, <1>3, AllComplete DEF Complete, Live
<1>5. AnchorNewest'
  BY <1>1, <1>3 DEF SerialInv, AnchorNewest, NoneAfter, LiveSlot, TsoAttached
<1> QED
  BY <1>1, <1>2, <1>4, <1>5, NobodyFinds DEF Rest

\* What IRXTERM's step 4 does to the slots and the environments.
LEMMA TermUnregisterIs ==
  ASSUME SerialInv, NEW t \in Tasks, TermUnregister(t)
  PROVE  LET b == op[t].b
             i == op[t].slot
         IN  /\ op[t].pc = "termUnreg" /\ Working(t)
             /\ b \in Blocks /\ i \in SlotIx /\ slots[i].eb = b /\ LiveSlot(i)
             /\ slots' = [slots EXCEPT ![i].eb = Free]
             /\ slots'[i].eb = Free /\ slots'[i].token = slots[i].token
             /\ slots'[i].tso = slots[i].tso /\ slots'[i].tcb = slots[i].tcb
             /\ \A j \in SlotIx \ {i} : slots'[j] = slots[j] /\ slots[j].eb # b
             /\ UNCHANGED <<isTso, used, counter, ectenvbk>>
             /\ \A u \in Tasks \ {t} : op'[u] = op[u]
             /\ \/ /\ NeedsRollback(i, b) /\ env' = env
                   /\ op'[t].pc = "termRollback" /\ op'[t].b = b /\ op'[t].slot = i
                \/ /\ ectenvbk # b /\ op'[t].pc = "idle"
                   /\ env'[b] = NoEnv /\ \A c \in Blocks \ {b} : env'[c] = env[c]
<1> DEFINE b == op[t].b
           i == op[t].slot
<1>1. /\ op[t].pc = "termUnreg" /\ Working(t)
      /\ b \in Blocks /\ i \in SlotIx /\ slots[i].eb = b /\ LiveSlot(i)
  BY OpTyped
  DEF SerialInv, RegInv, OpsInv, TermUnregister, Busy, BusyPcs, Working, LiveSlot
<1>2. slots' = [slots EXCEPT ![i].eb = Free]
  BY <1>1 DEF SerialInv, RegInv, SlotsUnique, LiveSlot, TermUnregister, FreeSlot, IsSlotOf
<1>3. /\ slots'[i].eb = Free /\ slots'[i].token = slots[i].token
      /\ slots'[i].tso = slots[i].tso /\ slots'[i].tcb = slots[i].tcb
      /\ \A j \in SlotIx \ {i} : slots'[j] = slots[j] /\ slots[j].eb # b
  BY <1>1, <1>2 DEF SerialInv, RegInv, TypeOK, Slot, SlotsUnique, LiveSlot
<1>4. UNCHANGED <<isTso, used, counter, ectenvbk>>
  BY DEF TermUnregister
<1>5. op \in [Tasks -> Op] /\ env \in [Blocks -> EnvRec] /\ op[t] # Idle
  BY <1>1 DEF SerialInv, RegInv, TypeOK, Idle
<1>6. CASE NeedsRollback(i, b)
  <2>1. op' = [op EXCEPT ![t].pc = "termRollback"] /\ env' = env
    BY <1>6 DEF TermUnregister
  <2>2. /\ op'[t].pc = "termRollback" /\ op'[t].b = b /\ op'[t].slot = i
        /\ \A u \in Tasks \ {t} : op'[u] = op[u]
    BY <1>5, <2>1 DEF Op
  <2> QED
    BY <1>1, <1>2, <1>3, <1>4, <1>6, <2>1, <2>2
<1>7. CASE ~NeedsRollback(i, b)
  <2>1. op' = [op EXCEPT ![t] = Idle] /\ env' = [env EXCEPT ![b] = NoEnv]
    BY <1>7 DEF TermUnregister
  <2>2. /\ op'[t].pc = "idle" /\ \A u \in Tasks \ {t} : op'[u] = op[u]
        /\ env'[b] = NoEnv /\ \A c \in Blocks \ {b} : env'[c] = env[c]
    BY <1>1, <1>5, <2>1 DEF Idle
  <2>3. ectenvbk # b
    BY <1>1, <1>7, LiveIs
    DEF SerialInv, RegInv, AnchorLive, NeedsRollback, TsoAttached
  <2> QED
    BY <1>1, <1>2, <1>3, <1>4, <2>2, <2>3
<1> QED
  BY <1>6, <1>7

LEMMA TermUnregisterRest ==
  ASSUME SerialInv, NEW t \in Tasks, TermUnregister(t)
  PROVE  Rest'
<1>0. PICK b \in Blocks, i \in SlotIx : b = op[t].b /\ i = op[t].slot
  BY TermUnregisterIs
<1>1. /\ op[t].pc = "termUnreg" /\ Working(t)
      /\ b \in Blocks /\ i \in SlotIx /\ slots[i].eb = b /\ LiveSlot(i)
      /\ slots'[i].eb = Free /\ slots'[i].token = slots[i].token /\ slots'[i].tso = slots[i].tso
      /\ \A j \in SlotIx \ {i} : slots'[j] = slots[j] /\ slots[j].eb # b
      /\ UNCHANGED <<isTso, used, counter, ectenvbk>>
      /\ \A u \in Tasks \ {t} : op'[u] = op[u]
  BY <1>0, TermUnregisterIs
<1>2. \/ /\ NeedsRollback(i, b) /\ env' = env
         /\ op'[t].pc = "termRollback" /\ op'[t].b = b /\ op'[t].slot = i
      \/ /\ ectenvbk # b /\ op'[t].pc = "idle"
         /\ env'[b] = NoEnv /\ \A c \in Blocks \ {b} : env'[c] = env[c]
  BY <1>0, TermUnregisterIs
<1>3. \A u \in Tasks \ {t} : ~Working(u)
  BY <1>1, OthersIdle
<1>4. ~LiveSlot(i)' /\ \A j \in SlotIx : LiveSlot(j)' => j # i /\ LiveSlot(j)
  BY <1>1, ConstAssumption DEF LiveSlot
<1>5. Complete'
  <2> SUFFICES ASSUME NEW c \in Blocks, Live(c)', ~env'[c].pb
               PROVE  op'[t].pc = "termRollback" /\ op'[t].b = c
    BY DEF Complete
  <2>1. env'[c] = env[c]
    BY <1>2 DEF Live, NoEnv
  <2>2. c = b
    BY <1>0, <1>1, <1>3, <2>1 DEF SerialInv, Complete, Live, Working
  <2> QED
    BY <1>2, <2>2 DEF Live, NoEnv
<1>6. \A k \in SlotIx : NoneAfter(k) => NoneAfter(k)'
  BY <1>1, <1>2, <1>4 DEF NoneAfter, TsoAttached, LiveSlot
<1>7. AnchorNewest'
  BY <1>1, <1>4, <1>6 DEF SerialInv, AnchorNewest
<1>8. FindInv'
  BY <1>2, <1>1, <1>3 DEF FindInv, Working
<1>9. RollInv'
  <2> SUFFICES ASSUME NEW u \in Tasks, op'[u].pc = "termRollback"
               PROVE  /\ ectenvbk' = op'[u].b
                      /\ slots'[op'[u].slot].eb = Free
                      /\ slots'[op'[u].slot].token > 0
                      /\ TsoAttached(op[u].slot)'
                      /\ NoneAfter(op[u].slot)'
    BY DEF RollInv
  <2>1. u = t
    BY <1>1, <1>3 DEF Working
  <2>2. NeedsRollback(i, b) /\ op'[u].b = b /\ op'[u].slot = i
    BY <1>2, <2>1
  <2>3. NoneAfter(i)
    BY <1>1, <2>2 DEF SerialInv, AnchorNewest, NeedsRollback
  <2> QED
    BY <1>1, <1>6, <2>2, <2>3, LiveIs DEF NeedsRollback, TsoAttached, NoneAfter
<1> QED
  BY <1>5, <1>7, <1>8, <1>9 DEF Rest

LEMMA TermRollbackIs ==
  ASSUME SerialInv, NEW t \in Tasks, TermRollback(t)
  PROVE  LET b == op[t].b
             i == op[t].slot
         IN  /\ op[t].pc = "termRollback" /\ Working(t) /\ isTso
             /\ b \in Blocks /\ i \in SlotIx /\ ~Slotted(b) /\ ~LiveSlot(i)
             /\ UNCHANGED <<isTso, slots, used, counter>>
             /\ op'[t].pc = "idle" /\ \A u \in Tasks \ {t} : op'[u] = op[u]
             /\ env'[b] = NoEnv /\ \A c \in Blocks \ {b} : env'[c] = env[c]
<1>1. /\ op[t].pc = "termRollback" /\ Working(t) /\ isTso
      /\ op[t].b \in Blocks /\ op[t].slot \in SlotIx /\ ~Slotted(op[t].b)
  BY OpTyped
  DEF SerialInv, RegInv, OpsInv, TermRollback, Busy, BusyPcs, Working
<1>2. ~LiveSlot(op[t].slot)
  BY <1>1, ConstAssumption DEF SerialInv, RollInv, LiveSlot
<1>3. op \in [Tasks -> Op] /\ env \in [Blocks -> EnvRec]
  BY DEF SerialInv, RegInv, TypeOK
<1> QED
  BY <1>1, <1>2, <1>3 DEF TermRollback, Idle

LEMMA TermRollbackRest ==
  ASSUME SerialInv, NEW t \in Tasks, TermRollback(t)
  PROVE  Rest'
<1> DEFINE b == op[t].b
           i == op[t].slot
<1>1. /\ op[t].pc = "termRollback" /\ Working(t) /\ isTso
      /\ b \in Blocks /\ i \in SlotIx /\ ~Slotted(b) /\ ~LiveSlot(i)
      /\ UNCHANGED <<isTso, slots, used, counter>>
      /\ op'[t].pc = "idle" /\ \A u \in Tasks \ {t} : op'[u] = op[u]
      /\ env'[b] = NoEnv /\ \A c \in Blocks \ {b} : env'[c] = env[c]
  BY TermRollbackIs
<1>2. NoneAfter(i)
  BY <1>1 DEF SerialInv, RollInv
<1>3. ectenvbk' = None \/ ectenvbk' \in PreviousUsed(i)
  BY DEF TermRollback
<1> HIDE DEF b, i
<1>4. \A u \in Tasks \ {t} : ~Working(u)
  BY <1>1, OthersIdle
<1>5. Complete'
  <2> SUFFICES ASSUME NEW c \in Blocks, Live(c)', ~env'[c].pb
               PROVE  FALSE
    BY DEF Complete
  <2>1. env'[c] = env[c] /\ c # b
    BY <1>1 DEF Live, NoEnv
  <2> QED
    BY <1>1, <1>4, <2>1 DEF SerialInv, Complete, Live, Working, b
<1>6. \A k \in SlotIx : NoneAfter(k) => NoneAfter(k)'
  BY <1>1 DEF NoneAfter, TsoAttached, LiveSlot, Slotted
<1>7. ASSUME NEW k \in SlotIx, LiveSlot(k)', slots'[k].eb = ectenvbk'
      PROVE  NoneAfter(k)
  <2>1. ectenvbk' \in PreviousUsed(i) /\ LiveSlot(k)
    BY <1>1, <1>3, <1>7, ConstAssumption DEF LiveSlot
  <2>2. PICK p \in RollbackSlots(i) : /\ ectenvbk' = slots[p].eb
                                      /\ \A m \in RollbackSlots(i) : m <= p
    BY <2>1 DEF PreviousUsed, RollbackSlots
  <2>3. k = p /\ k < i
    BY <1>1, <1>7, <2>1, <2>2 DEF RollbackSlots, SerialInv, RegInv, SlotsUnique
  <2> SUFFICES ASSUME NEW j \in SlotIx, k < j, LiveSlot(j), TsoAttached(j)
               PROVE  env[slots[j].eb].rent
    BY DEF NoneAfter
  <2>4. j # i /\ ~(j < i)
    BY <1>1, <2>2, <2>3, SlotsAssumption DEF RollbackSlots, SlotIx
  <2>5. i < j
    BY <1>1, <2>4, SlotsAssumption DEF SlotIx
  <2> QED
    BY <1>2, <2>5 DEF NoneAfter
<1>8. AnchorNewest'
  BY <1>6, <1>7 DEF AnchorNewest
<1> QED
  BY <1>1, <1>4, <1>5, <1>8, NobodyFinds DEF Rest

\* Steps that leave the slots, the anchor and what services work on alone.
LEMMA QuietRest ==
  ASSUME SerialInv, NEW t \in Tasks, UNCHANGED <<isTso, slots, used, ectenvbk, env>>,
         \A u \in Tasks \ {t} : op'[u] = op[u],
         op'[t] = op[t] \/ (~Working(t) /\ ~Working(t)')
  PROVE  Rest'
<1>1. \A u \in Tasks : Working(u) \/ Working(u)' => op'[u] = op[u]
  BY DEF Working
<1>2. Complete'
  BY <1>1 DEF SerialInv, Complete, Live, Working
<1>3. AnchorNewest'
  BY DEF SerialInv, AnchorNewest, NoneAfter, LiveSlot, TsoAttached
<1>4. FindInv'
  BY <1>1
  DEF SerialInv, FindInv, OwnSlots, Usable, LiveSlot, EyeOK, NonReentrant, OfTask, Working
<1>5. RollInv'
  BY <1>1 DEF SerialInv, RollInv, NoneAfter, LiveSlot, TsoAttached, Working
<1> QED
  BY <1>2, <1>3, <1>4, <1>5 DEF Rest

\* A task that ends, when no service runs, takes no ENVBLOCK along.
LEMMA TaskEndRest ==
  ASSUME Serialized, SerialInv, NEW t \in Tasks, TaskEnd(t)
  PROVE  Rest'
<1>1. PICK rest \in {"ghost", "none"} : env' = AfterTaskEnd(t, rest)
  BY DEF TaskEnd
<1>2. \A u \in Tasks : ~Working(u)
  BY NobodyWorks DEF TaskEnd, CanBegin
<1>3. UNCHANGED <<isTso, slots, used, ectenvbk, op>>
  BY DEF TaskEnd
<1>4. \A c \in Blocks : /\ env'[c].status = env[c].status
                        /\ env'[c].rent = env[c].rent
                        /\ env'[c].pb = env[c].pb
  <2> SUFFICES ASSUME NEW c \in Blocks
               PROVE  /\ env'[c].status = env[c].status
                      /\ env'[c].rent = env[c].rent
                      /\ env'[c].pb = env[c].pb
    OBVIOUS
  <2>1. env[c] \in EnvRec
    BY DEF SerialInv, RegInv, TypeOK
  <2>2. CASE env[c].status # "live" \/ env[c].owner # t
    <3>1. env'[c] = env[c]
      BY <1>1, <2>2 DEF AfterTaskEnd
    <3> QED
      BY <3>1
  <2>3. CASE env[c].status = "live" /\ env[c].owner = t
    <3>1. env[c].perm
      BY <2>3 DEF SerialInv, RegInv, Permanent, Live
    <3>2. env'[c] = [env[c] EXCEPT !.owner = None]
      BY <1>1, <2>3, <3>1 DEF AfterTaskEnd
    <3> QED
      BY <2>1, <3>2 DEF EnvRec
  <2> QED
    BY <2>2, <2>3
<1>5. Complete'
  BY <1>2, <1>3, <1>4 DEF SerialInv, Complete, Live, Working
<1>6. AnchorNewest'
  BY <1>3, <1>4 DEF SerialInv, AnchorNewest, NoneAfter, LiveSlot, TsoAttached
<1> QED
  BY <1>2, <1>3, <1>5, <1>6 DEF Rest, FindInv, RollInv, Working

\* BREXX/370 changes the anchor while no environment service runs.
LEMMA ForeignRest ==
  ASSUME Serialized, SerialInv, ForeignClaim \/ ForeignRelease
  PROVE  Rest'
<1>1. /\ \A u \in Tasks : ~Working(u)
      /\ UNCHANGED <<isTso, slots, used, env, op>>
      /\ ectenvbk' \notin Blocks
  BY NobodyWorks, ConstAssumption DEF ForeignClaim, ForeignRelease
<1>2. Complete'
  BY <1>1 DEF SerialInv, Complete, Live
<1> QED
  BY <1>1, <1>2 DEF Rest, AnchorNewest, LiveSlot, FindInv, RollInv, Working

LEMMA ForeignOfTsoStep ==
  ASSUME SerialInv, [Next]_vars
  PROVE  ForeignOfTso'
<1>1. isTso' = isTso
  BY DEF Next, vars, InitPrep, InitCommit, FindBegin, FindCached, FindDone, TermBegin,
         TermUnregister, TermRollback, ForeignClaim, ForeignRelease, TaskEnd, TaskStart
<1>2. CASE ectenvbk' = ectenvbk \/ ectenvbk' \in Blocks \/ isTso
  BY <1>1, <1>2, ConstAssumption DEF SerialInv, ForeignOfTso
<1>3. ASSUME NEW t \in Tasks, FindSecondary(t) PROVE ectenvbk' = ectenvbk \/ isTso
  BY <1>3 DEF FindSecondary
<1>4. ASSUME NEW t \in Tasks, TermRollback(t) PROVE isTso
  BY <1>4, TermRollbackIs
<1>5. ASSUME NEW t \in Tasks, InitCommit(t) PROVE ectenvbk' = ectenvbk \/ isTso
  BY <1>5 DEF InitCommit
<1>6. ASSUME ForeignRelease PROVE isTso
  BY <1>6 DEF ForeignRelease, SerialInv, ForeignOfTso
<1> QED
  BY <1>2, <1>3, <1>4, <1>5, <1>6
  DEF Next, vars, InitPrep, FindBegin, FindCached, FindDone, TermBegin,
      TermUnregister, ForeignClaim, TaskEnd, TaskStart

LEMMA StepSerial ==
  ASSUME PermChoices \subseteq {TRUE}, Serialized, SerialInv, [Next]_vars
  PROVE  SerialInv'
<1>1. RegInv' /\ TokenInv'
  BY StepRegistry, StepTokens DEF SerialInv
<1>2. Alone' /\ Allotted' /\ ForeignOfTso'
  BY AloneStep, AllottedStep, ForeignOfTsoStep
<1>3. ASSUME NEW t \in Tasks, FindDone(t) PROVE Rest'
  <2>1. /\ UNCHANGED <<isTso, slots, used, ectenvbk, env>>
        /\ \A u \in Tasks \ {t} : op'[u] = op[u]
        /\ ~Working(t) /\ ~Working(t)'
    BY <1>3 DEF FindDone, SerialInv, RegInv, TypeOK, Idle, Working
  <2> QED
    BY <2>1, QuietRest
<1>4. ASSUME NEW t \in Tasks, TaskStart(t) PROVE Rest'
  BY <1>4, QuietRest DEF TaskStart
<1>5. ASSUME UNCHANGED vars PROVE Rest'
  BY <1>5
  DEF vars, Rest, SerialInv, Complete, AnchorNewest, FindInv, RollInv, NoneAfter, Live,
      LiveSlot, TsoAttached, OwnSlots, Usable, EyeOK, NonReentrant, OfTask
<1>6. Rest'
  BY <1>3, <1>4, <1>5, InitPrepRest, InitCommitRest, FindBeginRest, FindCachedRest,
     TermBeginRest, TermUnregisterRest, TermRollbackRest, TaskEndRest, ForeignRest
  DEF Next
<1> QED
  BY <1>1, <1>2, <1>6 DEF SerialInv, Rest

LEMMA SerialInvariant ==
  ASSUME PermChoices \subseteq {TRUE}, Serialized
  PROVE  Spec => []SerialInv
<1>1. SerialInv /\ [Next]_vars => SerialInv'
  BY StepSerial
<1> QED
  BY <1>1, InitSerial, PTL DEF Spec

-----------------------------------------------------------------------------
(* FINDENVB's answers and IRXTERM's rollback.                              *)

\* A task gets its answer in one of FINDENVB's three stages.
LEMMA AnswerIs ==
  ASSUME RegInv, [Next]_vars, NEW t \in Tasks, op[t].pc # "found", op'[t].pc = "found"
  PROVE  /\ UNCHANGED <<slots, used, env>>
         /\ (FindBegin(t) /\ op[t].pc = "idle" /\ Undisturbed) \/ FindCached(t)
         /\ \E i \in SlotIx : /\ IsSlotOf(i, op'[t].b) /\ LiveSlot(i)
                              /\ OfTask(i, t) \/ TsoAttached(i)
                              /\ NonReentrant(op'[t].b)
<1>1. op \in [Tasks -> Op]
  BY DEF RegInv, TypeOK
<1>2. FindBegin(t) \/ FindCached(t)
  <2>1. ASSUME NEW u \in Tasks, u # t, \A v \in Tasks \ {u} : op'[v] = op[v] PROVE FALSE
    BY <2>1
  <2>2. ASSUME NEW u \in Tasks,
               \/ InitPrep(u) \/ InitCommit(u) \/ FindDone(u) \/ TermUnregister(u)
               \/ TermRollback(u) \/ \E b \in Blocks : TermBegin(u, b)
        PROVE FALSE
    <3>1. \A v \in Tasks \ {u} : op'[v] = op[v]
      BY <1>1, <2>2
      DEF InitPrep, InitCommit, FindDone, TermUnregister, TermRollback, TermBegin
    <3>2. op'[u].pc # "found"
      BY <1>1, <2>2
      DEF InitPrep, InitCommit, FindDone, TermUnregister, TermRollback, TermBegin,
          At, Idle, Op
    <3> QED
      BY <2>1, <3>1, <3>2
  <2>3. ASSUME NEW u \in Tasks, FindBegin(u) \/ FindCached(u) PROVE u = t
    <3>1. \A v \in Tasks \ {u} : op'[v] = op[v]
      BY <1>1, <2>3 DEF FindBegin, FindCached, FindSecondary, Found
    <3> QED
      BY <2>1, <3>1
  <2>4. op' # op
    OBVIOUS
  <2> QED
    BY <2>2, <2>3, <2>4 DEF Next, vars, TaskEnd, TaskStart, ForeignClaim, ForeignRelease
<1>3. UNCHANGED <<slots, used, env>>
  BY <1>2 DEF FindBegin, FindCached
<1>4. ASSUME NEW i \in SlotIx, Usable(i), OfTask(i, t) \/ TsoAttached(i),
             Found(t, slots[i].eb)
      PROVE  /\ IsSlotOf(i, op'[t].b) /\ LiveSlot(i) /\ NonReentrant(op'[t].b)
  <2>1. op'[t].b = slots[i].eb
    BY <1>1, <1>4 DEF Found, At
  <2>2. \A j \in SlotIx : slots[j].eb = slots[i].eb => ~(j < i)
    BY <1>4, SlotsAssumption DEF RegInv, SlotsUnique, Usable, SlotIx
  <2> QED
    BY <1>4, <2>1, <2>2 DEF Usable, IsSlotOf
<1>5. ASSUME FindSecondary(t)
      PROVE  \E i \in SlotIx : /\ IsSlotOf(i, op'[t].b) /\ LiveSlot(i)
                               /\ OfTask(i, t) \/ TsoAttached(i)
                               /\ NonReentrant(op'[t].b)
  <2>1. op' # [op EXCEPT ![t] = Idle]
    BY <1>1 DEF Idle
  <2> QED
    BY <1>4, <1>5, <2>1 DEF FindSecondary, TsoSlots
<1>6. CASE FindBegin(t)
  <2>1. op' # [op EXCEPT ![t] = At("findCached", ectenvbk, 0)]
    BY <1>1 DEF At
  <2>2. \E i \in SlotIx : /\ IsSlotOf(i, op'[t].b) /\ LiveSlot(i)
                          /\ OfTask(i, t) \/ TsoAttached(i)
                          /\ NonReentrant(op'[t].b)
    BY <1>4, <1>5, <1>6, <2>1 DEF FindBegin, OwnSlots
  <2> QED
    BY <1>3, <1>6, <2>2 DEF FindBegin, CanBegin
<1>7. CASE FindCached(t)
  <2>1. ASSUME CacheHit(op[t].b), Found(t, op[t].b)
        PROVE  \E i \in SlotIx : /\ IsSlotOf(i, op'[t].b) /\ LiveSlot(i)
                                 /\ OfTask(i, t) \/ TsoAttached(i)
                                 /\ NonReentrant(op'[t].b)
    <3>1. op'[t].b = op[t].b /\ op[t].b \in Blocks
      BY <1>1, <1>7, <2>1, OpTyped DEF Found, At, FindCached, RegInv
    <3> QED
      BY <2>1, <3>1 DEF CacheHit, IsSlotOf, LiveSlot
  <2> QED
    BY <1>3, <1>5, <1>7, <2>1 DEF FindCached
<1> QED
  BY <1>2, <1>6, <1>7

\* Whatever other tasks do between the moment FINDENVB reads ECTENVBK and the
\* moment it answers, the answer is registered when it is given and is the
\* caller's own or TSO-attached.
THEOREM AnswersRegistered ==
  ASSUME PermChoices \subseteq {TRUE}
  PROVE  Spec => FindAnswersRegistered
<1>1. ASSUME RegInv, [Next]_vars, NEW t \in Tasks, op[t].pc # "found", op'[t].pc = "found"
      PROVE  \E i \in SlotIx :
                IsSlotOf(i, op'[t].b) /\ (OfTask(i, t) \/ TsoAttached(i))
  BY <1>1, AnswerIs
<1>2. RegInv /\ [Next]_vars =>
        [\A t \in Tasks :
            op[t].pc # "found" /\ op'[t].pc = "found" =>
               \E i \in SlotIx :
                  IsSlotOf(i, op'[t].b) /\ (OfTask(i, t) \/ TsoAttached(i))]_vars
  BY <1>1
<1> QED
  BY <1>2, RegistryInvariant, PTL DEF Spec, FindAnswersRegistered

\* One service at a time, FINDENVB never answers with a reentrant environment:
\* the PARMBLOCK pointer it tests first is there for all that is registered.
THEOREM AnswersNotReentrant ==
  ASSUME PermChoices \subseteq {TRUE}, Serialized
  PROVE  Spec => FindNeverReentrant
<1>1. ASSUME SerialInv, [Next]_vars, NEW t \in Tasks, op[t].pc # "found", op'[t].pc = "found"
      PROVE  ~env[op'[t].b].rent
  <2>1. PICK i \in SlotIx : IsSlotOf(i, op'[t].b) /\ LiveSlot(i) /\ NonReentrant(op'[t].b)
    BY <1>1, AnswerIs DEF SerialInv
  <2>2. op[t].pc \notin {"termUnreg", "termRollback"} /\ \A u \in Tasks \ {t} : ~Working(u)
    <3>1. CASE op[t].pc = "idle" /\ Undisturbed
      BY <3>1, NobodyWorks
    <3>2. CASE FindCached(t)
      BY <1>1, <3>2, OthersIdle DEF FindCached, Working
    <3> QED
      BY <1>1, <3>1, <3>2, AnswerIs DEF SerialInv
  <2>3. op'[t].b = slots[i].eb /\ slots[i].eb \in Blocks /\ Live(slots[i].eb)
    BY <1>1, <2>1, LiveIs DEF IsSlotOf
  <2> QED
    BY <1>1, <2>1, <2>2, <2>3, AllComplete DEF NonReentrant
<1>2. SerialInv /\ [Next]_vars =>
        [\A t \in Tasks :
            op[t].pc # "found" /\ op'[t].pc = "found" => ~env[op'[t].b].rent]_vars
  BY <1>1
<1> QED
  BY <1>2, SerialInvariant, PTL DEF Spec, FindNeverReentrant

\* One service at a time, IRXTERM changes ECTENVBK only while it points at the
\* environment that ends.  When services overlap it does not hold.
THEOREM RollbackGuardedAlone ==
  ASSUME PermChoices \subseteq {TRUE}, Serialized
  PROVE  Spec => RollbackGuarded
<1>1. SerialInv /\ [Next]_vars =>
        [\A t \in Tasks :
            op[t].pc = "termRollback" /\ op'[t].pc = "idle" => ectenvbk = op[t].b]_vars
  BY DEF SerialInv, RollInv
<1> QED
  BY <1>1, SerialInvariant, PTL DEF Spec, RollbackGuarded

-----------------------------------------------------------------------------
(* The numbered environments.                                              *)

Distinct(s, L) == \A i, j \in L : s[i].token = s[j].token => i = j

LEMMA NumberedIs ==
  ASSUME NEW s, NEW e, Distinct(s, DOMAIN e)
  PROVE  /\ \A n : n \in DOMAIN Numbered(s, e) <=> \E i \in DOMAIN e : n = s[i].token
         /\ \A i \in DOMAIN e : Numbered(s, e)[s[i].token] = e[i]
<1>1. ASSUME NEW i \in DOMAIN e
      PROVE  (CHOOSE j \in DOMAIN e : s[j].token = s[i].token) = i
  BY DEF Distinct
<1> QED
  BY <1>1 DEF Numbered

LEMMA TokensDistinct ==
  ASSUME TokenInv, NEW L \in SUBSET SlotIx, \A i \in L : slots[i].token > 0
  PROVE  Distinct(slots, L)
<1> SUFFICES ASSUME NEW i \in L, NEW j \in L, slots[i].token = slots[j].token, i # j
             PROVE  FALSE
  BY DEF Distinct
<1>1. slots[i].token \in Nat
  BY DEF TokenInv, TypeOK, Slot
<1>2. i < j \/ j < i
  BY SlotsAssumption DEF SlotIx
<1> QED
  BY <1>1, <1>2 DEF TokenInv, TokenOrder

\* The slots that are listed, and the environments in them.
LEMMA ListedAre ==
  ASSUME SerialInv
  PROVE  /\ \A i \in SlotIx : LiveSlot(i) => i \in ListedSlots /\ EnvIn(i) = slots[i].eb
         /\ \A t \in Tasks : op[t].pc = "termRollback" =>
               /\ op[t].slot \in ListedSlots /\ EnvIn(op[t].slot) = op[t].b
               /\ \A i \in ListedSlots : i = op[t].slot \/ LiveSlot(i)
         /\ (\A t \in Tasks : op[t].pc # "termRollback") =>
               \A i \in ListedSlots : LiveSlot(i)
<1>1. \A i \in SlotIx : LiveSlot(i) => i \in ListedSlots /\ EnvIn(i) = slots[i].eb
  BY DEF ListedSlots, EnvIn
<1>2. ASSUME NEW t \in Tasks, op[t].pc = "termRollback"
      PROVE  /\ op[t].slot \in ListedSlots /\ EnvIn(op[t].slot) = op[t].b
             /\ \A i \in ListedSlots : i = op[t].slot \/ LiveSlot(i)
  <2>1. op[t].slot \in SlotIx /\ ~LiveSlot(op[t].slot) /\ Ends(t, op[t].slot)
    BY <1>2, OpTyped, ConstAssumption DEF SerialInv, RegInv, RollInv, LiveSlot, Ends
  <2>2. \A u \in Tasks, i \in SlotIx : Ends(u, i) => u = t
    BY <1>2 DEF SerialInv, Alone, Working, Ends
  <2>3. (CHOOSE u \in Tasks : Ends(u, op[t].slot)) = t
    BY <2>1, <2>2
  <2> QED
    BY <2>1, <2>2, <2>3 DEF ListedSlots, Ending, EnvIn, Ends
<1>3. (\A t \in Tasks : op[t].pc # "termRollback") =>
         \A i \in ListedSlots : LiveSlot(i)
  BY DEF ListedSlots, Ending, Ends
<1> QED
  BY <1>1, <1>2, <1>3

LEMMA EnvsAre ==
  ASSUME SerialInv
  PROVE  /\ \A i \in ListedSlots : i \in SlotIx /\ slots[i].token \in 1 .. counter
         /\ Distinct(slots, ListedSlots)
         /\ \A n : n \in DOMAIN Envs <=> \E i \in ListedSlots : n = slots[i].token
         /\ \A i \in ListedSlots :
               LET e == Envs[slots[i].token] IN
                   /\ e.eb = EnvIn(i) /\ e.rent = env[EnvIn(i)].rent
                   /\ e.tcb = slots[i].tcb /\ e.tso = slots[i].tso
<1>1. ASSUME NEW i \in ListedSlots PROVE i \in SlotIx /\ slots[i].token \in 1 .. counter
  <2>1. i \in SlotIx
    BY DEF ListedSlots
  <2>2. slots[i].token \in Nat /\ counter \in Nat /\ slots[i].token <= counter
    BY <2>1 DEF SerialInv, TokenInv, TokenOrder, TypeOK, Slot
  <2>3. CASE LiveSlot(i)
    BY <2>1, <2>2, <2>3, LiveIs
  <2>4. CASE Ending(i)
    BY <2>1, <2>2, <2>4 DEF Ending, Ends, SerialInv, RollInv
  <2> QED
    BY <2>3, <2>4 DEF ListedSlots
<1>2. Distinct(slots, ListedSlots)
  <2>1. ListedSlots \in SUBSET SlotIx /\ \A i \in ListedSlots : slots[i].token > 0
    BY <1>1 DEF SerialInv, RegInv, TypeOK
  <2> QED
    BY <2>1, TokensDistinct DEF SerialInv
<1>3. DOMAIN Entries = ListedSlots
  BY DEF Entries
<1>4. /\ \A n : n \in DOMAIN Envs <=> \E i \in ListedSlots : n = slots[i].token
      /\ \A i \in ListedSlots : Envs[slots[i].token] = Entries[i]
  <2>1. Distinct(slots, DOMAIN Entries)
    BY <1>2, <1>3
  <2>2. /\ \A n : n \in DOMAIN Envs <=> \E i \in DOMAIN Entries : n = slots[i].token
        /\ \A i \in DOMAIN Entries : Envs[slots[i].token] = Entries[i]
    BY <2>1, NumberedIs DEF Envs
  <2> QED
    BY <1>3, <2>2
<1>5. ASSUME NEW i \in ListedSlots
      PROVE  LET e == Envs[slots[i].token] IN
                 /\ e.eb = EnvIn(i) /\ e.rent = env[EnvIn(i)].rent
                 /\ e.tcb = slots[i].tcb /\ e.tso = slots[i].tso
  <2>1. Envs[slots[i].token] = Entries[i]
    BY <1>3, <1>4
  <2> QED
    BY <2>1 DEF Entries
<1> QED
  BY <1>1, <1>2, <1>4, <1>5

\* Steps that touch no slot, no rollback and no RENTRANT flag.
LEMMA SameEnvs ==
  ASSUME SerialInv, UNCHANGED slots,
         \A u \in Tasks : op[u].pc = "termRollback" \/ op'[u].pc = "termRollback" =>
            op'[u] = op[u],
         \A b \in Blocks : Live(b) => env'[b].rent = env[b].rent
  PROVE  Envs' = Envs
<1>1. \A i : LiveSlot(i)' = LiveSlot(i)
  BY DEF LiveSlot
<1>2. \A u \in Tasks, i \in SlotIx : Ends(u, i)' <=> Ends(u, i)
  BY DEF Ends
<1>3. ListedSlots' = ListedSlots
  BY <1>1, <1>2 DEF ListedSlots, Ending
<1>4. ASSUME NEW i \in ListedSlots
      PROVE EnvIn(i)' = EnvIn(i) /\ EnvIn(i) \in Blocks /\ Live(EnvIn(i))
  <2>1. i \in SlotIx
    BY DEF ListedSlots
  <2>2. CASE LiveSlot(i)
    BY <1>1, <2>1, <2>2, LiveIs DEF EnvIn
  <2>3. CASE ~LiveSlot(i)
    <3>1. PICK t \in Tasks : Ends(t, i)
      BY <2>3 DEF ListedSlots, Ending
    <3>2. \A u \in Tasks : (Ends(u, i) => u = t) /\ (Ends(u, i)' => u = t)
      BY <1>2, <2>1, <3>1 DEF SerialInv, Alone, Working, Ends
    <3>3. (CHOOSE u \in Tasks : Ends(u, i)) = t
      BY <3>1, <3>2
    <3>4. (CHOOSE u \in Tasks : Ends(u, i)') = t
      BY <1>2, <2>1, <3>1, <3>2
    <3>5. op'[t] = op[t] /\ op[t].b \in Blocks /\ Live(op[t].b)
      BY <3>1, OpTyped DEF Ends, SerialInv, RegInv, OpsInv, Busy, BusyPcs
    <3>6. EnvIn(i) = op[t].b
      BY <2>3, <3>3 DEF EnvIn
    <3>7. EnvIn(i)' = op'[t].b
      BY <1>1, <2>3, <3>4 DEF EnvIn
    <3> QED
      BY <3>5, <3>6, <3>7
  <2> QED
    BY <2>2, <2>3
<1>5. Entries' = Entries
  BY <1>3, <1>4 DEF Entries
<1> QED
  BY <1>5 DEF Envs

-----------------------------------------------------------------------------
(* The simulation.                                                         *)

LEMMA InitSim == Init => Abstract!Init
<1> SUFFICES ASSUME Init PROVE Abstract!Init
  OBVIOUS
<1>1. DOMAIN Entries = {}
  BY ConstAssumption
  DEF Init, Entries, ListedSlots, LiveSlot, Ending, Ends, Idle
<1>2. Envs = [n \in {} |-> None]
  BY <1>1 DEF Envs, Numbered
<1>3. Answers = [t \in Tasks |-> None]
  BY DEF Init, Answers, Idle
<1> QED
  BY <1>2, <1>3 DEF Init, Abstract!Init

\* Steps EnvService does not see.
LEMMA QuietSim ==
  ASSUME SerialInv, UNCHANGED <<isTso, slots, counter, ectenvbk>>,
         \A u \in Tasks :
            op[u].pc \in {"found", "termRollback"} \/ op'[u].pc \in {"found", "termRollback"}
            => op'[u] = op[u],
         \A b \in Blocks : Live(b) => env'[b].rent = env[b].rent
  PROVE  UNCHANGED Abstract!svars
<1>1. Envs' = Envs
  BY SameEnvs
<1>2. Answers' = Answers
  BY DEF Answers
<1> QED
  BY <1>1, <1>2 DEF Abstract!svars

\* While FINDENVB is all that runs, what it takes from the table is what
\* EnvService takes from its environments.
LEMMA CandidatesAre ==
  ASSUME SerialInv, NEW t \in Tasks, \A u \in Tasks \ {t} : ~Working(u),
         op[t].pc \notin {"termUnreg", "termRollback"}
  PROVE  /\ \A n : n \in Abstract!Own(t) <=> \E j \in OwnSlots(t) : n = slots[j].token
         /\ \A n : n \in Abstract!Shared <=>
                      isTso /\ \E j \in TsoSlots : n = slots[j].token
<1>1. \A i \in ListedSlots : LiveSlot(i)
  BY ListedAre DEF Working
<1>2. \A n : n \in DOMAIN Envs <=> \E j \in SlotIx : LiveSlot(j) /\ n = slots[j].token
  BY <1>1, EnvsAre, ListedAre
<1>3. ASSUME NEW j \in SlotIx, LiveSlot(j)
      PROVE  /\ Envs[slots[j].token].tcb = slots[j].tcb
             /\ Envs[slots[j].token].tso = slots[j].tso
             /\ Envs[slots[j].token].rent = env[slots[j].eb].rent
  <2>1. j \in ListedSlots /\ EnvIn(j) = slots[j].eb
    BY <1>3, ListedAre
  <2> QED
    BY <2>1, EnvsAre
<1>4. \A j \in SlotIx : LiveSlot(j) => (Usable(j) <=> ~env[slots[j].eb].rent)
  BY LiveIs, AllComplete DEF Usable, EyeOK, NonReentrant, Live
<1>5. \A n : n \in Abstract!Own(t) <=> \E j \in OwnSlots(t) : n = slots[j].token
  BY <1>2, <1>3, <1>4 DEF Abstract!Own, OwnSlots, OfTask, Usable
<1>6. \A n : n \in Abstract!Shared <=> isTso /\ \E j \in TsoSlots : n = slots[j].token
  BY <1>2, <1>3, <1>4 DEF Abstract!Shared, TsoSlots, TsoAttached, Usable
<1> QED
  BY <1>5, <1>6

\* FINDENVB answers with its own newest, or with the newest shared one, which it
\* then makes the anchor or finds there.
LEMMA AnswerSim ==
  ASSUME SerialInv, NEW t \in Tasks, \A u \in Tasks \ {t} : ~Working(u),
         op[t].pc \in {"idle", "findCached"},
         UNCHANGED <<isTso, slots, counter, env>>,
         NEW i \in SlotIx, LiveSlot(i), Found(t, slots[i].eb),
         \/ i \in OwnSlots(t) /\ Newest(i, OwnSlots(t)) /\ ectenvbk' = ectenvbk
         \/ /\ OwnSlots(t) = {} /\ isTso /\ i \in TsoSlots /\ Newest(i, TsoSlots)
            /\ ectenvbk' = slots[i].eb
  PROVE  Abstract!Find(t)
<1> DEFINE k == slots[i].token
<1>1. /\ op \in [Tasks -> Op] /\ op'[t].pc = "found" /\ op'[t].b = slots[i].eb
      /\ \A u \in Tasks \ {t} : op'[u] = op[u]
  BY DEF SerialInv, RegInv, TypeOK, Found, At
<1>2. Envs' = Envs
  BY <1>1, SameEnvs
<1>3. k \in DOMAIN Envs /\ Envs[k].eb = slots[i].eb
  <2>1. i \in ListedSlots /\ EnvIn(i) = slots[i].eb
    BY ListedAre
  <2> QED
    BY <2>1, EnvsAre
<1>4. Answers[t] = None /\ Answers' = [Answers EXCEPT ![t] = slots[i].eb]
  BY <1>1 DEF Answers
<1>5. /\ \A n : n \in Abstract!Own(t) <=> \E j \in OwnSlots(t) : n = slots[j].token
      /\ \A n : n \in Abstract!Shared <=> isTso /\ \E j \in TsoSlots : n = slots[j].token
  BY CandidatesAre
<1>6. CASE i \in OwnSlots(t) /\ Newest(i, OwnSlots(t)) /\ ectenvbk' = ectenvbk
  <2>1. Abstract!IsLast(k, Abstract!Own(t))
    BY <1>5, <1>6 DEF Abstract!IsLast, Newest
  <2> QED
    BY <1>2, <1>3, <1>4, <1>6, <2>1 DEF Abstract!Find
<1>7. CASE /\ OwnSlots(t) = {} /\ isTso /\ i \in TsoSlots /\ Newest(i, TsoSlots)
           /\ ectenvbk' = slots[i].eb
  <2>1. Abstract!IsLast(k, Abstract!Shared) /\ Abstract!Own(t) = {}
    BY <1>5, <1>7 DEF Abstract!IsLast, Newest
  <2> QED
    BY <1>2, <1>3, <1>4, <1>7, <2>1 DEF Abstract!Find
<1> QED
  BY <1>6, <1>7

\* FINDENVB's last stage.
LEMMA SecondarySim ==
  ASSUME SerialInv, NEW t \in Tasks, \A u \in Tasks \ {t} : ~Working(u),
         op[t].pc \in {"idle", "findCached"}, OwnSlots(t) = {}, FindSecondary(t),
         UNCHANGED <<isTso, slots, counter, env>>
  PROVE  Abstract!Find(t) \/ UNCHANGED Abstract!svars
<1>1. CASE isTso /\ TsoSlots # {}
  <2>1. PICK i \in TsoSlots : /\ Newest(i, TsoSlots)
                              /\ ectenvbk' = slots[i].eb
                              /\ Found(t, slots[i].eb)
    BY <1>1 DEF FindSecondary
  <2>2. i \in SlotIx /\ LiveSlot(i)
    BY DEF TsoSlots, Usable
  <2> QED
    BY <1>1, <2>1, <2>2, AnswerSim
<1>2. CASE ~(isTso /\ TsoSlots # {})
  <2>1. op' = [op EXCEPT ![t] = Idle] /\ ectenvbk' = ectenvbk
    BY <1>2 DEF FindSecondary
  <2>2. op \in [Tasks -> Op]
    BY DEF SerialInv, RegInv, TypeOK
  <2>3. \A u \in Tasks :
           op[u].pc \in {"found", "termRollback"} \/ op'[u].pc \in {"found", "termRollback"}
           => op'[u] = op[u]
    BY <2>1, <2>2 DEF Idle
  <2> QED
    BY <2>1, <2>3, QuietSim
<1> QED
  BY <1>1, <1>2

LEMMA FindBeginSim ==
  ASSUME Serialized, SerialInv, NEW t \in Tasks, FindBegin(t)
  PROVE  Abstract!Find(t) \/ UNCHANGED Abstract!svars
<1>1. /\ \A u \in Tasks : ~Working(u)
      /\ op[t].pc = "idle" /\ op \in [Tasks -> Op]
      /\ UNCHANGED <<isTso, slots, counter, env>>
  BY NobodyWorks DEF FindBegin, CanBegin, SerialInv, RegInv, TypeOK
<1>2. ASSUME NEW i \in OwnSlots(t), Newest(i, OwnSlots(t)), Found(t, slots[i].eb),
             UNCHANGED ectenvbk
      PROVE  Abstract!Find(t)
  <2>1. i \in SlotIx /\ LiveSlot(i)
    BY DEF OwnSlots, Usable
  <2> QED
    BY <1>1, <1>2, <2>1, AnswerSim
<1>3. CASE op' = [op EXCEPT ![t] = At("findCached", ectenvbk, 0)] /\ UNCHANGED ectenvbk
  <2>1. \A u \in Tasks :
           op[u].pc \in {"found", "termRollback"} \/ op'[u].pc \in {"found", "termRollback"}
           => op'[u] = op[u]
    BY <1>1, <1>3 DEF At
  <2> QED
    BY <1>1, <1>3, <2>1, QuietSim
<1>4. CASE OwnSlots(t) = {} /\ FindSecondary(t)
  BY <1>1, <1>4, SecondarySim
<1> QED
  BY <1>2, <1>3, <1>4 DEF FindBegin

\* A cache hit answers with the newest shared environment: the anchor is it.
LEMMA FindCachedSim ==
  ASSUME SerialInv, NEW t \in Tasks, FindCached(t)
  PROVE  Abstract!Find(t) \/ UNCHANGED Abstract!svars
<1>1. /\ op[t].pc = "findCached" /\ op \in [Tasks -> Op] /\ op[t].b \in Blocks
      /\ isTso /\ ectenvbk = op[t].b /\ OwnSlots(t) = {}
      /\ UNCHANGED <<isTso, slots, counter, env>>
  BY OpTyped DEF FindCached, SerialInv, RegInv, TypeOK, FindInv
<1>2. \A u \in Tasks \ {t} : ~Working(u)
  BY <1>1, OthersIdle DEF Working
<1>3. ASSUME CacheHit(op[t].b), Found(t, op[t].b), UNCHANGED ectenvbk
      PROVE  Abstract!Find(t)
  <2>1. PICK i \in SlotIx : IsSlotOf(i, op[t].b) /\ TsoAttached(i) /\ NonReentrant(op[t].b)
    BY <1>3 DEF CacheHit
  <2>2. LiveSlot(i) /\ slots[i].eb = op[t].b
    BY <1>1, <2>1 DEF IsSlotOf, LiveSlot
  <2>3. Usable(i) /\ i \in TsoSlots
    BY <2>1, <2>2, LiveIs DEF Usable, EyeOK, Live, TsoSlots
  <2>4. ASSUME NEW j \in TsoSlots PROVE slots[j].token <= slots[i].token
    <3>1. j \in SlotIx /\ LiveSlot(j) /\ TsoAttached(j) /\ NonReentrant(slots[j].eb)
      BY DEF TsoSlots, Usable
    <3>2. ~env[slots[j].eb].rent
      BY <1>1, <1>2, <3>1, AllComplete, LiveIs DEF NonReentrant
    <3>3. ~(i < j)
      BY <1>1, <2>2, <3>1, <3>2 DEF SerialInv, AnchorNewest, NoneAfter
    <3>4. slots[i].token \in Nat /\ slots[j].token \in Nat
          /\ slots[i].token > 0 /\ slots[j].token > 0
      BY <2>2, <3>1, LiveIs
    <3>5. j < i => slots[j].token < slots[i].token
      BY <3>1, <3>4 DEF SerialInv, TokenInv, TokenOrder
    <3>6. j < i \/ j = i
      BY <3>1, <3>3, SlotsAssumption DEF SlotIx
    <3> QED
      BY <3>4, <3>5, <3>6
  <2>5. Newest(i, TsoSlots)
    BY <2>3, <2>4 DEF Newest
  <2> QED
    BY <1>1, <1>2, <1>3, <2>2, <2>3, <2>5, AnswerSim
<1>4. CASE FindSecondary(t)
  BY <1>1, <1>2, <1>4, SecondarySim
<1> QED
  BY <1>3, <1>4 DEF FindCached

LEMMA FindDoneSim ==
  ASSUME SerialInv, NEW t \in Tasks, FindDone(t)
  PROVE  Abstract!Answered(t)
<1>1. /\ op[t].pc = "found" /\ op \in [Tasks -> Op]
      /\ op' = [op EXCEPT ![t] = Idle]
      /\ UNCHANGED <<isTso, slots, counter, ectenvbk, env>>
  BY DEF FindDone, SerialInv, RegInv, TypeOK
<1>2. Envs' = Envs
  <2>1. \A u \in Tasks :
           op[u].pc = "termRollback" \/ op'[u].pc = "termRollback" => op'[u] = op[u]
    BY <1>1 DEF Idle
  <2> QED
    BY <1>1, <2>1, SameEnvs
<1>3. Answers' = [Answers EXCEPT ![t] = None]
  BY <1>1 DEF Answers, Idle
<1> QED
  BY <1>1, <1>2, <1>3 DEF Abstract!Answered

LEMMA ForeignSim ==
  ASSUME Serialized, SerialInv, ForeignClaim \/ ForeignRelease
  PROVE  Abstract!ForeignAnchor
<1>1. /\ UNCHANGED <<isTso, slots, counter, env, op>> /\ isTso
      /\ ectenvbk' = Foreign \/ (ectenvbk = Foreign /\ ectenvbk' = None)
  BY DEF ForeignClaim, ForeignRelease, SerialInv, ForeignOfTso
<1>2. Envs' = Envs
  BY <1>1, SameEnvs
<1>3. Answers' = Answers
  BY <1>1 DEF Answers
<1> QED
  BY <1>1, <1>2, <1>3 DEF Abstract!ForeignAnchor

\* When nothing is rolled back the numbered environments are those in the live
\* slots.
Unrolled == \A u \in Tasks : op[u].pc # "termRollback"
Entry(i) == [eb |-> slots[i].eb, tcb |-> slots[i].tcb, tso |-> slots[i].tso,
             rent |-> env[slots[i].eb].rent]
EnvsLive ==
    /\ \A n : n \in DOMAIN Envs <=> \E j \in SlotIx : LiveSlot(j) /\ n = slots[j].token
    /\ \A j \in SlotIx : LiveSlot(j) => Envs[slots[j].token] = Entry(j)
    /\ Envs = [n \in DOMAIN Envs |-> Envs[n]]

LEMMA EnvsWhenUnrolled == SerialInv /\ Unrolled => EnvsLive
<1> SUFFICES ASSUME SerialInv, Unrolled PROVE EnvsLive
  OBVIOUS
<1>1. \A i \in SlotIx : i \in ListedSlots <=> LiveSlot(i)
  BY ListedAre DEF Unrolled
<1>2. ListedSlots \subseteq SlotIx /\ DOMAIN Entries = ListedSlots
  BY DEF ListedSlots, Entries
<1>3. Distinct(slots, DOMAIN Entries)
  BY <1>2, EnvsAre
<1>4. /\ \A n : n \in DOMAIN Envs <=> \E i \in DOMAIN Entries : n = slots[i].token
      /\ \A i \in DOMAIN Entries : Envs[slots[i].token] = Entries[i]
  BY <1>3, NumberedIs DEF Envs
<1>5. ASSUME NEW i \in SlotIx, LiveSlot(i) PROVE Entries[i] = Entry(i)
  BY <1>1, <1>5, ListedAre DEF Entries, Entry
<1>6. Envs = [n \in DOMAIN Envs |-> Envs[n]]
  BY DEF Envs, Numbered
<1> QED
  BY <1>1, <1>2, <1>4, <1>5, <1>6 DEF EnvsLive

LEMMA EnvsAfter == SerialInv' /\ Unrolled' => EnvsLive'
  BY EnvsWhenUnrolled, PTL

\* Each occupied slot accounts for one registration, so the table is full when
\* as many were made as there are slots to take.
LEMMA CounterBelow ==
  ASSUME SerialInv, NEW i \in SlotIx, IsNextSlot(i)
  PROVE  counter < Cardinality(Usables)
<1>1. i \in Usables /\ i \notin Taken
  BY NextSlotIsNew DEF Taken
<1>2. Taken \subseteq Usables
  BY DEF SerialInv, Allotted, TokenInv, TypeOK, Slot, Taken, Usables
<1>3. /\ IsFiniteSet(Taken \cup {i}) /\ Cardinality(Taken \cup {i}) = Cardinality(Taken) + 1
      /\ Taken \cup {i} \subseteq Usables
  BY <1>1, <1>2, TakenFinite, FS_AddElement
<1>4. Cardinality(Taken \cup {i}) <= Cardinality(Usables)
  BY <1>3, TakenFinite, FS_Subset
<1>5. /\ Cardinality(Taken) \in Nat /\ Cardinality(Usables) \in Nat
      /\ counter = Cardinality(Taken)
  BY TakenFinite, FS_CardinalityType DEF SerialInv, Allotted
<1> QED
  BY <1>3, <1>4, <1>5

LEMMA CounterFull ==
  ASSUME SerialInv, OpenSlots = {}
  PROVE  counter = Cardinality(Usables)
<1>1. Taken \subseteq Usables
  BY DEF SerialInv, Allotted, TokenInv, TypeOK, Slot, Taken, Usables
<1>2. ASSUME NEW i \in Usables, i \notin Taken PROVE FALSE
  <2>1. /\ used \in Nat /\ i \in SlotIx /\ slots[i].token \in Nat /\ i # 0
        /\ i \in Nat /\ i >= 1
    BY SlotsAssumption DEF SerialInv, RegInv, TypeOK, Slot, Usables, SlotIx
  <2>2. slots[i].token = 0
    BY <1>2, <2>1 DEF Taken
  <2>3. slots[i].eb = Free /\ ~(i < used)
    BY <2>1, <2>2 DEF SerialInv, Allotted
  <2>4. i \in OpenSlots
    BY <2>1, <2>3 DEF OpenSlots, ScanStart
  <2> QED
    BY <2>4
<1>3. Taken = Usables
  BY <1>1, <1>2
<1> QED
  BY <1>3 DEF SerialInv, Allotted

\* INITENVB registers its environment under the next number.
LEMMA OpenSim ==
  ASSUME SerialInv, SerialInv', NEW t \in Tasks, InitCommit(t)
  PROVE  \E b \in Blocks, tso, rent \in BOOLEAN : Abstract!Open(t, b, tso, rent)
<1>0. PICK b \in Blocks : b = op[t].b
  BY OpTyped DEF SerialInv, RegInv, InitCommit
<1>1. /\ op[t].pc = "initCommit" /\ Working(t) /\ Live(b) /\ ~Slotted(b)
      /\ op \in [Tasks -> Op] /\ op' = [op EXCEPT ![t] = Idle]
      /\ UNCHANGED <<isTso, env>>
      /\ ectenvbk' = IF env[b].tso /\ isTso THEN b ELSE ectenvbk
      /\ AllocSlot(b, t, env[b].tso)
  BY <1>0 DEF SerialInv, RegInv, TypeOK, OpsInv, InitCommit, Busy, BusyPcs, Working
<1>2. env[b].tso \in BOOLEAN /\ env[b].rent \in BOOLEAN
  BY DEF SerialInv, RegInv, TypeOK, EnvRec
<1>3. Unrolled /\ Unrolled'
  BY <1>1, OthersIdle DEF Unrolled, Working, Idle
<1>4. EnvsLive /\ EnvsLive'
  BY <1>3, EnvsWhenUnrolled, EnvsAfter
<1>5. ~Abstract!Listed(b)
  <2>1. ASSUME NEW j \in SlotIx, LiveSlot(j) PROVE Envs[slots[j].token].eb # b
    <3>1. Envs[slots[j].token] = Entry(j)
      BY <1>4, <2>1 DEF EnvsLive
    <3>2. Envs[slots[j].token].eb = slots[j].eb
      BY <3>1 DEF Entry
    <3> QED
      BY <1>1, <3>2 DEF Slotted
  <2> QED
    BY <1>4, <2>1 DEF EnvsLive, Abstract!Listed
<1>6. Answers' = Answers
  BY <1>1 DEF Answers, Idle
<1>7. CASE OpenSlots = {} /\ UNCHANGED <<slots, used, counter>>
  <2>1. Envs' = Envs
    BY <1>1, <1>3, <1>7, SameEnvs DEF Unrolled
  <2>2. ~(counter < Cardinality(Usables))
    BY <1>7, CounterFull DEF SerialInv, RegInv, TypeOK
  <2>3. Abstract!Open(t, b, env[b].tso, env[b].rent)
    BY <1>1, <1>5, <1>6, <1>7, <2>1, <2>2 DEF Abstract!Open
  <2> QED
    BY <1>2, <2>3
<1>8. ASSUME NEW i \in SlotIx, IsNextSlot(i), NextToken,
             slots' = [slots EXCEPT ![i] =
                         [eb |-> b, token |-> counter + 1, tcb |-> t, tso |-> env[b].tso]]
      PROVE  Abstract!Open(t, b, env[b].tso, env[b].rent)
  <2>1. /\ slots'[i].eb = b /\ slots'[i].token = counter + 1
        /\ slots'[i].tcb = t /\ slots'[i].tso = env[b].tso
        /\ \A j \in SlotIx \ {i} : slots'[j] = slots[j]
        /\ LiveSlot(i)' /\ ~LiveSlot(i) /\ counter' = counter + 1
    BY <1>8, NextSlotIsNew, ConstAssumption
    DEF SerialInv, RegInv, TypeOK, NextToken, LiveSlot
  <2>2. \A j \in SlotIx \ {i} : (LiveSlot(j)' <=> LiveSlot(j)) /\ Entry(j)' = Entry(j)
    BY <1>1, <2>1 DEF LiveSlot, Entry
  <2>3. \A n : n \in DOMAIN Envs' <=> n \in DOMAIN Envs \cup {counter'}
    BY <1>4, <2>1, <2>2 DEF EnvsLive
  <2>4. Envs'[counter'] = [eb |-> b, tcb |-> t, tso |-> env[b].tso, rent |-> env[b].rent]
    <3>1. Envs'[counter'] = Entry(i)'
      BY <1>4, <2>1 DEF EnvsLive
    <3> QED
      BY <1>1, <2>1, <3>1 DEF Entry
  <2>5. ASSUME NEW n \in DOMAIN Envs PROVE n # counter' /\ Envs'[n] = Envs[n]
    <3>1. PICK j \in SlotIx : LiveSlot(j) /\ n = slots[j].token
      BY <1>4 DEF EnvsLive
    <3>2. j # i /\ slots'[j].token = n /\ LiveSlot(j)' /\ Entry(j)' = Entry(j)
      BY <2>1, <2>2, <3>1
    <3>3. Envs[n] = Entry(j) /\ Envs'[n] = Entry(j)'
      BY <1>4, <3>1, <3>2 DEF EnvsLive
    <3>4. n \in Nat /\ n <= counter /\ counter \in Nat
      BY <3>1, LiveIs DEF SerialInv, TokenInv, TokenOrder, TypeOK
    <3> QED
      BY <2>1, <3>2, <3>3, <3>4
  <2>6. Envs' = [n \in DOMAIN Envs \cup {counter'} |->
                    IF n = counter'
                    THEN [eb |-> b, tcb |-> t, tso |-> env[b].tso, rent |-> env[b].rent]
                    ELSE Envs[n]]
    <3>1. DOMAIN Envs' = DOMAIN Envs \cup {counter'}
      BY <2>3
    <3>2. Envs' = [n \in DOMAIN Envs' |-> Envs'[n]]
      BY <1>4 DEF EnvsLive
    <3> QED
      BY <2>4, <2>5, <3>1, <3>2
  <2> QED
    BY <1>1, <1>5, <1>6, <1>8, <2>1, <2>6, CounterBelow DEF Abstract!Open
<1> QED
  BY <1>1, <1>2, <1>7, <1>8 DEF AllocSlot

\* While IRXTERM rolls the anchor back, the environment it ends is still listed
\* in the slot it had.
Ended(t) == [eb |-> op[t].b, tcb |-> slots[op[t].slot].tcb,
             tso |-> slots[op[t].slot].tso, rent |-> env[op[t].b].rent]
EnvsRolling ==
    \A t \in Tasks : op[t].pc = "termRollback" =>
        LET k == slots[op[t].slot].token
        IN  /\ \A n : n \in DOMAIN Envs <=>
                  n = k \/ \E j \in SlotIx : LiveSlot(j) /\ n = slots[j].token
            /\ Envs[k] = Ended(t)
            /\ \A j \in SlotIx : LiveSlot(j) => Envs[slots[j].token] = Entry(j)
            /\ Envs = [n \in DOMAIN Envs |-> Envs[n]]

LEMMA EnvsWhileRolling == SerialInv => EnvsRolling
<1> SUFFICES ASSUME SerialInv, NEW t \in Tasks, op[t].pc = "termRollback"
             PROVE  LET k == slots[op[t].slot].token
                    IN  /\ \A n : n \in DOMAIN Envs <=>
                              n = k \/ \E j \in SlotIx : LiveSlot(j) /\ n = slots[j].token
                        /\ Envs[k] = Ended(t)
                        /\ \A j \in SlotIx : LiveSlot(j) =>
                              Envs[slots[j].token] = Entry(j)
                        /\ Envs = [n \in DOMAIN Envs |-> Envs[n]]
  BY DEF EnvsRolling
<1> DEFINE i == op[t].slot
           k == slots[i].token
<1>1. /\ i \in ListedSlots /\ EnvIn(i) = op[t].b
      /\ \A j \in SlotIx : j \in ListedSlots <=> j = i \/ LiveSlot(j)
  BY ListedAre DEF ListedSlots
<1>2. ListedSlots \subseteq SlotIx /\ DOMAIN Entries = ListedSlots
  BY DEF ListedSlots, Entries
<1>3. Distinct(slots, DOMAIN Entries)
  BY <1>2, EnvsAre
<1>4. /\ \A n : n \in DOMAIN Envs <=> \E j \in DOMAIN Entries : n = slots[j].token
      /\ \A j \in DOMAIN Entries : Envs[slots[j].token] = Entries[j]
  BY <1>3, NumberedIs DEF Envs
<1>5. ASSUME NEW j \in SlotIx, LiveSlot(j) PROVE Envs[slots[j].token] = Entry(j)
  <2>1. j \in ListedSlots /\ EnvIn(j) = slots[j].eb
    BY <1>5, ListedAre
  <2>2. Entries[j] = Entry(j)
    BY <2>1 DEF Entries, Entry
  <2> QED
    BY <1>2, <1>4, <2>1, <2>2
<1>6. Envs[k] = Ended(t)
  <2>1. Entries[i] = Ended(t)
    BY <1>1 DEF Entries, Ended
  <2> QED
    BY <1>1, <1>2, <1>4, <2>1
<1>7. \A n : n \in DOMAIN Envs <=> n = k \/ \E j \in SlotIx : LiveSlot(j) /\ n = slots[j].token
  BY <1>1, <1>2, <1>4
<1>8. Envs = [n \in DOMAIN Envs |-> Envs[n]]
  BY DEF Envs, Numbered
<1> QED
  BY <1>5, <1>6, <1>7, <1>8

LEMMA EnvsWhileRollingNext == SerialInv' => EnvsRolling'
  BY EnvsWhileRolling, PTL

\* IRXTERM's step 4a: an environment that is not the anchor is gone with its
\* slot, the anchor stays listed.
LEMMA UnregisterSim ==
  ASSUME SerialInv, SerialInv', NEW t \in Tasks, TermUnregister(t)
  PROVE  (\E k \in DOMAIN Envs : Abstract!Close(k)) \/ UNCHANGED Abstract!svars
<1>0. PICK b \in Blocks, i \in SlotIx : b = op[t].b /\ i = op[t].slot
  BY TermUnregisterIs
<1>1. /\ op[t].pc = "termUnreg" /\ Working(t)
      /\ slots[i].eb = b /\ LiveSlot(i) /\ slots'[i].eb = Free
      /\ slots'[i].token = slots[i].token
      /\ slots'[i].tso = slots[i].tso /\ slots'[i].tcb = slots[i].tcb
      /\ \A j \in SlotIx \ {i} : slots'[j] = slots[j] /\ slots[j].eb # b
      /\ UNCHANGED <<isTso, used, counter, ectenvbk>>
      /\ \A u \in Tasks \ {t} : op'[u] = op[u]
  BY <1>0, TermUnregisterIs
<1>2. \/ /\ env' = env
         /\ op'[t].pc = "termRollback" /\ op'[t].b = b /\ op'[t].slot = i
      \/ /\ ectenvbk # b /\ op'[t].pc = "idle"
         /\ env'[b] = NoEnv /\ \A c \in Blocks \ {b} : env'[c] = env[c]
  BY <1>0, TermUnregisterIs
<1>3. \A u \in Tasks \ {t} : ~Working(u)
  BY <1>1, OthersIdle
<1>4. Unrolled /\ EnvsLive
  BY <1>1, <1>3, EnvsWhenUnrolled DEF Unrolled, Working
<1>5. /\ ~LiveSlot(i)'
      /\ \A j \in SlotIx \ {i} : LiveSlot(j)' <=> LiveSlot(j)
  BY <1>1, ConstAssumption DEF LiveSlot
<1>6. ASSUME NEW j \in SlotIx \ {i}, LiveSlot(j) PROVE Entry(j)' = Entry(j)
  <2>1. slots[j].eb \in Blocks \ {b} /\ slots'[j] = slots[j]
    BY <1>1, <1>6 DEF LiveSlot
  <2>2. env'[slots[j].eb] = env[slots[j].eb]
    BY <1>2, <2>1
  <2> QED
    BY <2>1, <2>2 DEF Entry
<1>7. Answers' = Answers
  BY <1>1, <1>2 DEF Answers
<1> DEFINE k == slots[i].token
<1>8. k \in DOMAIN Envs /\ Envs[k] = Entry(i) /\ Envs[k].eb = b
  BY <1>1, <1>4 DEF EnvsLive, Entry
<1>9. ASSUME NEW j \in SlotIx \ {i}, LiveSlot(j) PROVE slots[j].token # k
  BY <1>1, <1>9, EnvsAre, ListedAre DEF Distinct
<1>10. CASE op'[t].pc = "termRollback" /\ op'[t].b = b /\ op'[t].slot = i /\ env' = env
  <2>1. /\ \A n : n \in DOMAIN Envs' <=>
              n = k \/ \E j \in SlotIx : LiveSlot(j)' /\ n = slots'[j].token
        /\ Envs'[k] = Ended(t)'
        /\ \A j \in SlotIx : LiveSlot(j)' => Envs'[slots'[j].token] = Entry(j)'
        /\ Envs' = [n \in DOMAIN Envs' |-> Envs'[n]]
    BY <1>1, <1>10, EnvsWhileRollingNext DEF EnvsRolling
  <2>2. DOMAIN Envs' = DOMAIN Envs
    <3>1. \A n : n \in DOMAIN Envs' <=> n \in DOMAIN Envs
      BY <1>1, <1>4, <1>5, <2>1 DEF EnvsLive
    <3> QED
      BY <3>1
  <2>3. Envs'[k] = Envs[k]
    BY <1>1, <1>8, <1>10, <2>1 DEF Ended, Entry
  <2>4. ASSUME NEW n \in DOMAIN Envs, n # k PROVE Envs'[n] = Envs[n]
    <3>1. PICK j \in SlotIx : LiveSlot(j) /\ n = slots[j].token
      BY <1>4 DEF EnvsLive
    <3>2. j # i /\ LiveSlot(j)' /\ slots'[j].token = n
      BY <1>1, <1>5, <2>4, <3>1
    <3> QED
      BY <1>4, <1>6, <2>1, <3>1, <3>2 DEF EnvsLive
  <2>5. Envs' = Envs
    BY <1>4, <2>1, <2>2, <2>3, <2>4 DEF EnvsLive
  <2> QED
    BY <1>1, <1>7, <2>5 DEF Abstract!svars
<1>11. CASE ectenvbk # b /\ op'[t].pc = "idle"
  <2>1. Unrolled'
    BY <1>1, <1>3, <1>11 DEF Unrolled, Working
  <2>2. EnvsLive'
    BY <2>1, EnvsAfter
  <2>3. DOMAIN Envs' = DOMAIN Envs \ {k}
    <3>1. \A n : n \in DOMAIN Envs' <=> n \in DOMAIN Envs /\ n # k
      BY <1>1, <1>4, <1>5, <1>9, <2>2 DEF EnvsLive
    <3> QED
      BY <3>1
  <2>4. ASSUME NEW n \in DOMAIN Envs \ {k} PROVE Envs'[n] = Envs[n]
    <3>1. PICK j \in SlotIx : LiveSlot(j) /\ n = slots[j].token
      BY <1>4 DEF EnvsLive
    <3>2. j # i /\ LiveSlot(j)' /\ slots'[j].token = n
      BY <1>1, <1>5, <3>1
    <3> QED
      BY <1>4, <1>6, <2>2, <3>1, <3>2 DEF EnvsLive
  <2>5. Envs' = [n \in DOMAIN Envs \ {k} |-> Envs[n]]
    BY <2>2, <2>3, <2>4 DEF EnvsLive
  <2> QED
    BY <1>1, <1>7, <1>8, <1>11, <2>5 DEF Abstract!Close
<1> QED
  BY <1>2, <1>10, <1>11

\* Step 4b: the anchor goes back to the TSO environment registered last before
\* the one that ends.
LEMMA RollbackSim ==
  ASSUME SerialInv, SerialInv', NEW t \in Tasks, TermRollback(t)
  PROVE  \E k \in DOMAIN Envs : Abstract!Close(k)
<1>0. PICK b \in Blocks, i \in SlotIx : b = op[t].b /\ i = op[t].slot
  BY TermRollbackIs
<1>1. /\ op[t].pc = "termRollback" /\ Working(t) /\ ~Slotted(b) /\ ~LiveSlot(i)
      /\ UNCHANGED <<isTso, slots, used, counter>>
      /\ op'[t].pc = "idle" /\ \A u \in Tasks \ {t} : op'[u] = op[u]
      /\ \A c \in Blocks \ {b} : env'[c] = env[c]
  BY <1>0, TermRollbackIs
<1>2. \A u \in Tasks \ {t} : ~Working(u)
  BY <1>1, OthersIdle
<1>3. Unrolled'
  BY <1>1, <1>2 DEF Unrolled, Working
<1>4. EnvsLive'
  BY <1>3, EnvsAfter
<1> DEFINE k == slots[i].token
<1>5. /\ \A n : n \in DOMAIN Envs <=>
            n = k \/ \E j \in SlotIx : LiveSlot(j) /\ n = slots[j].token
      /\ Envs[k] = Ended(t)
      /\ \A j \in SlotIx : LiveSlot(j) => Envs[slots[j].token] = Entry(j)
  BY <1>0, <1>1, EnvsWhileRolling DEF EnvsRolling
<1>6. k \in DOMAIN Envs /\ Envs[k].eb = b /\ ectenvbk = b
  <2>1. k \in DOMAIN Envs /\ Envs[k] = Ended(t)
    BY <1>5
  <2>2. ectenvbk = b
    BY <1>0, <1>1 DEF SerialInv, RollInv
  <2>3. Ended(t).eb = b
    BY <1>0 DEF Ended
  <2> QED
    BY <2>1, <2>2, <2>3
<1>7. ASSUME NEW j \in SlotIx, LiveSlot(j)
      PROVE  /\ LiveSlot(j)' /\ Entry(j)' = Entry(j)
             /\ slots[j].token \in Nat /\ k \in Nat /\ slots[j].token # k
             /\ slots[j].token < k <=> j < i
  <2>1. slots[j].eb \in Blocks \ {b} /\ slots'[j] = slots[j] /\ j # i
    BY <1>1, <1>7 DEF LiveSlot, Slotted
  <2>2. LiveSlot(j)' /\ Entry(j)' = Entry(j)
    BY <1>1, <1>7, <2>1 DEF Entry, LiveSlot
  <2>3. /\ slots[j].token \in Nat /\ slots[j].token > 0 /\ k \in Nat /\ k > 0
        /\ i < j \/ j < i
    BY <1>0, <1>1, <1>7, <2>1, LiveIs, SlotsAssumption
    DEF SlotIx, SerialInv, RollInv, RegInv, TypeOK, Slot
  <2>4. /\ j < i => slots[j].token < k
        /\ i < j => k < slots[j].token
    BY <2>3 DEF SerialInv, TokenInv, TokenOrder
  <2> QED
    BY <2>2, <2>3, <2>4, SlotsAssumption DEF SlotIx
<1>8. Envs' = [n \in DOMAIN Envs \ {k} |-> Envs[n]]
  <2>1. DOMAIN Envs' = DOMAIN Envs \ {k}
    <3>1. \A j \in SlotIx : LiveSlot(j)' <=> LiveSlot(j)
      BY <1>1 DEF LiveSlot
    <3>2. \A n : n \in DOMAIN Envs' <=> n \in DOMAIN Envs /\ n # k
      BY <1>1, <1>4, <1>5, <1>7, <3>1 DEF EnvsLive
    <3> QED
      BY <3>2
  <2>2. ASSUME NEW n \in DOMAIN Envs \ {k} PROVE Envs'[n] = Envs[n]
    <3>1. PICK j \in SlotIx : LiveSlot(j) /\ n = slots[j].token
      BY <1>5
    <3>2. LiveSlot(j)' /\ slots'[j].token = n /\ Entry(j)' = Entry(j)
      BY <1>1, <1>7, <3>1
    <3> QED
      BY <1>4, <1>5, <3>1, <3>2 DEF EnvsLive
  <2> QED
    BY <1>4, <2>1, <2>2 DEF EnvsLive
<1>9. Answers' = Answers
  BY <1>1 DEF Answers
<1>10. \A n : n \in Abstract!Predecessors(k) <=> \E j \in RollbackSlots(i) : n = slots[j].token
  <2>1. ASSUME NEW j \in SlotIx, LiveSlot(j)
        PROVE  Envs[slots[j].token].tso = TsoAttached(j)
    <3>1. Envs[slots[j].token] = Entry(j)
      BY <1>5, <2>1
    <3> QED
      BY <3>1 DEF Entry, TsoAttached
  <2>2. ~(k < k)
    BY <1>0 DEF SerialInv, RegInv, TypeOK, Slot
  <2> QED
    BY <1>5, <1>7, <2>1, <2>2 DEF Abstract!Predecessors, RollbackSlots
<1>11. CASE RollbackSlots(i) = {}
  <2>1. PreviousUsed(i) = {} /\ Abstract!Predecessors(k) = {}
    BY <1>10, <1>11 DEF PreviousUsed
  <2>2. ectenvbk' = None
    BY <1>0, <2>1 DEF TermRollback
  <2> QED
    BY <1>1, <1>6, <1>8, <1>9, <2>1, <2>2 DEF Abstract!Close
<1>12. CASE RollbackSlots(i) # {}
  <2>1. TotalSlots \in Nat /\ RollbackSlots(i) \subseteq 1 .. TotalSlots
    <3>1. \A j \in SlotIx : LiveSlot(j) => j \in 1 .. TotalSlots
      <4>1. ~LiveSlot(0)
        BY SlotsAssumption, LiveIs DEF SlotIx, Usables
      <4> QED
        BY <4>1, SlotsAssumption DEF SlotIx
    <3> QED
      BY <3>1, SlotsAssumption DEF RollbackSlots
  <2>2. PICK p \in RollbackSlots(i) : \A m \in RollbackSlots(i) : m <= p
    BY <1>12, <2>1, MaxExists
  <2>3. ectenvbk' \in PreviousUsed(i)
    BY <1>0, <2>2 DEF TermRollback, PreviousUsed
  <2>4. PICK q \in RollbackSlots(i) : /\ \A m \in RollbackSlots(i) : m <= q
                                      /\ ectenvbk' = slots[q].eb
    BY <2>3 DEF PreviousUsed
  <2>5. q \in SlotIx /\ LiveSlot(q) /\ slots[q].token \in Abstract!Predecessors(k)
    BY <1>10 DEF RollbackSlots
  <2>6. Envs[slots[q].token].eb = slots[q].eb
    <3>1. Envs[slots[q].token] = Entry(q)
      BY <1>5, <2>5
    <3> QED
      BY <3>1 DEF Entry
  <2>7. ASSUME NEW n \in Abstract!Predecessors(k) PROVE n <= slots[q].token
    <3>1. PICK j \in RollbackSlots(i) : n = slots[j].token
      BY <1>10
    <3>2. j \in SlotIx /\ LiveSlot(j) /\ j <= q
      BY <2>4 DEF RollbackSlots
    <3>3. /\ slots[j].token \in Nat /\ slots[q].token \in Nat
          /\ slots[j].token > 0 /\ slots[q].token > 0
      BY <2>5, <3>2, LiveIs
    <3>4. j < q \/ j = q
      BY <2>5, <3>2, SlotsAssumption DEF SlotIx
    <3> QED
      BY <2>5, <3>1, <3>2, <3>3, <3>4 DEF SerialInv, TokenInv, TokenOrder
  <2> QED
    BY <1>1, <1>6, <1>8, <1>9, <2>4, <2>5, <2>6, <2>7 DEF Abstract!Close
<1> QED
  BY <1>11, <1>12

LEMMA StepSim ==
  ASSUME PermChoices \subseteq {TRUE}, Serialized, SerialInv, SerialInv', [Next]_vars
  PROVE  [Abstract!Next]_(Abstract!svars)
<1> DEFINE Kept(u) == op[u].pc \in {"found", "termRollback"} \/
                      op'[u].pc \in {"found", "termRollback"} => op'[u] = op[u]
<1>1. op \in [Tasks -> Op] /\ env \in [Blocks -> EnvRec]
  BY DEF SerialInv, RegInv, TypeOK
<1>2. ASSUME NEW t \in Tasks, InitPrep(t) PROVE UNCHANGED Abstract!svars
  <2>1. /\ UNCHANGED <<isTso, slots, counter, ectenvbk>>
        /\ \A u \in Tasks : Kept(u)
        /\ \A b \in Blocks : Live(b) => env'[b].rent = env[b].rent
    BY <1>1, <1>2 DEF InitPrep, CanBegin, At, Live
  <2> QED
    BY <2>1, QuietSim
<1>3. ASSUME NEW t \in Tasks, NEW b \in Blocks, TermBegin(t, b) PROVE UNCHANGED Abstract!svars
  <2>1. /\ UNCHANGED <<isTso, slots, counter, ectenvbk>>
        /\ \A u \in Tasks : Kept(u)
        /\ \A c \in Blocks : Live(c) => env'[c].rent = env[c].rent
    BY <1>1, <1>3 DEF TermBegin, CanBegin, At, EnvRec
  <2> QED
    BY <2>1, QuietSim
<1>4. ASSUME NEW t \in Tasks, TaskEnd(t) PROVE UNCHANGED Abstract!svars
  <2>1. PICK left \in {"ghost", "none"} : env' = AfterTaskEnd(t, left)
    BY <1>4 DEF TaskEnd
  <2>2. ASSUME NEW c \in Blocks, Live(c) PROVE env'[c].rent = env[c].rent
    <3>1. env[c].perm /\ env[c] \in EnvRec
      BY <1>1, <2>2 DEF SerialInv, RegInv, Permanent
    <3>2. env'[c] = env[c] \/ env'[c] = [env[c] EXCEPT !.owner = None]
      BY <2>1, <3>1 DEF AfterTaskEnd
    <3> QED
      BY <3>1, <3>2 DEF EnvRec
  <2> QED
    BY <1>4, <2>2, QuietSim DEF TaskEnd
<1>5. ASSUME NEW t \in Tasks, TaskStart(t) PROVE UNCHANGED Abstract!svars
  BY <1>5, QuietSim DEF TaskStart
<1>6. ASSUME UNCHANGED vars PROVE UNCHANGED Abstract!svars
  BY <1>6, QuietSim DEF vars
<1>7. ASSUME NEW t \in Tasks, InitCommit(t) PROVE Abstract!Next
  BY <1>7, OpenSim DEF Abstract!Next
<1>8. ASSUME NEW t \in Tasks, FindBegin(t) \/ FindCached(t)
      PROVE  Abstract!Next \/ UNCHANGED Abstract!svars
  BY <1>8, FindBeginSim, FindCachedSim DEF Abstract!Next
<1>9. ASSUME NEW t \in Tasks, FindDone(t) PROVE Abstract!Next
  BY <1>9, FindDoneSim DEF Abstract!Next
<1>10. ASSUME NEW t \in Tasks, TermUnregister(t) \/ TermRollback(t)
       PROVE  Abstract!Next \/ UNCHANGED Abstract!svars
  BY <1>10, UnregisterSim, RollbackSim DEF Abstract!Next
<1>11. ASSUME ForeignClaim \/ ForeignRelease PROVE Abstract!Next
  BY <1>11, ForeignSim DEF Abstract!Next
<1> QED
  BY <1>2, <1>3, <1>4, <1>5, <1>6, <1>7, <1>8, <1>9, <1>10, <1>11 DEF Next

\* One service at a time, what programs see of the registry, the tokens, the
\* high-watermark and the cached anchor is EnvService: environments numbered in
\* the order of their registration, the newest answered, the anchor taken back
\* to the newest before the one that ends, and no more of them than slots.
THEOREM RegistryImplementsService ==
  ASSUME PermChoices \subseteq {TRUE}, Serialized
  PROVE  Spec => ImplementsEnvService
<1>1. SerialInv /\ SerialInv' /\ [Next]_vars => [Abstract!Next]_(Abstract!svars)
  BY StepSim
<1> QED
  BY <1>1, InitSim, SerialInvariant, PTL DEF Spec, ImplementsEnvService, Abstract!Spec
=============================================================================
