---------------------------- MODULE EnvRegistry ----------------------------
(***************************************************************************)
(* The IRXANCHR environment registry and the ECTENVBK anchor of one        *)
(* address space (src/src/irx#anch.c), as INITENVB, FINDENVB and CHEKENVB  *)
(* (src/src/irx#init.c) and IRXTERM (src/src/irx#term.c) use them.         *)
(*                                                                         *)
(* Tasks of the address space share the registry and the anchor.  The code *)
(* takes no lock: it relies on MVS 3.8j having one CPU and on there being  *)
(* no SVC inside a critical piece of code (irx#anch.c:136-140).  A step of *)
(* this module is therefore the code between two SVCs (the LOAD in         *)
(* irx_anchor_get_handle, GETMAIN, FREEMAIN, DELETE): tasks interleave     *)
(* where the code issues one.                                              *)
(*                                                                         *)
(* An ENVBLOCK is named by its storage address.  Addresses are reused once *)
(* their storage is freed, and so are TCB addresses.                       *)
(***************************************************************************)
EXTENDS Integers, FiniteSets

CONSTANTS
    Tasks,        \* TCB addresses
    Blocks,       \* addresses INITENVB's GETMAIN can return for an ENVBLOCK
    TotalSlots,   \* hdr->total, 64 in irxanchr.asm
    Sentinels,    \* slot indexes that are never allocated, {0, 2} in the code
    TsoChoices,   \* the kinds of address space: {TRUE}, {FALSE} or BOOLEAN
    PermChoices,  \* may an ENVBLOCK outlive its task (subpool 78) or not (0)
    Mortal,       \* the tasks that may end without calling IRXTERM
    Serialized,   \* TRUE: one environment service runs at a time
    None, Foreign, Free, Sentinel

ASSUME SlotsAssumption ==
    /\ TotalSlots \in Nat \ {0}
    /\ Sentinels \subseteq 0 .. (TotalSlots - 1)
    /\ 0 \in Sentinels

ASSUME ConstAssumption ==
    /\ TsoChoices \subseteq BOOLEAN
    /\ PermChoices \subseteq BOOLEAN
    /\ Mortal \subseteq Tasks
    /\ Serialized \in BOOLEAN
    /\ None \notin Tasks \cup Blocks
    /\ {Foreign, Free, Sentinel} \cap Blocks = {}
    /\ Foreign # None
    /\ Free # Sentinel

VARIABLES
    isTso,     \* is_tso(); also: the ECT, and with it ECTENVBK, is reachable
    slots,     \* the IRXANCHR table
    used,      \* hdr->used, the high-watermark
    counter,   \* the token counter in hdr->reserved
    ectenvbk,  \* ECTENVBK: an ENVBLOCK, a foreign anchor or None
    env,       \* what is at each ENVBLOCK address
    alive,     \* TCBs that exist
    op         \* the service call each task is in

vars == <<isTso, slots, used, counter, ectenvbk, env, alive, op>>

SlotIx == 0 .. (TotalSlots - 1)

\* A slot keeps token, tcb and the TSO flag when it is freed.
Slot == [eb : Blocks \cup {Free, Sentinel}, token : Nat,
         tcb : Tasks \cup {None}, tso : BOOLEAN]

\* "ghost": the storage was released at task end and not overwritten since.
\* pb: envblock_parmblock is set; rent: its RENTRANT flag.
EnvRec == [status : {"none", "live", "ghost"}, tso : BOOLEAN, rent : BOOLEAN,
           perm : BOOLEAN, pb : BOOLEAN, owner : Tasks \cup {None}]

NoEnv == [status |-> "none", tso |-> FALSE, rent |-> FALSE,
          perm |-> FALSE, pb |-> FALSE, owner |-> None]

Pcs == {"idle", "initCommit", "findCached", "found", "termUnreg", "termRollback"}
Idle == [pc |-> "idle", b |-> None, slot |-> 0]
Op == {Idle} \cup [pc : Pcs \ {"idle"}, b : Blocks, slot : SlotIx]
At(pc, b, i) == [pc |-> pc, b |-> b, slot |-> i]

-----------------------------------------------------------------------------
(* Reading the table.                                                      *)

\* Live: neither SLOT_FREE nor SLOT_SENTINEL.
LiveSlot(i) == slots[i].eb \in Blocks

\* The slot the scan 0..used-1 for an ENVBLOCK address stops at.
IsSlotOf(i, b) ==
    /\ i < used /\ slots[i].eb = b
    /\ \A j \in SlotIx : j < i => slots[j].eb # b

Registered(b) == \E i \in SlotIx : IsSlotOf(i, b)

EyeOK(b) == env[b].status \in {"live", "ghost"}

\* The parmblock pointer is tested before its RENTRANT bit is.
NonReentrantUnchecked(b) == TRUE
NonReentrant(b) == ~(env[b].pb /\ env[b].rent)

\* CHEKENVB; irx_init_term begins with the same test.
Chek(b) == EyeOK(b) /\ Registered(b)

OfTask(i, t) == slots[i].tcb = t
TsoAttached(i) == slots[i].tso

Usable(i) ==
    i < used /\ LiveSlot(i) /\ EyeOK(slots[i].eb) /\ NonReentrant(slots[i].eb)

NewestFirstWins(i, S) == i \in S /\ \A j \in S : slots[j].token >= slots[i].token
Newest(i, S) == i \in S /\ \A j \in S : slots[j].token <= slots[i].token

OwnSlots(t) == {i \in SlotIx : Usable(i) /\ OfTask(i, t)}
TsoSlots == {i \in SlotIx : Usable(i) /\ TsoAttached(i)}

\* First free slot at or above the high-watermark: freed slots stay unused.
ScanStartRecycling == 1
ScanStart == IF used < 1 THEN 1 ELSE used
OpenSlots == {i \in SlotIx : i >= ScanStart /\ slots[i].eb = Free}
IsNextSlot(i) == i \in OpenSlots /\ \A j \in OpenSlots : i <= j

\* The ECTENVBK rollback target: the nearest lower live TSO-attached slot.
RollbackSlots(i) == {j \in SlotIx : j < i /\ LiveSlot(j) /\ TsoAttached(j)}
PreviousUsedAny(i) ==
    {slots[j].eb : j \in {k \in SlotIx : k < i /\ LiveSlot(k)
                            /\ \A m \in SlotIx : m < i /\ LiveSlot(m) => m <= k}}
PreviousUsed(i) ==
    {slots[j].eb : j \in {k \in RollbackSlots(i) :
                            \A m \in RollbackSlots(i) : m <= k}}

-----------------------------------------------------------------------------
Init ==
    /\ isTso \in TsoChoices
    /\ slots = [i \in SlotIx |->
                  [eb |-> IF i \in Sentinels THEN Sentinel ELSE Free,
                   token |-> 0, tcb |-> None, tso |-> FALSE]]
    /\ used = 0
    /\ counter = 0
    /\ ectenvbk \in IF isTso THEN {None, Foreign} ELSE {None}
    /\ env = [b \in Blocks |-> NoEnv]
    /\ alive = Tasks
    /\ op = [t \in Tasks |-> Idle]

Undisturbed == Serialized => \A u \in Tasks : op[u].pc \in {"idle", "found"}
CanBegin(t) == t \in alive /\ op[t].pc = "idle" /\ Undisturbed

-----------------------------------------------------------------------------
(* INITENVB.  Steps 1-6 build the environment in storage of its own; the   *)
(* flags come from the caller, the previous environment or the module      *)
(* defaults, so any combination can result.  Steps 7 and 8 register and    *)
(* anchor it without an SVC between them.                                  *)

InitPrep(t) ==
    /\ CanBegin(t)
    /\ \E b \in Blocks, tso, rent \in BOOLEAN, perm \in PermChoices :
          /\ env[b].status # "live"
          /\ env' = [env EXCEPT ![b] = [status |-> "live", tso |-> tso,
                        rent |-> rent, perm |-> perm, pb |-> TRUE, owner |-> t]]
          /\ op' = [op EXCEPT ![t] = At("initCommit", b, 0)]
    /\ UNCHANGED <<isTso, slots, used, counter, ectenvbk, alive>>

HighWaterOffByOne(i) == used' = i + 2
HighWater(i) == used' = IF used < i + 1 THEN i + 1 ELSE used

NextTokenUncounted == counter' = counter
NextToken == counter' = counter + 1

\* irx_anchor_alloc_slot; IRX_ANCHOR_RC_FULL is not an error to its caller.
AllocSlot(b, t, tso) ==
    \/ \E i \in SlotIx :
          /\ IsNextSlot(i)
          /\ NextToken
          /\ slots' = [slots EXCEPT ![i] =
                         [eb |-> b, token |-> counter + 1, tcb |-> t, tso |-> tso]]
          /\ HighWater(i)
    \/ OpenSlots = {} /\ UNCHANGED <<slots, used, counter>>

InitCommit(t) ==
    /\ op[t].pc = "initCommit"
    /\ LET b == op[t].b IN
          /\ AllocSlot(b, t, env[b].tso)
          /\ ectenvbk' = IF env[b].tso /\ isTso THEN b ELSE ectenvbk
    /\ op' = [op EXCEPT ![t] = Idle]
    /\ UNCHANGED <<isTso, env, alive>>

-----------------------------------------------------------------------------
(* FINDENVB: the caller's own environments, then the ECTENVBK cache, then  *)
(* any TSO-attached environment.  rc 4 (nothing found) changes nothing.    *)

Found(t, b) == op' = [op EXCEPT ![t] = At("found", b, 0)]

\* Stage 1b secondary; it also refreshes the cache.  is_tso() issues SVCs, but
\* what was read before it is not used after it.
FindSecondary(t) ==
    IF isTso /\ TsoSlots # {}
    THEN \E i \in TsoSlots :
            /\ Newest(i, TsoSlots)
            /\ ectenvbk' = slots[i].eb
            /\ Found(t, slots[i].eb)
    ELSE op' = [op EXCEPT ![t] = Idle] /\ UNCHANGED ectenvbk

\* The eye-catcher of the cached pointer is checked before the LOAD in
\* irx_anchor_find_by_envblock, its registration after it.
CacheCandidate == isTso /\ ectenvbk \in Blocks /\ EyeOK(ectenvbk)

FindBegin(t) ==
    /\ CanBegin(t)
    /\ \/ \E i \in OwnSlots(t) :
             /\ Newest(i, OwnSlots(t))
             /\ Found(t, slots[i].eb)
             /\ UNCHANGED ectenvbk
       \/ /\ OwnSlots(t) = {} /\ CacheCandidate
          /\ op' = [op EXCEPT ![t] = At("findCached", ectenvbk, 0)]
          /\ UNCHANGED ectenvbk
       \/ /\ OwnSlots(t) = {} /\ ~CacheCandidate
          /\ FindSecondary(t)
    /\ UNCHANGED <<isTso, slots, used, counter, env, alive>>

CacheHitUnregistered(b) == NonReentrant(b)
CacheHit(b) ==
    \E i \in SlotIx : IsSlotOf(i, b) /\ TsoAttached(i) /\ NonReentrant(b)

FindCached(t) ==
    /\ op[t].pc = "findCached"
    /\ IF CacheHit(op[t].b)
       THEN Found(t, op[t].b) /\ UNCHANGED ectenvbk
       ELSE FindSecondary(t)
    /\ UNCHANGED <<isTso, slots, used, counter, env, alive>>

\* FINDENVB returns to its caller.
FindDone(t) ==
    /\ op[t].pc = "found"
    /\ op' = [op EXCEPT ![t] = Idle]
    /\ UNCHANGED <<isTso, slots, used, counter, ectenvbk, env, alive>>

-----------------------------------------------------------------------------
(* IRXTERM.  A bad eye-catcher or an unregistered ENVBLOCK is rejected     *)
(* (rc 20) and changes nothing.  A caller has its pointer from INITENVB or *)
(* FINDENVB, and no two callers terminate the same environment at once.    *)

BusyWith(b) == \E u \in Tasks :
    op[u].pc \in {"initCommit", "termUnreg", "termRollback"} /\ op[u].b = b

\* Steps 1-3: look the slot up, then release what hangs off the ENVBLOCK.
TermBegin(t, b) ==
    /\ CanBegin(t)
    /\ ~BusyWith(b)
    /\ Chek(b)
    /\ \E i \in SlotIx :
          /\ IsSlotOf(i, b)
          /\ op' = [op EXCEPT ![t] = At("termUnreg", b, i)]
    /\ env' = [env EXCEPT ![b].pb = FALSE]
    /\ UNCHANGED <<isTso, slots, used, counter, ectenvbk, alive>>

FreeSlotForgotten(b) == UNCHANGED slots
FreeSlot(b) ==
    \E i \in SlotIx :
        IsSlotOf(i, b) /\ slots' = [slots EXCEPT ![i].eb = Free]

NeedsRollbackNever(i, b) == FALSE
NeedsRollback(i, b) == TsoAttached(i) /\ isTso /\ ectenvbk = b

\* Step 4a and the test of step 4b; step 5 when there is nothing to roll back.
TermUnregister(t) ==
    /\ op[t].pc = "termUnreg"
    /\ LET b == op[t].b IN
          /\ FreeSlot(b)
          /\ IF NeedsRollback(op[t].slot, b)
             THEN /\ op' = [op EXCEPT ![t].pc = "termRollback"]
                  /\ UNCHANGED env
             ELSE /\ op' = [op EXCEPT ![t] = Idle]
                  /\ env' = [env EXCEPT ![b] = NoEnv]
    /\ UNCHANGED <<isTso, used, counter, ectenvbk, alive>>

\* The rest of step 4b, after the LOAD in irx_anchor_find_previous_used, and
\* step 5.  ECTENVBK is not looked at again.
TermRollback(t) ==
    /\ op[t].pc = "termRollback"
    /\ IF PreviousUsed(op[t].slot) = {}
       THEN ectenvbk' = None
       ELSE ectenvbk' \in PreviousUsed(op[t].slot)
    /\ env' = [env EXCEPT ![op[t].b] = NoEnv]
    /\ op' = [op EXCEPT ![t] = Idle]
    /\ UNCHANGED <<isTso, slots, used, counter, alive>>

-----------------------------------------------------------------------------
(* The surroundings.                                                       *)

\* BREXX/370 anchors itself in the same slot, and clears its own anchor.
ForeignClaim ==
    /\ isTso /\ Undisturbed
    /\ ectenvbk' = Foreign
    /\ UNCHANGED <<isTso, slots, used, counter, env, alive, op>>

ForeignRelease ==
    /\ ectenvbk = Foreign /\ Undisturbed
    /\ ectenvbk' = None
    /\ UNCHANGED <<isTso, slots, used, counter, env, alive, op>>

\* A task ends without IRXTERM: what it got in subpool 0 goes with it, and
\* the bytes stay until something else is put there, or do not.
AfterTaskEnd(t, left) ==
    [b \in Blocks |->
        IF env[b].status # "live" \/ env[b].owner # t THEN env[b]
        ELSE IF env[b].perm THEN [env[b] EXCEPT !.owner = None]
        ELSE IF left = "ghost" THEN [env[b] EXCEPT !.status = "ghost", !.owner = None]
        ELSE NoEnv]

TaskEnd(t) ==
    /\ t \in Mortal
    /\ CanBegin(t)
    /\ \A b \in Blocks : env[b].owner = t => ~BusyWith(b)
    /\ alive' = alive \ {t}
    /\ \E left \in {"ghost", "none"} : env' = AfterTaskEnd(t, left)
    /\ UNCHANGED <<isTso, slots, used, counter, ectenvbk, op>>

\* ATTACH; the new TCB may get the address of one that ended.
TaskStart(t) ==
    /\ t \notin alive
    /\ alive' = alive \cup {t}
    /\ UNCHANGED <<isTso, slots, used, counter, ectenvbk, env, op>>

Next ==
    \/ \E t \in Tasks :
          \/ InitPrep(t) \/ InitCommit(t)
          \/ FindBegin(t) \/ FindCached(t) \/ FindDone(t)
          \/ TermUnregister(t) \/ TermRollback(t)
          \/ TaskEnd(t) \/ TaskStart(t)
          \/ \E b \in Blocks : TermBegin(t, b)
    \/ ForeignClaim
    \/ ForeignRelease

Spec == Init /\ [][Next]_vars
-----------------------------------------------------------------------------
(* Properties.                                                             *)

\* The types of the variables.
TypeOK ==
    /\ isTso \in BOOLEAN
    /\ slots \in [SlotIx -> Slot]
    /\ used \in 0 .. TotalSlots
    /\ counter \in Nat
    /\ ectenvbk \in Blocks \cup {None, Foreign}
    /\ env \in [Blocks -> EnvRec]
    /\ alive \in SUBSET Tasks
    /\ op \in [Tasks -> Op]

\* The registry lists exactly the environments in existence: every live slot
\* names a live ENVBLOCK, no ENVBLOCK is in two slots, and a live ENVBLOCK is
\* missing only while INITENVB or IRXTERM works on it or when the table was
\* full (irx#init.c step 7, irx#term.c step 4a).
RegistryExact ==
    /\ \A i \in SlotIx : LiveSlot(i) => i < used /\ env[slots[i].eb].status = "live"
    /\ \A i, j \in SlotIx : LiveSlot(i) /\ slots[i].eb = slots[j].eb => i = j
    /\ \A b \in Blocks : env[b].status = "live" =>
          Registered(b) \/ BusyWith(b) \/ OpenSlots = {}

\* ECTENVBK never points at an ENVBLOCK that was freed or is not TSO-attached,
\* in whatever order tasks initialise and terminate (irx#term.c step 4b,
\* irx#init.c step 8 and FINDENVB's cache refresh).
AnchorNotDangling ==
    ectenvbk \in Blocks => env[ectenvbk].status = "live" /\ env[ectenvbk].tso

\* A later slot has a larger token: the order of slot indexes that the IRXTERM
\* rollback walks and the order of tokens FINDENVB takes the maximum of agree.
TokenOrder ==
    \A i, j \in SlotIx :
        /\ (i < j /\ slots[i].token > 0 /\ slots[j].token > 0)
              => slots[i].token < slots[j].token
        /\ slots[i].token <= counter

\* A slot that was freed is never allocated again ("never recycled",
\* irx#anch.c:271), so the token of a slot identifies one environment.
NeverRecycled ==
    [][\A i \in SlotIx : slots[i].token > 0 => slots'[i].token = slots[i].token]_vars

\* When FINDENVB answers, the answer is registered at that moment and is the
\* caller's own or TSO-attached, whatever other tasks did since it read
\* ECTENVBK (irx#init.c:975-1015).
FindAnswersRegistered ==
    [][\A t \in Tasks :
          op[t].pc # "found" /\ op'[t].pc = "found" =>
             \E i \in SlotIx :
                IsSlotOf(i, op'[t].b) /\ (OfTask(i, t) \/ TsoAttached(i))]_vars

\* FINDENVB answers only with non-reentrant environments (irx#init.c:956).
FindNeverReentrant ==
    [][\A t \in Tasks :
          op[t].pc # "found" /\ op'[t].pc = "found" => ~env[op'[t].b].rent]_vars

\* IRXTERM modifies ECTENVBK only when it points at the terminating
\* environment (irxanchr.h:44-45, architecture.md 6.1).
RollbackGuarded ==
    [][\A t \in Tasks :
          op[t].pc = "termRollback" /\ op'[t].pc = "idle" => ectenvbk = op[t].b]_vars

\* The cache stage of FINDENVB does not return an environment whose storage is
\* gone ("guards against a freed env", irx#init.c:976).
CacheAnswersLive ==
    [][\A t \in Tasks :
          op[t].pc = "findCached" /\ op'[t].pc = "found" =>
             env[op'[t].b].status = "live"]_vars
=============================================================================
