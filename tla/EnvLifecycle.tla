---------------------------- MODULE EnvLifecycle ----------------------------
(***************************************************************************)
(* How one task builds and takes down environments: INITENVB               *)
(* (src/src/irx#init.c) GETMAINs one control block after another and LOADs *)
(* the replaceable routines, any of which may fail; IRXTERM                *)
(* (src/src/irx#term.c) gives everything back.                             *)
(*                                                                         *)
(* There are two doors to each: the C functions irxinit() / irxterm(), and *)
(* the load modules IRXINIT (irx_init_dispatch) and IRXTERM                *)
(* (asm/irxterm.asm, which calls irx_init_term).  The registry is reduced  *)
(* here to who is in it and how many slots are left; EnvRegistry models it.*)
(***************************************************************************)
EXTENDS Integers, FiniteSets

CONSTANTS
    Blocks,       \* addresses an ENVBLOCK can have
    Capacity,     \* usable slots of the registry; 62 in irxanchr.asm
    Doors,        \* the doors in use, a subset of {"c", "module"}
    TsoChoices,   \* is_tso()
    Idle, Blank

\* The storage an environment owns, in the order it is acquired.
CoreKinds == {"env", "parm", "modnamet", "exte"}
SubcomtbKinds == {"subhdr", "subent"}
WorkKinds == {"wkblk", "pool"}   \* pool: what irx_lstr_init and execs hang off it
Kinds == CoreKinds \cup SubcomtbKinds \cup WorkKinds

\* The MODNAMET slots INITENVB honours.
Slots == {"iorout", "exrout", "idrout", "msgidrt"}
Routines == {"IRXIOTSO", "IRXLDTSO", "IRXINOUT", "IRXUID", "IRXMSGID"}
NoNames == [s \in Slots |-> Blank]

ASSUME LifecycleAssumption ==
    /\ Capacity \in Nat
    /\ Doors \subseteq {"c", "module"}
    /\ TsoChoices \subseteq BOOLEAN
    /\ Idle \notin Blocks
    /\ Blank \notin Routines

VARIABLES
    isTso,       \* is_tso()
    heap,        \* the storage each environment has acquired and not freed
    names,       \* its MODNAMET copy
    active,      \* the routine pointers in its IRXEXTE
    uses,        \* use count of each load module
    registered,  \* environments in an IRXANCHR slot
    left,        \* slots never allocated so far
    held,        \* environments INITENVB returned with rc 0 and IRXTERM did not end
    call         \* the INITENVB in progress

vars == <<isTso, heap, names, active, uses, registered, left, held, call>>

NoCall == [b |-> Idle, pc |-> "none", door |-> "c", loaded |-> FALSE]

Pcs == {"none", "env", "parm", "modnamet", "exte", "overrides", "defaults",
        "register", "subhdr", "subent", "wkblk", "cleanup", "undo"}

Init ==
    /\ isTso \in TsoChoices
    /\ heap = [b \in Blocks |-> {}]
    /\ names = [b \in Blocks |-> NoNames]
    /\ active = [b \in Blocks |-> NoNames]
    /\ uses = [r \in Routines |-> 0]
    /\ registered = {}
    /\ left = Capacity
    /\ held = {}
    /\ call = NoCall

\* LOAD raises, and DELETE lowers, the use count of a module by one for each
\* slot that names it.
NameCount(n, r) == Cardinality({s \in Slots : n[s] = r})
Loaded(n) == uses' = [r \in Routines |-> uses[r] + NameCount(n, r)]
Deleted(n) == uses' = [r \in Routines |-> uses[r] - NameCount(n, r)]

-----------------------------------------------------------------------------
(* INITENVB.                                                               *)

\* What the parameter modules IRXTSPRM and IRXPARMS name.
ParmNames == [s \in Slots |-> IF s = "exrout" THEN "IRXLDTSO"
                              ELSE IF s = "iorout" /\ isTso THEN "IRXIOTSO"
                              ELSE Blank]

\* Steps 1-3.  A previous environment, or a parameter module that cannot be
\* loaded, leaves the names blank; otherwise they are the parameter module's.
\* They are staged here and copied to the MODNAMET in step 5.
StagedNames == {NoNames, ParmNames}

Begin(b, door) ==
    /\ call = NoCall
    /\ heap[b] = {}
    /\ door \in Doors
    /\ \E staged \in StagedNames : names' = [names EXCEPT ![b] = staged]
    /\ call' = [b |-> b, pc |-> "env", door |-> door, loaded |-> FALSE]
    /\ UNCHANGED <<isTso, heap, active, uses, registered, left, held>>

\* No storage for an ENVBLOCK: step 4 fails, reason 1, and nothing changes.
NoEnvblock ==
    /\ call = NoCall
    /\ \A b \in Blocks : heap[b] # {}
    /\ UNCHANGED vars

\* The pc after each GETMAIN that succeeds.
AfterGet == [env |-> "parm", parm |-> "modnamet", modnamet |-> "exte",
             exte |-> "overrides", subhdr |-> "subent", subent |-> "wkblk",
             wkblk |-> "none"]

Goto(pc) == call' = IF pc = "none" THEN NoCall ELSE [call EXCEPT !.pc = pc]

\* Steps 4-6 and irx_init_finish: the next GETMAIN succeeds.  The call is
\* over, rc 0, when the work block is there.
Get ==
    /\ call.pc \in DOMAIN AfterGet
    /\ heap' = [heap EXCEPT ![call.b] = @ \cup {call.pc}]
    /\ Goto(AfterGet[call.pc])
    /\ held' = IF call.pc = "wkblk" THEN held \cup {call.b} ELSE held
    /\ UNCHANGED <<isTso, names, active, uses, registered, left>>

\* Before step 7 INITENVB cleans up after itself.  When irx_init_finish
\* fails, irxinit() calls irxterm(); the module returns rc 20 at once.
FinishFailedLeft(door) == "none"
FinishFailed(door) == IF door = "c" THEN "undo" ELSE "none"

\* The next GETMAIN fails.  init_subcomtb frees its header itself.
GetFails ==
    /\ call.pc \in DOMAIN AfterGet
    /\ heap' = IF call.pc = "subent"
               THEN [heap EXCEPT ![call.b] = @ \ {"subhdr"}] ELSE heap
    /\ Goto(IF call.pc \in CoreKinds THEN "cleanup" ELSE FinishFailed(call.door))
    /\ UNCHANGED <<isTso, names, active, uses, registered, left, held>>

\* Step 6, overrides: each named routine that can be LOADed becomes active,
\* the name of one that cannot is blanked.
LoadOverridesKeepNames(found) == UNCHANGED names
LoadOverrides(found) ==
    names' = [names EXCEPT ![call.b] =
                 [s \in Slots |-> IF s \in found THEN @[s] ELSE Blank]]

Overrides ==
    /\ call.pc = "overrides"
    /\ \E found \in SUBSET {s \in Slots : names[call.b][s] # Blank} :
          LET wired == [s \in Slots |->
                            IF s \in found THEN names[call.b][s] ELSE Blank] IN
          /\ LoadOverrides(found)
          /\ active' = [active EXCEPT ![call.b] = wired]
          /\ Loaded(wired)
    /\ call' = [call EXCEPT !.pc = "defaults", !.loaded = TRUE]
    /\ UNCHANGED <<isTso, heap, registered, left, held>>

Default == [idrout |-> "IRXUID", msgidrt |-> "IRXMSGID", iorout |-> "IRXINOUT"]

\* Step 6, defaults: where no override is active the default is LOADed and
\* its name recorded.  Only a missing IRXINOUT is an error (reason 21).
Defaults ==
    /\ call.pc = "defaults"
    /\ LET b == call.b
           open == {s \in DOMAIN Default : active[b][s] = Blank} IN
       \E found \in SUBSET open :
          LET wired == [s \in Slots |->
                            IF s \in found THEN Default[s] ELSE Blank] IN
          /\ active' = [active EXCEPT ![b] =
                          [s \in Slots |-> IF s \in found THEN wired[s] ELSE @[s]]]
          /\ names' = [names EXCEPT ![b] =
                          [s \in Slots |-> IF s \in found THEN wired[s] ELSE @[s]]]
          /\ Loaded(wired)
          /\ Goto(IF "iorout" \in open \ found THEN "cleanup" ELSE "register")
    /\ UNCHANGED <<isTso, heap, registered, left, held>>

\* Steps 7-9.  A full table is not an error.
Register ==
    /\ call.pc = "register"
    /\ IF left > 0
       THEN registered' = registered \cup {call.b} /\ left' = left - 1
       ELSE UNCHANGED <<registered, left>>
    /\ Goto("subhdr")
    /\ UNCHANGED <<isTso, heap, names, active, uses, held>>

\* The cleanup label: DELETE what step 6 LOADed, then free what was acquired.
\* Before step 6 the names are still the parameter module's.
DeletesUnguarded(b) == Deleted(names[b])
Deletes(b) == IF call.loaded THEN Deleted(names[b]) ELSE UNCHANGED uses

CleanupFreesNoModnamet == CoreKinds \ {"modnamet"}
CleanupFrees == CoreKinds

Cleanup ==
    /\ call.pc = "cleanup"
    /\ Deletes(call.b)
    /\ heap' = [heap EXCEPT ![call.b] = @ \ CleanupFrees]
    /\ names' = [names EXCEPT ![call.b] = NoNames]
    /\ active' = [active EXCEPT ![call.b] = NoNames]
    /\ call' = NoCall
    /\ UNCHANGED <<isTso, registered, left, held>>

-----------------------------------------------------------------------------
(* IRXTERM.                                                                *)

\* irx_init_term: an ENVBLOCK that is not registered is refused, rc 20.
\* irxterm() frees the work block with its pool, and SUBCOMTB, before it.
WrapperFreesNoPool(door) == SubcomtbKinds \cup {"wkblk"}
WrapperFrees(door) == IF door = "c" THEN SubcomtbKinds \cup WorkKinds ELSE {}

CoreTerm(b, door) ==
    IF b \in registered
    THEN /\ heap' = [heap EXCEPT ![b] = (@ \ WrapperFrees(door)) \ CoreKinds]
         /\ Deleted(names[b])
         /\ names' = [names EXCEPT ![b] = NoNames]
         /\ active' = [active EXCEPT ![b] = NoNames]
         /\ registered' = registered \ {b}
         /\ held' = held \ {b}
    ELSE /\ heap' = [heap EXCEPT ![b] = @ \ WrapperFrees(door)]
         /\ UNCHANGED <<names, active, uses, registered, held>>

\* A caller ends an environment INITENVB or FINDENVB gave it.
Term(b, door) ==
    /\ call = NoCall
    /\ door \in Doors
    /\ b \in held \cup registered
    /\ CoreTerm(b, door)
    /\ UNCHANGED <<isTso, left, call>>

\* irxinit() after irx_init_finish failed.
Undo ==
    /\ call.pc = "undo"
    /\ CoreTerm(call.b, "c")
    /\ call' = NoCall
    /\ UNCHANGED <<isTso, left>>

\* IRXEXEC needs the work block; irx_lstr_init hangs the bridge and the pooled
\* string buffers off it.
Exec(b) ==
    /\ call = NoCall
    /\ b \in held \cup registered
    /\ "wkblk" \in heap[b]
    /\ heap' = [heap EXCEPT ![b] = @ \cup {"pool"}]
    /\ UNCHANGED <<isTso, names, active, uses, registered, left, held, call>>

Next ==
    \/ \E b \in Blocks :
          \/ \E door \in Doors : Begin(b, door) \/ Term(b, door)
          \/ Exec(b)
    \/ NoEnvblock
    \/ Get \/ GetFails \/ Overrides \/ Defaults \/ Register \/ Cleanup \/ Undo

Spec == Init /\ [][Next]_vars
-----------------------------------------------------------------------------
(* Properties.                                                             *)

NoCalls == call = NoCall

\* The types of the variables; a use count never goes below zero.
TypeOK ==
    /\ isTso \in BOOLEAN
    /\ heap \in [Blocks -> SUBSET Kinds]
    /\ names \in [Blocks -> [Slots -> Routines \cup {Blank}]]
    /\ active \in [Blocks -> [Slots -> Routines \cup {Blank}]]
    /\ uses \in [Routines -> Nat]
    /\ registered \subseteq Blocks
    /\ left \in 0 .. Capacity
    /\ held \subseteq Blocks
    /\ call \in [b : Blocks \cup {Idle}, pc : Pcs, door : {"c", "module"},
                 loaded : BOOLEAN]

\* A routine is loaded exactly as often as environments point at it: IRXTERM
\* and the cleanup of INITENVB leak no use count, and never DELETE a module
\* another environment still calls (irx#init.c:797-799, irx#term.c:122-135).
UsesBacked ==
    \A r \in Routines :
        uses[r] = Cardinality({p \in Blocks \X Slots : active[p[1]][p[2]] = r})

\* Between calls all storage belongs to an environment some caller was given
\* with rc 0: an INITENVB that failed half-way left nothing behind.  The
\* exception is an environment that found the registry full: IRXTERM refuses
\* it (irx#term.c step 2).
NoOrphans ==
    NoCalls => \A b \in Blocks :
        heap[b] # {} => b \in held \/ (left = 0 /\ b \notin registered)

\* What FINDENVB can return between calls has the work block and SUBCOMTB
\* IRXEXEC needs (irx_init_finish).
ReadyToRun ==
    NoCalls => \A b \in registered : SubcomtbKinds \cup {"wkblk"} \subseteq heap[b]

\* When an ENVBLOCK is freed nothing else of its environment is left: SUBCOMTB,
\* the work block and the string pool went before it (architecture.md 6.4).
NothingOutlivesEnvblock ==
    [][\A b \in Blocks :
          "env" \in heap[b] /\ "env" \notin heap'[b] => heap'[b] = {}]_vars
=============================================================================
