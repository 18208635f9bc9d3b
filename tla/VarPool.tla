------------------------------ MODULE VarPool ------------------------------
(***************************************************************************)
(* The variable pools of one exec (src/src/irx#vpol.c) as the bytecode VM  *)
(* (src/src/irx#bvm.c) uses them: CALL, PROCEDURE EXPOSE, RETURN, SIGNAL   *)
(* and the end of the exec create and destroy pools, assignment and DROP   *)
(* change them, and OP_LOAD reads simple variables through a cache of      *)
(* bucket-entry pointers.                                                  *)
(*                                                                         *)
(* The pools form a stack: the parent of a pool is the pool below it.  A   *)
(* pool has at most one entry for a name, so an entry is named by its pool *)
(* and its variable.  Buckets, hashing and lengths are left out.           *)
(***************************************************************************)
EXTENDS Integers, Sequences, FiniteSets, FiniteSetsExt

CONSTANTS
    Simple,      \* names without a dot
    StemOf,      \* [compound names -> stems]
    RESULT, SIGL, RC,   \* the simple names the VM itself assigns
    Mentions,    \* the names in the program's text
    Values,
    Number,      \* what the VM assigns to SIGL and RC
    Addrs,       \* addresses a pool can get
    MaxCalls,    \* bound on active calls; 250 in the code
    MaxGen,      \* bound up to which a pool's generation is told apart
    ProcFirst,   \* PROCEDURE occurs only right after a label
    Overlap,     \* EXPOSE may name a tail whose stem is exposed too
    Absent, Unset, Ref, Dangling, None

Compounds == DOMAIN StemOf
Stems == {StemOf[n] : n \in Compounds}
Names == Simple \cup Stems \cup Compounds

ASSUME PoolAssumption ==
    /\ Cardinality({RESULT, SIGL, RC}) = 3 /\ {RESULT, SIGL, RC} \subseteq Simple
    /\ Mentions \subseteq Names /\ Number \in Values
    /\ Simple \cap (Stems \cup Compounds) = {}
    /\ Stems \cap Compounds = {} /\ IsFiniteSet(Names)
    /\ MaxCalls \in Nat /\ MaxGen \in Nat
    /\ ProcFirst \in BOOLEAN /\ Overlap \in BOOLEAN
    /\ None \notin Addrs
    /\ Cardinality({Absent, Unset, Ref, Dangling}) = 4
    /\ {Absent, Unset, Ref, Dangling} \cap Values = {}

VARIABLES
    scopes,   \* the pools, the exec's own first
    frames,   \* call_frames
    cache,    \* var_cache, the slot of each simple name in the symbol table
    at        \* where the VM is: see Places

vars == <<scopes, frames, cache, at>>

\* "label": just called; "expose": PROCEDURE or EXPOSE was the last opcode.
Places == {"label", "expose", "body", "ended"}

\* Unset: an EXPOSE placeholder; Ref: exposed_ref points at the entry of the
\* same name in the parent; Dangling: that entry was freed.
Entry == Values \cup {Absent, Unset, Ref, Dangling}
NewPool(a) == [addr |-> a, gen |-> 0, exposed |-> {}, entry |-> [n \in Names |-> Absent]]

\* ok: the entry the slot points at has not been freed.
NoSlot == [addr |-> None, gen |-> 0, ok |-> FALSE]
Cached == Simple \cap Mentions
Flushed == [n \in Cached |-> NoSlot]

Top(s) == s[Len(s)]
Depth == Len(scopes)

-----------------------------------------------------------------------------
(* Looking a name up.  The operators take the stack of pools as it is at   *)
(* that point of the operation.                                            *)

StemsOf(n) == {m \in Stems : n = m \/ (n \in Compounds /\ StemOf[n] = m)}
Under(m) == {n \in Names : m \in StemsOf(n)}

\* matches_exposed_stem
Delegates(s, k, n) == StemsOf(n) \cap s[k].exposed # {}

\* The pool an access at level k ends in: each exposed stem passes it down.
HomeOnce(s, k, n) == IF Delegates(s, k, n) THEN k - 1 ELSE k
Home(s, k, n) == Max({j \in 1 .. k : ~Delegates(s, j, n)})

\* resolve_ref, from the entry at level k.
Target(s, k, n) == Max({j \in 1 .. k : s[j].entry[n] # Ref})

IsSet(s, k, n) ==
    s[k].entry[n] # Absent /\ s[Target(s, k, n)].entry[n] \in Values

GetNoDefault(s, n) ==
    LET k == Home(s, Len(s), n) IN
        IF IsSet(s, k, n) THEN s[Target(s, k, n)].entry[n] ELSE Unset

\* vpool_get, vpool_get_buf: a compound name falls back on its stem's entry in
\* the same pool.
Get(s, n) ==
    LET k == Home(s, Len(s), n)
        found == {m \in {n} \cup StemsOf(n) : IsSet(s, k, m)} IN
    IF n \in found THEN s[Target(s, k, n)].entry[n]
    ELSE IF found = {} THEN Unset
    ELSE LET m == CHOOSE m \in found : TRUE IN s[Target(s, k, m)].entry[m]

-----------------------------------------------------------------------------
(* Changing pools.                                                         *)

BumpBackwards(g, d) == g - d
Bump(g, d) == IF g + d > MaxGen THEN MaxGen ELSE g + d

\* The entry of n in the pool at level k becomes e, and its generation moves by d.
Put(s, k, n, e, d) ==
    [j \in DOMAIN s |->
        IF j # k THEN s[j]
        ELSE [s[j] EXCEPT !.entry = [m \in Names |-> IF m = n THEN e ELSE @[m]],
                          !.gen = Bump(@, d)]]

FreedKeepsGeneration(s, F) ==
    [k \in DOMAIN s |->
        [s[k] EXCEPT !.entry = [n \in Names |->
            IF <<k, n>> \in F THEN Absent
            ELSE IF @[n] = Ref /\ <<k - 1, n>> \in F THEN Dangling
            ELSE @[n]]]]

\* Entries F are unlinked and freed, each bumps its pool's generation; what
\* referred to one and is not freed with it dangles.
Freed(s, F) ==
    [k \in DOMAIN s |->
        [s[k] EXCEPT
            !.gen = Bump(@, Cardinality({n \in Names : <<k, n>> \in F})),
            !.entry = [n \in Names |->
                IF <<k, n>> \in F THEN Absent
                ELSE IF @[n] = Ref /\ <<k - 1, n>> \in F THEN Dangling
                ELSE @[n]]]]

\* The slots whose entry is in F.
Stale(s, F) ==
    [n \in Cached |->
        IF \E k \in DOMAIN s : <<k, n>> \in F /\ s[k].addr = cache[n].addr
        THEN [cache[n] EXCEPT !.ok = FALSE] ELSE cache[n]]

\* vpool_set, vpool_set_buf.  A new entry can make the pool grow (maybe_resize),
\* which bumps the generation.
Assigned(s, n, v, grow) ==
    LET k == Home(s, Len(s), n) IN
    IF s[k].entry[n] = Absent
    THEN Put(s, k, n, v, grow)
    ELSE Put(s, Target(s, k, n), n, v, 0)

\* vpool_drop: what a DROP of n at level k frees.  The entry behind a reference
\* is dropped in the parent first.
DropFreesBackingOnly(s, k, n) ==
    LET h == Home(s, k, n) IN
        IF s[h].entry[n] = Absent THEN {} ELSE {<<Target(s, h, n), n>>}
DropFrees(s, k, n) ==
    {<<j, n>> : j \in
        {j \in 1 .. k :
            /\ ~Delegates(s, j, n) /\ s[j].entry[n] # Absent
            /\ \A i \in j + 1 .. k :
                  Delegates(s, i, n) \/ s[i].entry[n] \in {Ref, Dangling}}}

\* vpool_drop_stem_all
DropStemFrees(s, m) ==
    LET k == Home(s, Len(s), m) IN
        UNION {DropFrees(s, k, n) : n \in {x \in Under(m) : s[k].entry[x] # Absent}}

-----------------------------------------------------------------------------
Running == at # "ended"
Grow == {d \in {0, 1} : d <= MaxGen}

Init ==
    /\ scopes = <<>>
    /\ frames = <<>>
    /\ cache = Flushed
    /\ at = "ended"

\* The start of irx_bc_exec: the exec's pool and a zeroed cache.
Start(a) ==
    /\ at = "ended" /\ scopes = <<>>
    /\ scopes' = <<NewPool(a)>>
    /\ frames' = <<>>
    /\ cache' = Flushed
    /\ at' = "body"

\* OP_STORE, and OP_STORE_STEM with a tail.
Assign(n, v) ==
    /\ Running
    /\ \E grow \in Grow : scopes' = Assigned(scopes, n, v, grow)
    /\ at' = "body"
    /\ UNCHANGED <<frames, cache>>

\* OP_STORE_STEM without a tail resets the stem before it sets the default.
AssignStem(m, v) ==
    /\ Running
    /\ LET F == DropStemFrees(scopes, m) IN
          /\ \E grow \in Grow : scopes' = Assigned(Freed(scopes, F), m, v, grow)
          /\ cache' = Stale(scopes, F)
    /\ at' = "body"
    /\ UNCHANGED frames

\* OP_DROP, OP_DROP_STEM
Drop(n) ==
    /\ Running
    /\ LET F == IF n \in Stems THEN DropStemFrees(scopes, n)
                ELSE DropFrees(scopes, Depth, n) IN
          /\ scopes' = Freed(scopes, F)
          /\ cache' = Stale(scopes, F)
    /\ at' = "body"
    /\ UNCHANGED frames

\* vpool_get_cached: a slot is used when pool and generation match.
Hit(n) == cache[n].addr = Top(scopes).addr /\ cache[n].gen = Top(scopes).gen

\* OP_LOAD of a simple variable.  A hit changes nothing, and only a variable
\* that is set gets a slot.  (The generation bound is the model's.)
Load(n) ==
    /\ Running
    /\ ~Hit(n)
    /\ IsSet(scopes, Depth, n)
    /\ Top(scopes).gen < MaxGen
    /\ cache' = [cache EXCEPT ![n] = [addr |-> Top(scopes).addr,
                                      gen |-> Top(scopes).gen, ok |-> TRUE]]
    /\ at' = "body"
    /\ UNCHANGED <<scopes, frames>>

-----------------------------------------------------------------------------
(* Calls and scopes.                                                       *)

\* OP_CALL, OP_CALL_BIF of a label: SIGL is set in the caller's pool.  At the
\* limit error 11 ends the exec or is trapped.
\* base: how deep the stack was at the call; the code has no such field.
Call ==
    /\ Running
    /\ Len(frames) < MaxCalls
    /\ frames' = Append(frames, [isolated |-> FALSE, base |-> Depth])
    /\ \E grow \in Grow : scopes' = Assigned(scopes, SIGL, Number, grow)
    /\ at' = "label"
    /\ UNCHANGED cache

FlushNever == cache
Flush == Flushed

MarkIsolatedForgotten == frames
MarkIsolated == [frames EXCEPT ![Len(frames)].isolated = TRUE]

\* OP_PROC
Procedure(a) ==
    /\ Running
    /\ frames # <<>>
    /\ ProcFirst => at = "label"
    /\ \A k \in DOMAIN scopes : scopes[k].addr # a
    /\ scopes' = Append(scopes, NewPool(a))
    /\ frames' = MarkIsolated
    /\ cache' = Flush
    /\ at' = "expose"

\* A tail is exposed beside its stem, or out of a pool that has only the stem.
Overlaps(n) ==
    \/ n \in Compounds /\ \E k \in {Depth - 1, Depth} : Delegates(scopes, k, n)
    \/ n \in Stems /\ \E c \in Under(n) : Top(scopes).entry[c] # Absent

\* OP_EXPOSE and OP_EXPOSE_INDIRECT of a stem: vpool_expose_stem.
ExposeStem(m) ==
    /\ at = "expose"
    /\ Overlaps(m) => Overlap
    /\ scopes' = [scopes EXCEPT ![Depth].exposed = @ \cup {m},
                                ![Depth].gen = Bump(@, 1)]
    /\ UNCHANGED <<frames, cache, at>>

\* ... and of any other name: vpool_expose_var.  An entry from an earlier
\* EXPOSE of the name is replaced; the parent gets a placeholder if it has
\* no entry.
ExposeVar(n) ==
    /\ at = "expose"
    /\ Overlaps(n) => Overlap
    /\ LET F == IF Top(scopes).entry[n] = Absent THEN {} ELSE {<<Depth, n>>}
           s == Freed(scopes, F) IN
       /\ cache' = Stale(scopes, F)
       /\ \E growParent, grow \in Grow :
             LET known == s[Depth - 1].entry[n] # Absent
                 parent == IF known THEN s ELSE Put(s, Depth - 1, n, Unset, growParent) IN
             scopes' = Put(parent, Depth, n, Ref, 1 + grow)
    /\ UNCHANGED <<frames, at>>

Popped(s, k) == SubSeq(s, 1, Len(s) - k)

\* OP_RETURN drops RESULT in a pool shared with the caller.
ReturnPlain ==
    /\ Running /\ frames # <<>>
    /\ frames' = Popped(frames, 1)
    /\ IF Top(frames).isolated
       THEN scopes' = Popped(scopes, 1) /\ cache' = Flush
       ELSE LET F == DropFrees(scopes, Depth, RESULT) IN
            scopes' = Freed(scopes, F) /\ cache' = Stale(scopes, F)
    /\ at' = "body"

\* OP_RETURNV sets RESULT in the caller's pool.
ReturnValue(v) ==
    /\ Running /\ frames # <<>>
    /\ frames' = Popped(frames, 1)
    /\ \E grow \in Grow :
          IF Top(frames).isolated
          THEN scopes' = Assigned(Popped(scopes, 1), RESULT, v, grow) /\ cache' = Flush
          ELSE scopes' = Assigned(scopes, RESULT, v, grow) /\ UNCHANGED cache
    /\ at' = "body"

IsolatedInnermost == IF frames # <<>> /\ Top(frames).isolated THEN 1 ELSE 0
Isolated == Cardinality({i \in DOMAIN frames : frames[i].isolated})

\* SIGNAL, and a condition trap, leave every active call and set SIGL in the
\* pool that is left; a SYNTAX trap sets RC there too.
Signal ==
    /\ Running
    /\ frames' = <<>>
    /\ \E grow, more \in Grow :
          LET s == Assigned(Popped(scopes, Isolated), SIGL, Number, grow) IN
              scopes' \in {s, Assigned(s, RC, Number, more)}
    /\ cache' = IF Isolated > 0 THEN Flush ELSE cache
    /\ at' = "body"

\* EXIT, the end of the program or an error.
End ==
    /\ Running
    /\ frames' = <<>>
    /\ scopes' = Popped(scopes, Isolated + 1)
    /\ cache' = Flushed
    /\ at' = "ended"

Next ==
    \/ \E a \in Addrs : Start(a) \/ Procedure(a)
    \/ \E v \in Values :
          \/ \E n \in Mentions \ Stems : Assign(n, v)
          \/ \E m \in Mentions \cap Stems : AssignStem(m, v)
          \/ ReturnValue(v)
    \/ \E n \in Mentions : Drop(n)
    \/ \E n \in Cached : Load(n)
    \/ \E m \in Mentions \cap Stems : ExposeStem(m)
    \/ \E n \in Mentions \ Stems : ExposeVar(n)
    \/ Call \/ ReturnPlain \/ Signal \/ End

Spec == Init /\ [][Next]_vars
-----------------------------------------------------------------------------
(* Properties.                                                             *)

\* The types of the variables.
TypeOK ==
    /\ scopes \in Seq([addr : Addrs, gen : 0 .. MaxGen, exposed : SUBSET Stems,
                       entry : [Names -> Entry]])
    /\ frames \in Seq([isolated : BOOLEAN, base : Nat])
    /\ cache \in [Cached -> [addr : Addrs \cup {None}, gen : 0 .. MaxGen, ok : BOOLEAN]]
    /\ at \in Places

\* OP_LOAD never follows a pointer to a freed entry, whatever was dropped,
\* exposed or returned from since the slot was filled, and although a pool can
\* get the address of a destroyed one (irxvpool.h, resolution cache).
CacheSound == Running => \A n \in Cached : Hit(n) => cache[n].ok

\* No entry refers to one that was freed: whoever frees an entry frees every
\* reference to it as well (irx#vpol.c, vpool_drop and vpool_drop_stem_all).
NoDanglingRef == \A k \in DOMAIN scopes, n \in Names : scopes[k].entry[n] # Dangling

\* The end of a call brings the caller's pool back.
ScopeRestored ==
    [][Len(frames') = Len(frames) - 1 /\ at' # "ended" =>
          Len(scopes') = Top(frames).base]_vars

\* What a scope was given by EXPOSE is the variable its caller sees under that
\* name (irx#vpol.c:6-9).
ValueIn(s, n) ==
    LET e == s[Target(s, Home(s, Len(s), n), n)].entry[n] IN
        IF e \in Values THEN e ELSE Unset
ExposedIsShared ==
    Depth > 1 => \A n \in Names :
        Delegates(scopes, Depth, n) \/ Top(scopes).entry[n] = Ref
           => ValueIn(scopes, n) = ValueIn(SubSeq(scopes, 1, Depth - 1), n)

\* The end of an exec, from whatever depth, destroys all its pools.
NoPoolLeak == at = "ended" => scopes = <<>>
=============================================================================
