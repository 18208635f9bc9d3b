----------------------------- MODULE VmControl -----------------------------
(***************************************************************************)
(* Control flow of the bytecode VM, irx_bc_execute in src/src/irx#bvm.c:   *)
(* the storage it owns, call frames, the counters and hidden variables of  *)
(* loops, operands left on the stack across calls, condition traps, and    *)
(* the error number a program or its user is told.                         *)
(*                                                                         *)
(* The program is any sequence of clauses that nests its loops and calls.  *)
(* acts says, for each active call, what the program means: which loops it *)
(* is in, how often they still run, how many operands an expression waits  *)
(* with, and which traps are on.  The VM does not read it; the properties  *)
(* compare the VM's own state with it.                                     *)
(*                                                                         *)
(* Assumed of programs: labels stand outside loops, and a routine called   *)
(* as a function returns a value.  A PARSE clause is one opcode here, and  *)
(* the copy of its source comes and goes within it.                        *)
(***************************************************************************)
EXTENDS Integers, Sequences, FiniteSets, SequencesExt

CONSTANTS
    CallInit, CallMax,   \* IRXBC_CALL_INIT and IRXBC_CALL_MAX
    CounterInit,         \* IRXBC_DO_DEPTH
    MaxDepth,            \* IRX_CTL_STACK_MAX, nesting of loops in one routine
    StackMax,            \* IRXBC_STACK_DEPTH
    DoNames,             \* 10: hidden variables are named by depth % 10
    Counts,              \* loop counts
    Bounds,              \* limit and step of a DO TO, as one value that is not 0
    Kinds,               \* kinds of loops in the program
    Conds,               \* conditions the program traps
    Failures,            \* ways an opcode fails: see Failure
    ForShared,           \* routines without PROCEDURE use DO TO, too
    ForDeep,             \* DO TO nests in DO TO at any depth: see NamesFree
    CopiesLost,          \* storage runs out where that loses copies of arguments, too
    Top, None

\* class: "arith" and "bool" can be trapped.  how: the opcode calls
\* irx_cond_raise, or vm_raise_if_none, or names no error.
Failure == [class : {"arith", "bool", "other"}, how : {"raise", "ifnone", "none"},
            num : Nat]

ASSUME VmAssumption ==
    /\ {CallInit, CallMax, CounterInit, MaxDepth, StackMax, DoNames} \subseteq Nat \ {0}
    /\ CallInit <= CallMax
    /\ Counts \subseteq Nat /\ Bounds \subseteq Nat \ {0}
    /\ Kinds \subseteq {"count", "to", "for", "plain"}
    /\ Conds \subseteq {"SYNTAX", "NOVALUE"}
    /\ Failures \subseteq Failure /\ \A f \in Failures : f.num > 0
    /\ {ForShared, ForDeep, CopiesLost} \subseteq BOOLEAN

VARIABLES
    at,        \* "setup", "label" (just called), "run" or "ended"
    todo,      \* blocks still to be allocated: their pointers are NULL
    held,      \* blocks allocated and not freed
    frames,    \* call_frames, the outermost first
    cap, gen,  \* frames allocated, and which allocation it is
    args,      \* what call_args points at: Top, or a frame of an allocation
    base,      \* do_base
    counters,  \* the DO-count counters
    hidden,    \* for each pool and digit d, __DOd_LIM and __DOd_STP, and __DOd_FOR
    stack,     \* for each operand, the activation that pushed it
    trap,      \* for each condition "off", "on", or "nolabel": on, but not a label
    cond,      \* the condition record; fresh: raised after cond_base
    report,    \* what the last step reported: RC at a trap, IRX00nnI at the end
    acts       \* what the program means

vars == <<at, todo, held, frames, cap, gen, args, base, counters, hidden, stack,
          trap, cond, report, acts>>

-----------------------------------------------------------------------------
\* A block of storage is a name and which of that name it is: the array of
\* counters by its size, the call frames by their generation, arguments by their
\* frame, variable pools by their depth.
Block(name) == <<name, 0>>
CountersOf(n) == <<"counters", n>>
FramesOf(g) == <<"frames", g>>
ArgsOfFrame(k) == <<"args", k>>
PoolAt(p) == <<"vpool", p>>

\* What a run allocates, in order.  The exec has symbols, constants and an
\* argument; the tables for those it lacks are left out.
Plan ==
    <<Block("stack"), Block("lstrs"), CountersOf(CounterInit), PoolAt(1), FramesOf(0),
      Block("label_pc"), Block("bif_cache"), Block("var_cache"), Block("const_cache"),
      Block("proxy_parser"), Block("top_args")>>

NoReport == [num |-> None, cause |-> None]
NewAct(t) == [loops |-> <<>>, wants |-> 0, trap |-> t]
NewPool == [d \in 0 .. DoNames - 1 |-> [bound |-> 0, left |-> 0]]
AllOff == [c \in Conds |-> "off"]

Act == acts[Len(acts)]
Loops == Act.loops
Running == at \in {"label", "run"}
Zeros(n) == [i \in 1 .. n |-> 0]

\* The activation in control becomes a.
WithAct(a) == [acts EXCEPT ![Len(acts)] = a]

Isolated(f) == Cardinality({k \in DOMAIN f : f[k].isolated})

\* What frames f and the innermost of p pools hold.
CallStorage(f, p) ==
    {ArgsOfFrame(k) : k \in DOMAIN f} \cup {PoolAt(q) : q \in p - Isolated(f) + 1 .. p}

\* What done: frees with f the frames up to call_sp and p pools: through each
\* pointer that is not NULL.
Tables ==
    {Block("stack"), Block("lstrs"), CountersOf(Len(counters)), FramesOf(gen),
     Block("label_pc"), Block("bif_cache"), Block("var_cache"), Block("const_cache"),
     Block("proxy_parser")}

\* A mutant: top_args is freed through call_args (#262).
DoneFreesByCallArgs(f, p) ==
    (Tables \cup {PoolAt(p - Isolated(f))} \cup CallStorage(f, p)
     \cup (IF args = Top THEN {Block("top_args")} ELSE {})) \ Range(todo)
DoneFrees(f, p) ==
    (Tables \cup {PoolAt(p - Isolated(f))} \cup CallStorage(f, p)
     \cup {Block("top_args")}) \ Range(todo)

-----------------------------------------------------------------------------
(* Errors.                                                                 *)

\* vm_fresh_syntax: NOVALUE raises number 0, which names no error.
Named(c) == c.fresh /\ c.code > 0

\* The condition record once an opcode failed with f.
Raised(f) ==
    IF f.how = "raise" \/ (f.how = "ifnone" /\ ~Named(cond))
    THEN [code |-> f.num, fresh |-> TRUE] ELSE cond

\* check_syntax_trap and vm_errnum: the number raised, else that of the class.
Number(f) == IF Named(Raised(f)) THEN Raised(f).code ELSE f.num

\* cond_base moves on after a trap.
HandledKept(c) == c
Handled(c) == [c EXCEPT !.fresh = FALSE]

\* done: the run ends; the condition record stays in the work block.
Ended(rep) ==
    /\ at' = "ended" /\ todo' = <<>>
    /\ frames' = <<>> /\ args' = Top /\ base' = 0 /\ stack' = <<>>
    /\ hidden' = <<NewPool>> /\ counters' = Zeros(CounterInit) /\ cap' = CallInit /\ gen' = 0
    /\ trap' = AllOff /\ acts' = <<NewAct(AllOff)>>
    /\ report' = rep

Done(rep) == Ended(rep) /\ held' = held \ DoneFrees(frames, Len(hidden))

\* A jump out of all calls: SIGNAL and trap_jump.  Traps become t.
Unwind(t) ==
    /\ at' = "run" /\ frames' = <<>> /\ base' = 0 /\ args' = Top
    /\ stack' = <<>> /\ hidden' = <<hidden[1]>>
    /\ trap' = t /\ acts' = <<NewAct(t)>>
    /\ held' = held \ CallStorage(frames, Len(hidden))
    /\ UNCHANGED <<todo, cap, gen, counters>>

Trappable(f) == f.class # "other" /\ "SYNTAX" \in Conds /\ trap["SYNTAX"] = "on"

\* An opcode fails: a SYNTAX trap takes it, or the run ends.
Fail(f) ==
    LET rep == [num |-> Number(f), cause |-> f.num] IN
    IF Trappable(f)
    THEN /\ Unwind([trap EXCEPT !["SYNTAX"] = "off"])
         /\ cond' = Handled([code |-> Number(f), fresh |-> TRUE])
         /\ report' = rep
    ELSE Done(rep) /\ cond' = Raised(f)

Storage == [class |-> "other", how |-> "none", num |-> 5]
ControlStack == [class |-> "arith", how |-> "raise", num |-> 11]
NoLabel == [class |-> "other", how |-> "raise", num |-> 16]
Internal == [class |-> "other", how |-> "none", num |-> 49]

-----------------------------------------------------------------------------
(* Setting up.                                                             *)

Init ==
    /\ at = "setup" /\ todo = Plan /\ held = {}
    /\ frames = <<>> /\ cap = CallInit /\ gen = 0 /\ args = Top
    /\ base = 0 /\ counters = Zeros(CounterInit) /\ hidden = <<NewPool>> /\ stack = <<>>
    /\ trap = AllOff /\ cond = [code |-> 0, fresh |-> FALSE]
    /\ report = NoReport /\ acts = <<NewAct(AllOff)>>

callVars == <<frames, cap, gen, args, base>>
programVars == <<callVars, counters, hidden, stack, trap, acts>>

\* The next block is allocated, or storage runs out.
Obtain ==
    /\ at = "setup"
    /\ \/ /\ held' = held \cup {Head(todo)} /\ todo' = Tail(todo)
          /\ at' = IF Len(todo) = 1 THEN "run" ELSE "setup"
          /\ report' = NoReport
          /\ UNCHANGED <<cond, programVars>>
       \/ Fail(Storage)

\* The same environment runs another exec: cond_base starts at what was raised.
Again ==
    /\ at = "ended" /\ at' = "setup" /\ todo' = Plan
    /\ cond' = Handled(cond) /\ report' = NoReport
    /\ UNCHANGED <<held, programVars>>

\* An opcode of the running program that reports nothing.
Quiet == report' = NoReport /\ UNCHANGED <<todo, cond>>

-----------------------------------------------------------------------------
(* Operands.                                                               *)

\* An opcode pushes an operand.
Push ==
    /\ Running
    /\ IF Len(stack) >= StackMax THEN Fail(Internal)
       ELSE /\ Quiet /\ at' = "run"
            /\ stack' = Append(stack, Len(acts))
            /\ acts' = WithAct([Act EXCEPT !.wants = @ + 1])
            /\ UNCHANGED <<held, callVars, counters, hidden, trap>>

\* An opcode uses one up.
Pop ==
    /\ Running /\ Act.wants > 0
    /\ IF stack = <<>> THEN Fail(Internal)
       ELSE /\ Quiet /\ at' = "run"
            /\ stack' = Front(stack)
            /\ acts' = WithAct([Act EXCEPT !.wants = @ - 1])
            /\ UNCHANGED <<held, callVars, counters, hidden, trap>>

\* Any other opcode fails.
Break == Running /\ \E f \in Failures : Fail(f)

-----------------------------------------------------------------------------
(* Loops.                                                                  *)

\* All its factors are even, but for 1.
PowerOfTwo(m) == \A d, q \in 1 .. m : d * q = m => d = 1 \/ d % 2 = 0

\* vm_grow_counters: the array doubles until it has a counter n, from 0.
Room(n) ==
    IF n < Len(counters) THEN counters
    ELSE LET c == CHOOSE c \in n + 1 .. 2 * n :
                      \E m \in 1 .. c : PowerOfTwo(m) /\ c = Len(counters) * m
         IN counters \o Zeros(c - Len(counters))

\* The counter of a loop at a nesting depth: frames[do_base + depth].
Cell(depth) == base + depth + 1

\* make_do_sym: the hidden variables of a loop at a nesting depth.
HiddenIxOne(depth) == 0
HiddenIx(depth) == depth % DoNames

\* The loops that use them: DO v = a TO b BY c, without FOR and with it.
ToKinds == {"to", "for"}

\* The program is in one more loop, if it runs at all.
Entered(kind, b, n) ==
    IF kind \in {"count", "for"} /\ n = 0 THEN Act
    ELSE [Act EXCEPT !.loops = Append(@, [kind |-> kind, bound |-> b, left |-> n])]

\* DO n: its count is on the stack.
OpenCount ==
    /\ Running /\ "count" \in Kinds /\ Act.wants = 1 /\ Len(Loops) < MaxDepth
    /\ IF stack = <<>> THEN Fail(Internal)
       ELSE \/ Len(counters) < Cell(Len(Loops)) /\ Fail(Storage)
            \/ \E n \in Counts :
                /\ Quiet /\ at' = "run"
                /\ counters' = [Room(base + Len(Loops)) EXCEPT ![Cell(Len(Loops))] = n]
                /\ stack' = Front(stack)
                /\ held' = (held \ {CountersOf(Len(counters))}) \cup {CountersOf(Len(counters'))}
                /\ acts' = WithAct([Entered("count", 0, n) EXCEPT !.wants = 0])
                /\ UNCHANGED <<callVars, hidden, trap>>

\* No DO TO of this call has the hidden names of the next depth.
NamesFree ==
    \A j \in DOMAIN Loops : Loops[j].kind \in ToKinds => (j - 1) % DoNames # Len(Loops) % DoNames

\* DO v = a TO b BY c FOR n: limit, step and count go to the current pool.
OpenTo ==
    /\ Running /\ Act.wants = 0 /\ Len(Loops) < MaxDepth
    /\ ~ForShared /\ frames # <<>> => Last(frames).isolated
    /\ ForDeep \/ NamesFree
    /\ \E kind \in Kinds \cap ToKinds, b \in Bounds, n \in Counts \cup {0} :
        /\ kind = "for" \/ n = 0
        /\ Quiet /\ at' = "run"
        /\ hidden' = [hidden EXCEPT ![Len(hidden)][HiddenIx(Len(Loops))] =
                          [bound |-> b, left |-> IF kind = "for" THEN n ELSE @.left]]
        /\ acts' = WithAct(Entered(kind, b, n))
    /\ UNCHANGED <<held, callVars, counters, stack, trap>>

\* DO FOREVER, WHILE, UNTIL, a DO group, or SELECT.
OpenPlain ==
    /\ Running /\ "plain" \in Kinds /\ Act.wants = 0 /\ Len(Loops) < MaxDepth
    /\ Quiet /\ at' = "run"
    /\ acts' = WithAct(Entered("plain", 0, 0))
    /\ UNCHANGED <<held, callVars, counters, hidden, stack, trap>>

\* Loops that END, ITERATE or LEAVE can mean: the innermost but for SELECTs.
Reach == {j \in DOMAIN Loops : \A i \in j + 1 .. Len(Loops) : Loops[i].kind = "plain"}

\* After an iteration of loop j, which goes on or not, n of its count used up.
Iterated(j, n, on) ==
    [Act EXCEPT !.loops =
        IF on THEN [SubSeq(Loops, 1, j) EXCEPT ![j].left = @ - n]
        ELSE SubSeq(Loops, 1, j - 1)]

\* END or ITERATE of DO n: OP_DECFOR.
NextCount ==
    /\ Running /\ Act.wants = 0
    /\ \E j \in Reach :
        /\ Loops[j].kind = "count"
        /\ IF Cell(j - 1) > Len(counters) THEN Fail(Internal)
           ELSE /\ Quiet /\ at' = "run"
                /\ counters' = [counters EXCEPT ![Cell(j - 1)] = @ - 1]
                /\ acts' = WithAct(Iterated(j, 1, counters[Cell(j - 1)] - 1 > 0))
                /\ UNCHANGED <<held, callVars, hidden, stack, trap>>

\* END or ITERATE of DO TO: with FOR the count goes down, and is tested at the
\* top.  That the control variable passed the limit is a LeaveLoop.
NextTo ==
    /\ Running /\ Act.wants = 0
    /\ \E j \in Reach :
        LET n == IF Loops[j].kind = "for" THEN 1 ELSE 0
            left == hidden[Len(hidden)][HiddenIx(j - 1)].left - n IN
        /\ Loops[j].kind \in ToKinds
        /\ Quiet /\ at' = "run"
        /\ hidden' = [hidden EXCEPT ![Len(hidden)][HiddenIx(j - 1)].left = left]
        /\ acts' = WithAct(Iterated(j, n, Loops[j].kind = "for" => left > 0))
    /\ UNCHANGED <<held, callVars, counters, stack, trap>>

\* LEAVE, or the condition of a loop says so.
LeaveLoop ==
    /\ Running /\ Act.wants = 0
    /\ \E j \in Reach : acts' = WithAct([Act EXCEPT !.loops = SubSeq(@, 1, j - 1)])
    /\ Quiet /\ at' = "run"
    /\ UNCHANGED <<held, callVars, counters, hidden, stack, trap>>

-----------------------------------------------------------------------------
(* Calls.                                                                  *)

\* vm_site_depth: the header of a WHILE or UNTIL is outside its loop.
Sites ==
    {Len(Loops)} \cup
    (IF Loops # <<>> /\ Last(Loops).kind = "plain" THEN {Len(Loops) - 1} ELSE {})

NewBaseSame(site) == base
NewBase(site) == base + site

\* vm_grow_frames
DoubledUncapped(n) == 2 * n
Doubled(n) == IF 2 * n > CallMax THEN CallMax ELSE 2 * n

\* A frame is pushed for a call with n arguments, out of room for c frames.
Enter(push, n, site, c) ==
    /\ Quiet /\ at' = "label"
    /\ cap' = c /\ gen' = IF c = cap THEN gen ELSE gen + 1
    /\ frames' = Append(frames, [push |-> push, argc |-> n, isolated |-> FALSE,
                                 trap |-> trap, base |-> base])
    /\ args' = [gen |-> gen', ix |-> Len(frames) + 1]
    /\ held' = (held \ {FramesOf(gen)}) \cup {FramesOf(gen')}
               \cup (IF n = 0 THEN {} ELSE {ArgsOfFrame(Len(frames) + 1)})
    /\ base' = NewBase(site)
    /\ stack' = SubSeq(stack, 1, Len(stack) - n)
    /\ acts' = Append(WithAct([Act EXCEPT !.wants = @ - n]), NewAct(trap))
    /\ UNCHANGED <<counters, hidden, trap>>

\* CALL, or push: a function call, which leaves other operands on the stack.
Call ==
    /\ Running
    /\ \E push \in BOOLEAN, n \in 0 .. Act.wants, site \in Sites :
        /\ push \/ n = Act.wants
        /\ IF Len(stack) < n THEN Fail(Internal)
           ELSE IF Len(frames) < cap THEN Enter(push, n, site, cap)
           ELSE IF cap >= CallMax THEN Fail(ControlStack)
           ELSE Fail(Storage) \/ Enter(push, n, site, Doubled(cap))

\* Storage runs out in the copies of a call's n arguments, which a frame beyond
\* call_sp holds: what is copied by then is lost.
CopyShort ==
    /\ Running
    /\ \E n \in 1 .. Act.wants :
        LET copied == IF n > 1 THEN {ArgsOfFrame(Len(frames) + 1)} ELSE {} IN
        /\ CopiesLost \/ copied = {}
        /\ n <= Len(stack) /\ Len(frames) < CallMax
        /\ Ended([num |-> Number(Storage), cause |-> Storage.num])
        /\ held' = (held \cup copied) \ DoneFrees(frames, Len(hidden))
        /\ cond' = Raised(Storage)

\* OP_PROC: a new pool.
Procedure ==
    /\ at = "label"
    /\ \/ /\ Quiet /\ at' = "run"
          /\ frames' = [frames EXCEPT ![Len(frames)].isolated = TRUE]
          /\ hidden' = Append(hidden, NewPool)
          /\ held' = held \cup {PoolAt(Len(hidden'))}
          /\ UNCHANGED <<cap, gen, args, base, counters, stack, trap, acts>>
       \/ Fail(Storage)

\* What call_args points at when f frames are left.
ArgsOfTop(f) == Top
ArgsOf(f) == IF f = <<>> THEN Top ELSE [gen |-> gen, ix |-> Len(f)]

TrapAfterKept(f) == trap
TrapAfter(f) == f.trap

\* The pool a frame's RETURN destroys.
PoolOf(f) == IF f.isolated THEN {PoolAt(Len(hidden))} ELSE {}

\* The last frame is popped; the caller has r more operands than before.
Resume(r) ==
    LET f == Last(frames)
        caller == Len(acts) - 1 IN
    /\ Quiet /\ at' = "run"
    /\ frames' = Front(frames) /\ base' = f.base
    /\ args' = ArgsOf(frames') /\ trap' = TrapAfter(f)
    /\ hidden' = IF f.isolated THEN Front(hidden) ELSE hidden
    /\ held' = held \ (PoolOf(f) \cup {ArgsOfFrame(Len(frames))})
    /\ acts' = [Front(acts) EXCEPT ![caller].wants = @ + r]
    /\ UNCHANGED <<cap, gen, counters>>

ReturnPlain ==
    /\ Running /\ frames # <<>> /\ Act.wants = 0 /\ ~Last(frames).push
    /\ Resume(0) /\ UNCHANGED stack

\* The operands once RETURN popped its value: a function call finds it there.
ReturnedPopped(s, push) == s
Returned(s, push) == IF push THEN Append(s, Len(acts) - 1) ELSE s

ReturnValue ==
    /\ Running /\ frames # <<>> /\ Act.wants = 1
    /\ IF stack = <<>> THEN Fail(Internal)
       ELSE /\ Resume(IF Last(frames).push THEN 1 ELSE 0)
            /\ stack' = Returned(Front(stack), Last(frames).push)

\* Storage runs out for RESULT, when the frame is popped and its arguments are
\* not yet freed.
ResultShort ==
    /\ Running /\ frames # <<>> /\ Act.wants = 1 /\ stack # <<>>
    /\ CopiesLost \/ Last(frames).argc = 0
    /\ LET lost == PoolOf(Last(frames)) IN
        /\ Ended([num |-> Number(Storage), cause |-> Storage.num])
        /\ held' = (held \ lost) \ DoneFrees(Front(frames), Len(hidden) - Cardinality(lost))
    /\ cond' = Raised(Storage)

\* EXIT, with a value or without, or RETURN of the exec itself.
Exit == Running /\ Act.wants \in {0, 1} /\ Done(NoReport) /\ UNCHANGED cond

-----------------------------------------------------------------------------
(* SIGNAL and traps.                                                       *)

\* SIGNAL, and SIGNAL VALUE, which pops a name first.
Signal ==
    /\ Running /\ Act.wants \in {0, 1}
    /\ \/ Act.wants = 1 /\ stack = <<>> /\ Fail(Internal)
       \/ Fail(NoLabel)
       \/ Unwind(trap) /\ report' = NoReport /\ UNCHANGED cond

SetTrap(c, state) ==
    /\ Running /\ Act.wants = 0
    /\ Quiet /\ at' = "run"
    /\ trap' = [trap EXCEPT ![c] = state]
    /\ acts' = WithAct([Act EXCEPT !.trap = trap'])
    /\ UNCHANGED <<held, callVars, counters, hidden, stack>>

SignalOn == \E c \in Conds, state \in {"on", "nolabel"} : SetTrap(c, state)
SignalOff == \E c \in Conds : SetTrap(c, "off")

\* A variable without a value is used and NOVALUE is trapped.
NoValue ==
    /\ Running /\ "NOVALUE" \in Conds /\ trap["NOVALUE"] = "on" /\ Len(stack) < StackMax
    /\ Unwind([trap EXCEPT !["NOVALUE"] = "off"])
    /\ cond' = Handled([code |-> 0, fresh |-> TRUE])
    /\ report' = NoReport

-----------------------------------------------------------------------------
Next ==
    \/ Obtain \/ Again
    \/ Push \/ Pop \/ Break
    \/ OpenCount \/ OpenTo \/ OpenPlain \/ NextCount \/ NextTo \/ LeaveLoop
    \/ Call \/ CopyShort \/ Procedure \/ ReturnPlain \/ ReturnValue \/ ResultShort \/ Exit
    \/ Signal \/ SignalOn \/ SignalOff \/ NoValue

Spec == Init /\ [][Next]_vars

-----------------------------------------------------------------------------
TypeOK ==
    /\ at \in {"setup", "label", "run", "ended"}
    /\ (todo = <<>>) <=> (at # "setup")
    /\ cap \in CallInit .. CallMax /\ gen \in Nat /\ Len(frames) <= cap
    /\ base \in Nat /\ Len(counters) >= CounterInit
    /\ Len(stack) <= StackMax
    /\ Len(acts) = Len(frames) + 1
    /\ Len(hidden) = 1 + Isolated(frames)
    /\ at = "label" => frames # <<>>
    /\ trap \in [Conds -> {"off", "on", "nolabel"}]
    /\ cond.code \in Nat /\ cond.fresh \in BOOLEAN

\* do_base of the k-th active call, and its pool.
BaseOf(k) == IF k = Len(acts) THEN base ELSE frames[k].base
PoolIx(k) == 1 + Cardinality({j \in 1 .. k - 1 : frames[j].isolated})

\* "A routine never reuses its caller's counters": each counted loop that is
\* active, in whatever call, finds in its counter how often it still runs
\* (irx#bvm.c:46-52, vm_site_depth, vm_grow_counters).
CounterOwned ==
    \A k \in DOMAIN acts : \A j \in DOMAIN acts[k].loops :
        acts[k].loops[j].kind = "count" =>
            /\ BaseOf(k) + j <= Len(counters)
            /\ counters[BaseOf(k) + j] = acts[k].loops[j].left

\* The same of DO TO and DO TO FOR, whose limit, step and count are in hidden
\* variables that the compiler named (irx#bcom.c:825-840, 3361-3394).
ForOwned ==
    \A k \in DOMAIN acts : \A j \in DOMAIN acts[k].loops :
        LET l == acts[k].loops[j]
            h == hidden[PoolIx(k)][HiddenIx(j - 1)] IN
        /\ l.kind \in ToKinds => h.bound = l.bound
        /\ l.kind = "for" => h.left = l.left

\* The operand stack holds just what the expressions of the active calls wait
\* with, the caller's below its routine's, after any CALL, RETURN, SIGNAL and
\* trap (irx#bvm.c:2633-3120).
OperandsInPlace ==
    \A k \in DOMAIN acts :
        /\ Cardinality({i \in DOMAIN stack : stack[i] = k}) = acts[k].wants
        /\ \A i, j \in DOMAIN stack : i < j => stack[i] <= stack[j]

\* call_args points into the frames as they are allocated now, at those of the
\* active call (irx#bvm.c:1127-1130).
ArgsCurrent ==
    args = IF frames = <<>> THEN Top ELSE [gen |-> gen, ix |-> Len(frames)]

\* Each active call has the traps it set or was called with: what a routine
\* does to them ends with its RETURN (irx#bvm.c:82-84).
TrapsOwned ==
    /\ trap = Act.trap
    /\ \A k \in DOMAIN frames : frames[k].trap = acts[k].trap

\* "An error that ends the run is never named after one that was already
\* handled", nor is a trapped one (irx#bvm.c:1248-1250, 4134-4157).
NamedForCause == report.num = report.cause

\* A run holds the tables as they are now, one set of arguments for each call
\* that has some, and a pool for each PROCEDURE: nothing is lost when an array
\* moves, a call returns or SIGNAL and traps abandon their calls.  Whatever step
\* it ended in, it keeps nothing (irx#bvm.c:66-69, 3140-3190, 4288-4435).
StorageOwned ==
    /\ at = "ended" => held = {}
    /\ Running => held = Tables \cup {Block("top_args")}
            \cup {ArgsOfFrame(k) : k \in {j \in DOMAIN frames : frames[j].argc > 0}}
            \cup {PoolAt(p) : p \in 1 .. Len(hidden)}
=============================================================================
