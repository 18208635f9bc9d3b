# A TLA+ model of rexx370

rexx370 is a REXX language processor for MVS 3.8j: environments (IRXINIT,
IRXTERM), an exec loader (IRXLOAD), an execution service (IRXEXEC), a batch
driver (IRXJCL), a bytecode compiler with its VM, an older interpreter that
walks tokens, and the services beneath them. This directory models the parts
whose behaviour depends on order, failure or sharing, checks them with TLC on
small instances and proves the most important facts for every instance with
TLAPS.

    tlc -workers 2 -config EnvRegistry_svc.cfg MCEnvRegistry
    tlapm EnvRegistryProofs.tla

## 1. Inventory

| Part | State it keeps | Operations | What is hard | What makes it correct |
|---|---|---|---|---|
| Registry and anchor, `irx#anch.c`, `irx#init.c`, `irx#term.c` | IRXANCHR: 64 slots, high-watermark, token counter; ECTENVBK, shared with BREXX/370 | INITENVB, FINDENVB, CHEKENVB, IRXTERM | tasks of one address space interleave at SVCs; tasks end without IRXTERM; addresses are reused; the table fills up | the registry lists the environments in existence; ECTENVBK never dangles; FINDENVB answers with an environment that fits |
| Construction and teardown, the same files and `irxterm.asm` | control blocks of an environment, use counts of LOADed routines | INITENVB steps 1 to 9, `irx_init_finish`, cleanup, IRXTERM through two doors | any GETMAIN and any LOAD may fail | nothing leaks, nothing is DELETEd that others use |
| Variable pools, `irx#vpol.c` | hash table per scope, exposed stems, references into the caller's pool, generation | set, get, drop, stem reset, expose, create, destroy | references across scopes; a cache of entry pointers; addresses reused | scopes share exactly what EXPOSE names; no freed entry is followed |
| Bytecode VM, `irx#bvm.c`, `irx#cond.c` | operand stack, call frames, DO frames, trap state, current pool | one per opcode | SIGNAL and traps out of nested calls; frame growth; RETURN with and without a value | a call leaves stack, traps and scope as it found them |
| IRXEXEC, `irx#exec.c`, `irxexec.asm` | work block fields saved around a run | resolve the environment, compile, run, fall back to the token walk, EVALBLOCK | nested execs; failure between save and restore | the caller's fields come back |
| IRXJCL, IRXTMPW, `irx#jcl.c`, `irxjcl.asm`, `irxtmpw.asm` | the environment it made, if it made one | find or make an environment, load, run, free, terminate | every step may fail | what was acquired is released, once |
| Loader, `irx#load.c`, `irx#ldqs.c`, `irx#ldbp.c` | INSTBLK and its source pool | LOAD, FREE, STATUS | DD search order, growth of the line table, failure half-way | one owner, freed once; the first DD that has the member |
| Storage and strings, `irx#stor.c`, `irx#lstr.c` | prefix of each block; four LIFO buckets of buffers | get, free, reuse | double free, callbacks of a deleted module | a buffer has one owner |
| Compiler, `irx#bcom.c`, `irx#bctl.c` | code, constants, symbols, block stack | one function per clause | jump patching, nesting limits | jumps land where the block structure says |
| Tokenizer, `irx#tokn.c` | position | scan | comments, continuation, abuttal | a pure function |
| Token walk and PARSE, `irx#pars.c`, `irx#ctrl.c` | exec stack, label table | one handler per keyword | same semantics as the VM | agrees with the VM |
| Arithmetic, `irx#arith.c` | none | decimal operations | rounding, FUZZ | equals the rounded exact result |
| Built-ins, `irx#bif.c`, `irx#bifs.c` | none of their own | string and system functions | argument edges | equals its definition |
| Messages, I/O, small services | open DCB, condition record | write, format, look up | order of close and delete | |
| Parameter and anchor images, `irxtsprm.asm`, `irxparms.asm`, `irxisprm.asm`, `irxanchr.asm` | none | read only | | |

How they interact. IRXINIT registers an environment, and everything else finds
it through the registry or ECTENVBK. IRXEXEC hangs a string allocator off the
work block of the environment, compiles the exec and calls the VM, which makes
the pools and destroys them. IRXTERM takes down what IRXINIT built; what IRXEXEC
hung off the work block goes with the work block. The address space is the
shared memory: the registry is a module found by LOAD, the anchor is a word in
the ECT.

## 2. Plan

Modules, most important first.

1. `EnvRegistry`, `EnvService`, `EnvRefinement`: registry and anchor. **Done**,
   proved, the refinement included.
2. `EnvLifecycle`: construction and teardown. **Done**, proved.
3. `VarPool`, `VarService`, `VarRefinement`: variables and PROCEDURE EXPOSE. **Done**
   for the VM, proved, the refinement included.
4. `VmControl`: operand stack, frames, saved trap state, DO counters, SIGNAL,
   traps, over an abstract program. **Done**, proved.
5. `ExecLoad`, `ExecRun`, `JclJob`: one job step or TSO command, from the
   environment through loader and IRXEXEC to the return code. **Done**, with
   storage running out at any step and execs that call execs; proved, the text
   that the loader delivers included.
6. `Clauses`, `ClauseCompiler`, `ClauseVm`, `ClauseWalk`, `ControlFlow`: control
   instructions, compiled and run, or walked, against their structured reading.
   **Done**; CALL and SIGNAL in the walk, and labels in the compiler, are left.
7. `ParseRules`, `ParseTemplate`: PARSE, compiled and walked. **Done**.
8. `DecimalRules`, `Decimal`, `Arithmetic`: decimal arithmetic and the integer
   short cut of the VM, against exact arithmetic. **Done**.
9. `StringPool`: ownership of pooled buffers. **Left.**
10. TRACE and ADDRESS in the VM, the source a PARSE clause copies. **Left.**

`JclJob` extends `ExecRun`, which extends `ExecLoad`: they share the storage that
may run out and the levels of nested execs. `ControlFlow` puts both engines
beside the reference of `Clauses`. `MCAlgorithms` has PARSE and arithmetic in
one model, since both are computations over enumerated inputs, and `MCEngines`
puts it beside `ControlFlow`: a behaviour runs a program, a PARSE clause or an
expression.

Runs stay at the smallest sizes at which each interleaving, address reuse,
growing table or chained reference of the code can occur; section 4 says why
each is enough.

Each of the first five groups has a module of proofs: `EnvRegistryProofs`,
`EnvLifecycleProofs`, `VarPoolProofs`, `VmControlProofs` and `JclJobProofs`.
`EnvRegistryProofs` also has the simulation of `EnvService` by `EnvRegistry`;
`VarRefinementProofs` has that of `VarService` by `VarPool`, and `ExecLoadProofs`
the text that the loader delivers. `StackLemmas` holds the
facts about stacks and about counting in sequences that the proofs share, and
that a bounded set of numbers has a largest, taken from the well-foundedness of
`<` since the induction theorems cannot be used. The modules with RECURSIVE
operators (`Clauses` and what extends it) stay with TLC.

## 3. The modules and the code

### EnvRegistry

One action is the code between two SVCs. The code takes no lock and argues that
on one CPU nothing can come between two instructions without an SVC
(`irx#anch.c:136-140`); `irx_anchor_get_handle` issues a LOAD, GETMAIN, FREEMAIN
and DELETE are SVCs, so tasks interleave there.

| Action | Code |
|---|---|
| `InitPrep` | INITENVB steps 1-6: the ENVBLOCK exists, nobody can find it |
| `InitCommit` | steps 7-9: slot, token, high-watermark, ECTENVBK |
| `FindBegin`, `FindCached`, `FindDone` | FINDENVB: own slots; ECTENVBK up to the LOAD; the rest |
| `TermBegin` | IRXTERM steps 1-3 |
| `TermUnregister` | step 4a and the guard of 4b |
| `TermRollback` | the store of 4b, and step 5 |
| `ForeignClaim`, `ForeignRelease` | BREXX/370 in the same anchor |
| `TaskEnd`, `TaskStart` | MVS ends a task, frees its subpool 0 storage, reuses its TCB address |

`slots`, `used`, `counter` and `ectenvbk` are the fields of the same names;
`env` is what lies at an ENVBLOCK address, a `"ghost"` being storage that was
freed and still reads as an ENVBLOCK. `Serialized` restricts behaviours to one
service at a time; `PermChoices` says whether ENVBLOCKs may be in subpool 0.
CHEKENVB is the operator `Chek`, with which IRXTERM begins.

`EnvService` is the promise, without slots, tokens or a cache: environments
numbered in the order of their registration, as many as the registry has room
for. Find picks the caller's newest, or else the newest TSO environment, which
becomes the anchor; Close of the anchored one takes the anchor back to the newest
TSO environment before it. `EnvRefinement` gives the refinement mapping: an
environment's number is the token of its slot, and while IRXTERM rolls the anchor
back the slot it has freed still counts. It holds only when services do not
overlap, which is why `registry_serial` checks it and `registry_svc` checks
invariants instead.

### EnvLifecycle

One task. Each GETMAIN and each LOAD succeeds or fails. `heap[b]` is the set of
control blocks environment `b` owns, `names[b]` its MODNAMET, `active[b]` the
routine pointers in its IRXEXTE, `uses` the use counts MVS keeps. The registry
is reduced to who is in it and how many slots are left, which is all that
construction sees of it. `Doors` says whether callers use the C functions or the
load modules.

### VarPool

`scopes` is the chain of pools, the exec's own first. A pool is its address, its
generation, its exposed stems and at most one entry for each name: a value,
`Unset` (an EXPOSE placeholder), `Ref` (`exposed_ref` into the parent) or
`Dangling` (a reference whose target was freed; a state the code cannot see).
`cache` holds the slots OP_LOAD uses; `ok` records whether the entry still
exists, which the code cannot see either: the property says it never needs to.
`Stale` maintains it. The actions are the opcodes: `Assign`, `AssignStem`,
`Drop`, `Load`, `Call`, `Procedure`, `ExposeStem`, `ExposeVar`, `ReturnPlain`,
`ReturnValue`, `Signal` (also a trap), `Start` and `End`. CALL sets SIGL in the
caller's pool, SIGNAL and traps set SIGL in the pool that is left, a SYNTAX trap
RC as well. Buckets and hashing do not change what an operation does and are
left out, except that a new entry may make a pool grow, which bumps its
generation. Error 11 at the limit of calls is `Signal` or `End`, which are
always possible. Storage failure ends the exec and is covered by `End`.

`Mentions` is the set of names in the text of the exec: only those are assigned,
dropped, exposed or loaded by it; the VM adds RESULT, SIGL and RC.

`ProcFirst` and `Overlap` are assumptions about the program: PROCEDURE comes
first in a routine, and no EXPOSE names a tail whose stem is exposed too.
Section 6 says what the code does without them.

`VarService` is the promise: a scope shares some names with its caller and owns
the rest. `VarRefinement` reads it off the entries (`Seen`).

### VmControl

The control flow of `irx_bc_execute`, for any program: each action is an opcode,
or the opcodes of one clause where nothing comes between them, and TLC picks the
next clause.

| State | Code |
|---|---|
| `todo`, `held` | what a run still has to allocate before its first opcode, and the blocks it has: a name and which of that name, so that an array that moved, the copies of a call's arguments and a pool are blocks of their own |
| `frames`, `cap`, `gen` | `call_frames`; `gen` tells one allocation of the array from the next, after `vm_grow_frames` |
| `args` | what `call_args` points at |
| `base`, `counters` | `do_base` and the counter array of OP_DECFOR |
| `hidden` | the variables `__DO0_LIM`, `__DO0_STP` (one value, `bound`) and `__DO0_FOR` (`left`) ... in each pool, for DO ... TO |
| `stack` | the operand stack; of an operand only who pushed it is kept |
| `trap`, `cond` | trap state, saved and restored with a frame; the condition record of the work block, `fresh` when its sequence number is above `cond_base` |
| `acts`, `report` | not in the code: what the program means, and what the last step told its user |

`acts` holds for each active call the loops it is in with the iterations they
have left, the operands its expression waits with, and the traps that are on. The
actions read it only to choose clauses a compiled program can have there (an
END inside a loop, a RETURN with a value when one was computed). The properties
compare it with what the VM keeps, which is in other places and is shared among
calls.

| Actions | Opcodes |
|---|---|
| `Obtain`, `Again`, `Exit` | set-up, the next exec in the same environment, `done:` |
| `Push`, `Pop`, `Break` | any opcode that pushes, that pops, that fails |
| `OpenCount`, `OpenTo`, `OpenPlain` | the header of a loop |
| `NextCount`, `NextTo`, `LeaveLoop` | END and ITERATE; LEAVE and a condition that ends a loop |
| `Call`, `Procedure`, `ReturnPlain`, `ReturnValue` | OP_CALL and OP_CALL_BIF with growth of the frames, OP_PROC, OP_RETURN, OP_RETURNV |
| `CopyShort`, `ResultShort` | no storage for a copy of an argument, with the frame not yet counted; no storage for RESULT, with the frame no longer counted |
| `Signal`, `SignalOn`, `SignalOff`, `NoValue` | SIGNAL in its forms, the NOVALUE trap |

`Fail` is what every failing opcode does: SYNTAX takes it if it is trapped and
the class of the error can be trapped, otherwise the run ends with `Number`.
`DoneFrees` is `done:`: each pointer that is set is freed, the arguments of the
frames that `call_sp` counts, and the pools down the chain of `prev_vpool`. What
is held is not read there; `StorageOwned` compares the two.

Assumed of programs: labels stand outside loops, and a routine called as a
function returns a value; the code enforces neither. Three constants say how far
a run goes where the code does not keep what it says: `ForShared`, whether a
routine without PROCEDURE, which runs in its caller's pool, uses DO ... TO;
`ForDeep`, whether a DO ... TO may stand so deep in another that it has its
hidden names; `CopiesLost`, whether storage may run out where copies of arguments
are in a frame that `done:` does not visit. Variables are in `VarPool`, which has the
same CALL, RETURN and SIGNAL: there they move between pools, here between
frames, and the two modules agree on when a pool is made and left (`isolated`).

### ExecLoad, ExecRun, JclJob

One job step or TSO command: `JclJob` is the driver, `ExecLoad` what it calls to
get the exec, `ExecRun` what it calls to run it. A step of the model is a piece of
code between two requests for storage, between two blocks or lines read, or
between two calls; each request may be refused (`Short`, at most `MaxShort`
times), also those of nested execs.

| State | Code |
|---|---|
| `library` | what each DD holds: nothing, no such member, an unreadable data set, or a member of a RECFM with its blocks |
| `levels` | the C stack: one record per IRXEXEC under way, with its place in the code (`step`) and its locals |
| `held` | storage and opened members that somebody must give back, with the level that got them |
| `wb` | the fields of the work block that a run claims: source, name, stack end, error number; the condition record (`cond`), and for which levels it is newer than their `cond_base` (`fresh`); `errors`, not in the code, what happened in which level |
| `env`, `job` | whose environment it is; IRXJCL's place, its use counts that failed (`lost`), its messages and return code |

| Actions | Code |
|---|---|
| `LoadBegin`, `LoadNotFound`, `LoadOpen`, `LoadFopen` | `irx_load_build` and the two readers: the search through the DDs |
| `LoadBlock`, `LoadLine`, `LoadFgets`, `LoadBuild` | deblocking, sequence numbers, the line table and text pool that double, the INSTBLK |
| `DispatchChecks`, `DispatchSource`, `DispatchReturn` | `irx_exec_dispatch_stk`: the parameter list, the EXECBLK and INSTBLK, the buffer, claim and restore, the answer |
| `RunInit`, `Compile`, `ExecuteBytecode`, `Tokenize`, `WalkStorage`, `ExecuteWalk`, `Cleanup` | `irx_exec_run` |
| `Trap` | a condition that the VM hands to a handler of the exec: the base moves on |
| `CallNested`, `NestedGoesOn` | a program called by an exec that calls IRXEXEC itself |
| `Logon`, `JclStart`, `JclLoaded`, `JclFree`, `JclEnd` | IRXTMPW, `jcl_run` and `irxjcl.asm` |

A member is a sequence of blocks of few characters, of which only digit, blank
and other are told apart. What a RECFM does to a block, where the RDWs lead and
which columns are the sequence number are modelled; the bytes are not.
`Promised` is the text that the records of the member have, read independently
of block and buffer boundaries.

An engine is one step, but for the execs it calls and the conditions it traps. What
fails may have raised its number as a condition or not, and the number the exec
answers with is `Errnum`: that of the condition record, if anything was raised
since the exec began or last took a trap, also in an exec it called; else its own.

### Clauses, ClauseCompiler, ClauseVm, ClauseWalk, ControlFlow

`Clauses` is the structured reading of a program: `k` is the list of statements
that is left to run; a step takes the first and yields one event (a clause ran, a
condition was asked and answered, a count was evaluated, an end). `Texts` writes
the same program as tokens, which is all the engines see.

`ClauseCompiler` is the recursive descent of `irx#bcom.c` over those tokens, as
operators that carry a compile context (`struct bcom_ctx`): code, open loops with
their jumps still to patch, the trace map. `ClauseVm` has an action for each
control opcode, `ClauseWalk` one for each keyword of the token walk, with its
frames and its skipping. `ControlFlow` compiles, chooses an engine as
`irx_exec_run` does and runs it beside `k`; an engine that does something the
reference does not do at that point violates `AsPromised`.

Jump targets are places in the code; their encoding in two bytes is not modelled,
nor are expressions, which are one instruction and answer anything.

### ParseRules, ParseTemplate

`ParseRules` defines PARSE: the patterns cut the text into segments, and the
targets before a pattern share its segment, as the execs of `test/spec` have it.
`ParseTemplate` has the two implementations: the walk over template tokens, which
has collected the targets of a segment when it meets the pattern
(`AssignSegment`), and the compiled template, whose opcodes know one target at a
time and the PARSE frame of the VM. `U16` and `I16` are the widths of the
operands.

### DecimalRules, Decimal, Arithmetic

`Decimal` is `irx#arith.c` on sequences of digits: reading, normalising,
rounding, the operators, comparison, the output forms, TRUNC and FORMAT.
`DecimalRules` says the same on integers with exponents: the exact result,
rounded half-up once. `Arithmetic` evaluates an expression from the left as the
parser does, which gives each operation to those routines, and as the VM does,
whose slots remember small integers and bypass them. Comparison of what is no
number is part of both.

## 4. The runs

| Run | Bounds | Shows |
|---|---|---|
| `registry_serial` | 2 tasks, 3 environments, 5 slots of which 3 usable, TSO and batch, foreign anchor | the registry implements `EnvService`; FINDENVB never answers with a reentrant environment |
| `registry_svc` | 2 tasks, 3 environments, 4 slots of which 2 usable, one task may end | registry exact, anchor valid, tokens in slot order, slots never recycled, answers registered, at every interleaving of SVCs |
| `registry_rollback` | 2 tasks, 2 environments | **violation**: the rollback of IRXTERM stores ECTENVBK although another task changed it after the guard |
| `lifecycle_c` | 3 environments, 4 slots | nothing leaks through `irxinit()` and `irxterm()`, whichever GETMAIN or LOAD fails |
| `vars_cache` | 2 nested calls, 3 pool addresses, simple names only, generations 0..4 | OP_LOAD follows no freed entry; RETURN restores the scope; no pool is left |
| `vars_share` | 2 nested calls, stem `A.`, tail `A.1`, 2 values | pools implement `VarService`; compounds read their stem's default; no dangling reference |
| `vm_calls` | 2 frames growing to 3, 1 loop counter growing, 3 nested loops over 2 hidden names, 2 operands, 2 limits, SYNTAX and NOVALUE | counters, hidden loop variables, operands, arguments and traps stay with their call; errors are reported by their own number; a run holds what it needs and keeps nothing, whichever step ends it |
| `vm_forcount` | as `vm_calls`, DO ... TO in a routine without PROCEDURE | **violation**: the routine overwrites the limit and count of its caller's loop |
| `vm_release` | as `vm_calls`, storage running out between argument copies and for RESULT | **violation**: the run ends and the copies are held |
| `engines` | a loop of each kind around IF, SELECT, LEAVE, ITERATE and an inner loop; programs nested to 3 open blocks; 3 waiting jumps; counts 0 to 2; or templates of up to 5 items, texts of up to 5 characters; or expressions of one or two operators, DIGITS 1 to 3, FUZZ 0 to 2 | both engines do what the structured reading does, every error names its clause, and every engine reaches its end; PARSE and arithmetic of both engines equal their definitions, and both engines agree on PARSE |
| `control_leave` | two programs | **violation**: LEAVE in a simple group leaves the group, not the loop around it |
| `job` | 2 job steps, 2 nested levels, one storage shortage, 2 DDs, tables of 1 line and 2 bytes | the exec loaded is the member's text; the work block belongs to the exec that runs; everything is given back; return codes tell of their own exec; nothing runs twice |

Why the bounds are enough. Two tasks make every pair of concurrent services.
Three environments are the least for an out-of-order end: one below, one ending,
one above. Four or five slots hold both sentinels and a table that fills. The
generation only has to differ between filling a slot and using it; address reuse
needs one pool more than the deepest chain has. Three scopes make a chain of two
references, after which each further scope repeats the middle one. Values are
copied and never computed with, so two tell them apart.

`vars_share` leaves the cache out (`MaxGen` is 0, so `Load` does nothing) and
gives pools their addresses in order, because addresses matter to the cache
only; `vars_cache` leaves compounds out, because only simple names have slots,
and has address symmetry instead.

In `vm_calls` the array of frames doubles to a size above its maximum and is cut
(2, then 3, not 4), and the counters double more than once. Two nested loops are
the least for a loop to be hidden behind another. A third has the hidden names of
the first (`DoNames` is 2, and 10 in the code): a DO ... TO two levels inside a DO n
or a SELECT has the names of a depth that is open, and one inside a DO ... TO is
left out by `ForDeep`; with `ForDeep = TRUE` three nested `OpenTo` violate
`ForOwned`. `MCVmControl` adds a constraint: at most three things (loops, waiting
operands, changed traps) at a time, fewer when all frames are in use, when a trap
is on, when calls have arguments and after a condition, and not both kinds of
counts in one exec. Properties are checked in the states at the edge of the
constraint, too. The code's own sizes (16 frames, doubling to 128, cut at 250)
repeat these steps.

In `engines` the answers of conditions and the counts are chosen freely at each
evaluation, so a program stands for all programs of its shape. A jump of the
compiler depends on the block it is in, the blocks between it and its target, and
the clauses before and after both: the programs have a clause on each side of
every block and each kind of block inside each kind of loop. `ControlMax` of 3
(250 in the code) is reached by nested blocks, by blocks in IF clauses and by an
IF or SELECT at the limit; `PatchMax` of 3 (48) is filled by an UNTIL loop with two
LEAVEs and exceeded by a SELECT with four WHENs. `CodeMax` is reached by none: a full code
table takes the same fallback as THEN on a line of its own, which the compiler
refuses and a program here has. Programs for the walk leave out
what it does not promise to do (section 6).

In `job` a member of two or more lines makes both tables double at least once;
the F, V and U members have blocks with several records, a record that reaches
beyond its block, a short RDW, a broken block after good ones, and sequence
numbers in the first, or only in a later, record; `LineBuf` exceeds every record.
Two steps are the least for a second IRXJCL to find what the first left, two
levels for an exec to have a caller whose fields must come back, and one shortage
at any step is the failure each cleanup was written for.

In the clauses of `engines` three targets make a middle word that is neither first nor last,
two patterns make a segment between patterns, and the 16-bit operands are probed
with 40000 and 65538. `MaxVars` is 3 (16 in the code), which templates of four targets exceed.
Coefficients of three digits against `DIGITS` of 1 to 3 round up, round down,
carry into a new digit and cancel; the second operator works on a rounded first
result. `DefaultDigits` of 2 puts the edge of the small integers (nine digits in
the code) among the operands. `Slack` of 12 keeps the buffer of the output form
longer than any result. At DIGITS 2 and FUZZ 1, operands differ by exactly the
tolerance, by less and by more.

Deadlock is checked in the runs of the services and of `VmControl`, which can
always go on. It is not in `engines`, `control_leave` and `job`,
where a program, the last job or an expression is over at some point; there
`Progress` and the return code properties say that it ended rightly.

Fairness. `ControlFlow` and `MCEngines` assume `WF_vars(Next)`: an engine is a C function that is
called and runs until it returns, waiting for nobody, so it does not pause
between two opcodes for ever. Under it `Progress` says that from each clause the
engine reaches the next or the end. It does not say that a program ends: a
program may answer its conditions so that it loops, and the reference loops with
it. The other modules assume no fairness: their services are called from outside
and promise nothing about being called.

## 5. What is proved

`EnvRegistryProofs` proves, for any set of tasks, environments, table size and
sentinels:

- `TypeCorrect`: the type invariant.
- `TokensOrdered`: tokens grow with slot indexes. The inductive invariant
  `TokenInv` adds that unallocated slots have token 0, that everything at or
  above the high-watermark is unallocated, and that no token exceeds the counter.
- `SlotsNeverRecycled`: an allocated slot keeps its token.
- `AnchorSafe`, `RegistryAlwaysExact`: assuming that ENVBLOCKs are in permanent
  storage (`PermChoices \subseteq {TRUE}`, as IRXTSPRM's subpool 78 gives), the
  anchor does not dangle and the registry is exact.

The last two rest on `RegInv`. An environment is in the table between
`InitCommit` and `TermUnregister`; the anchor can point at one that is no longer
there only while the IRXTERM that took it out is about to roll the anchor back.
So the invariant says, besides the types: live slots name live environments and
lie below the high-watermark (`SlotsLive`); no environment is in two slots
(`SlotsUnique`); what a service in progress works on is live and in the table or
not, according to where the service is (`OpsInv`); two services never build or
end the same environment (`OpsApart`); the anchored environment is live and
TSO-attached (`AnchorLive`); each live environment is listed, being built or
ended, or met a full table (`AllListed`); and storage is permanent (`Permanent`).
Without `OpsApart` a second IRXTERM could free what the first has looked up;
without `OpsInv` the rollback could restore an environment being ended.

The same module, through `EnvRefinement`, still with permanent storage:

- `AnswersRegistered` (`FindAnswersRegistered`), for every interleaving, from
  `RegInv`: the LOAD in FINDENVB's cache stage may let other tasks in, but the
  registration is looked up after it.
- Assuming `Serialized`, one service at a time: `AnswersNotReentrant`
  (`FindNeverReentrant`), `RollbackGuardedAlone` (`RollbackGuarded`, which fails when
  services overlap) and `RegistryImplementsService` (`ImplementsEnvService`).

The three rest on `SerialInv`, which adds to `RegInv` and `TokenInv`: one task works
at a time (`Alone`); the table fills from the first usable slot on, and the
counter is the number of slots ever taken (`Allotted`), so the registry is full
after as many registrations as it has usable slots; only IRXTERM makes an
ENVBLOCK lose its PARMBLOCK (`Complete`), so FINDENVB's test of the pointer
before the flag does no harm; every TSO environment registered after the anchored
one is reentrant (`AnchorNewest`). The last is why the cached anchor is the
newest that FINDENVB's last stage would find, and why the slot order IRXTERM walks
leads back to the right one (`RollInv`). The simulation then takes each action:
InitCommit is Open, the answering steps of FINDENVB are Find (`AnswerSim`),
TermUnregister is Close for what is not the anchor (`UnregisterSim`), TermRollback
is Close for the anchor (`RollbackSim`), and the rest changes nothing that
EnvService sees (`QuietSim`).

`EnvLifecycleProofs`, for any number of environments, slots and routines:

- `TypeCorrect`; `UsesAlwaysBacked`: the use count of each routine is the number
  of environment slots that point at it, through either door. The inductive
  invariant `LifeInv` says what the INITENVB under way has built at each of its
  steps (`CallInv`) and counts the pointers as a cardinality (`UsesInv`).
- `NothingOrphaned`, `AlwaysReadyToRun`, `EnvblockFreedLast`, assuming
  `Doors \subseteq {"c"}`: callers use `irxinit()` and `irxterm()`. Through the load
  modules the code does otherwise (section 6). `OwnedInv` adds that storage
  belongs to an environment that is registered, refused or being built, and that
  what is registered and not being built is complete.

`VarPoolProofs`, for any finite set of names, any number of pool addresses and any
depth of calls:

- `TypeCorrect` and `NoStalePointer` (`CacheSound`). The inductive `CacheInv` says of
  each slot: if it hits in its pool, the entry it was filled from exists, or the
  generation has moved on since. Generations of freed pools return, so it is
  needed that no slot survives a change of scope.
- `AllPoolsDestroyed` (`NoPoolLeak`) and `CallerScopeBack` (`ScopeRestored`),
  assuming `ProcFirst`. `ScopeInv` matches the frames that made a pool with the
  chain of scopes.
- `NothingDangles` (`NoDanglingRef`), assuming `~Overlap`. `RefInv` says that
  a reference is in a pool that does not expose its stem, and that the exec's own
  pool exposes nothing: a DROP that ends below a reference has then passed it.

Section 6 shows that the code needs both assumptions.

`VarRefinementProofs`, for the same, assuming `ProcFirst` and `~Overlap`:

- `PoolsImplementService` (`ImplementsVarService`): the entries, read as scopes by
  `SeenIn`, do what `VarService` promises. `ShareInv` adds to `CacheInv`, `ScopeInv` and
  `RefInv` that a reference leads to an entry of the pool below that no stem
  hides (`Linked`), and that a pool that EXPOSE is still filling has no variable of
  its own (`Fresh`). From `Linked` follows that the entry an access ends in,
  through stems and then references, is in the scope that owns the name
  (`OwnedAt`). Then each operation is taken by itself, on any stack of pools:
  vpool_set is an assignment in the owner (`AssignedSeen`), vpool_drop and
  vpool_drop_stem_all free just the owner's entry and what leads to it
  (`DropFreesIs`, `DroppedSeen`, `ResetSeen`), a new or a popped pool is a scope
  begun or ended (`EnteredSeen`, `PoppedSeen`); and each action of the VM is put
  together from those. PROCEDURE needs to come first for SIGNAL and the end of
  the exec alone: they pop a pool for each frame that made one.
- `VariablesReadAsPromised` (`ReadsAsPromised`): vpool_get finds the owner's value
  or the stem's, from the same invariant.

`VmControlProofs`, for any sizes of the arrays and stacks, any depth of calls and
any program of the assumed kind:

- `BaseInvariant`: `BaseInv`, the types and how frames, pools and activations
  correspond. From it `TypeCorrect`, `ArgumentsFound` (`ArgsCurrent`),
  `TrapsOfTheCall` (`TrapsOwned`) and `ErrorsNamed` (`NamedForCause`).
  `StepBase` sorts the steps into six shapes: the run is cleared, works in its own
  activation, enters a routine, isolates it, returns, or does something else. The later proofs go by shape, not by opcode.
- `StackInPlace` (`OperandsInPlace`): `OperandsInv` counts for each call how many
  operands carry its mark, and says that marks never decrease.
- `CountersKept` (`CounterOwned`): `CounterInv` says where each loop's counter is,
  and that it lies below the place where the counters of the routines it calls
  start. The second part is why a call cannot touch it.
- `ForCountsKept` (`ForOwned`), assuming `~ForShared` and `~ForDeep`, at any depth of
  loops: `ForInv` says that the DO ... TO loops of one call have different hidden
  names (`NamesApart`), that a call with one has a pool of its own, and that this
  pool has the loop's limit, step and count. `vm_forcount` shows that the first
  assumption is needed; for the second see section 4.
- `StorageReleased` (`StorageOwned`), assuming `~CopiesLost`, which `vm_release` shows to
  be needed. `HeldInv` says what is held while a run is set up (what is no longer
  to be allocated), runs (the tables of the sizes they have, arguments and pools
  of its calls) and has ended (nothing). That each way out frees just that is
  `FreesAll`, `ResultFrees` and `JumpKeeps`: `done:`, RESULT without storage, and
  SIGNAL or a trap, which keep the tables.

The growing of the counters (`Room`) is a search for a power of two. That it ends
below twice the wanted size is a lemma (`RoomEnough`).

`JclJobProofs`, for any library, table sizes, number of steps and shortages:

- `JclInvariant`, and from it `WorkBlockIsOwn` (`FieldsOwned`), `EverythingGivenBack`
  (`GivenBack`), `ResultIsOwn` (`ResultTells`) and `ClausesRunOnce` (`RunOnce`). `JclInv`
  says for each step of a level what the level may hold (`LevelOK`), that the work
  block has the fields of the level that owns it and the saved ones are those of
  its caller, and for each step of IRXJCL what is left of the environment. For
  `ResultIsOwn`, `ErrorsInv` adds that a condition fresh to a level was raised in it or
  in one it called, and that what a level told had happened there.

`ExecLoadProofs`, for any libraries, search order, table sizes, blocking and
shortages, either reader and execs that call execs:

- `LoadIsAsPromised` (`LoadedAsPromised`): what a load that succeeds hands back is the
  text of the member that the first DD has. `TablesNeverOverrun` (`TablesFit`): the
  line table and the text pool hold what is put into them, also a line longer than
  twice the pool there was. The `job` run does not list it: tables that are too
  small change no text of the model, so it is a statement of its own, and proved.

Both assume `MembersReadable(C)`, for any set `C` of characters: a well-formed block
yields lines over `C` that fit the stdio reader's buffer and do not end with a
newline. It is about the data, not about the code: `fgets` makes two lines of a
record that is longer (section 6), and a text file has no newline inside a line.
`MCJclJob` has it as an ASSUME, so TLC evaluates it on the members of the run. The
sizes of `LoadAssumption` are numbers, and the first tables are not empty: a line table
of no entries would double to none.

The inductive `LoadInv` says, for each step of a load, which of the member's
records the tables hold: `Accumulated` relates the tables to the records put
into them, where the first record has decided about sequence numbers; `Read`
says that those are the records of the blocks read so far but for the ones still
at hand (`ReadOK`, `LineOK`), the latter as the reader delivers them (`Handed`:
through `fgets` with a newline, which `LineOf` takes off again). At the end the
records are all those of the member, and `LineOf` and the declarative
`WithoutBlanks` are the same (`WithoutBlanks` chooses a prefix that is shown to
be the only one). `RunInv` of `JclJobProofs` supplies that only the innermost
level loads.

That FlattenSeq, which the promise uses and which folds over the blocks, adds
one block at a time needs induction, which the library's theorems cannot be used for
here. `AllNumbers` replaces it: a set that has 0, and `k + 1` with each `k`, has every
number, since otherwise `k -> k + 1` would map a finite set one-to-one into a
smaller one. The lemmas that need it apply it to the set of the numbers of which
they hold.

Only model-checked:

- All that `ControlFlow` and `MCAlgorithms` compare in the `engines` run
  (`ParsedAsPromised`, `EnginesAgree`, `ComputesAsPromised`, `ComparesAsPromised` and
  the agreement of the engines with the structured reading): the parsers, the compiler and the digit algorithms are
  RECURSIVE operators, with which no module may be proved about.
- `Progress`: liveness is out of the prover's reach, as ENABLED is.
- The violations: a counterexample is its own proof.

## 6. Limits

Not modelled at all: the tokenizer (a pure function; the models start from its
tokens), I/O routines, user id, message id and TSO detection, debug and demo
programs, the string built-ins (thin wrappers over a library that is not in the
repository), the buckets of the string pool.

Not modelled of the modelled parts:

- Environments: the flag arithmetic of the PARMBLOCK, instruction-level
  interleaving inside slot allocation and machines with more than one CPU, for
  which the code makes no claim; a LOAD of IRXANCHR that fails inside slot
  allocation or release (`irx#anch.c:261-265`, `350-353`), which the code argues
  away, as the module is resident; what INITENVB reads from a stale slot of its own
  TCB (arbitrary storage). Through the load modules, a failing `irx_init_finish`
  leaves an environment registered without a work block; `ReadyToRun` is
  therefore checked for the C functions only.
- Variables: the `vpool_next` cursor, storage failure inside a pool operation,
  the token walk as a user of the pools.
- VM: RETURN without a value out of a function, which leaves the operand stack
  one short; the copy of the source of a PARSE clause, taken to come and go in one
  opcode; TRACE and ADDRESS; string opcodes. The stores that open a DO ... TO are one
  step. `NamedForCause` is about one exec: what an exec it calls raises is in
  `ExecRun`, and so is storage that runs out between a condition and its handler
  (`trap_jump` setting SIGL or RC), which ends the run under the number of the
  condition.
- Compiler and walk: expressions, CALL, SIGNAL, labels, INTERPRET, host commands.
- Loader and driver: STATUS and CLOSEDD, the parameter list of IRXLOAD, texts of
  messages. The load module IRXTERM of a job whose IRXTERM cannot be loaded leaves
  the environment; `GivenBack` excludes that case.
- Arithmetic: allocation failures, exponents beyond `int`.

### What the code does outside the runs' assumptions

Each of these was met while modelling. Where a model can show it, the constants
that do so are named.

Environments and variables:

- ENVBLOCKs in subpool 0 (`PermChoices = {FALSE}`): after a task ends, the cache
  stage of FINDENVB answers with freed storage (`CacheAnswersLive` fails).
- IRXTERM through its load module (`Doors = {"module"}`) leaves SUBCOMTB, work
  block and string pool (`NothingOutlivesEnvblock` fails).
- `EXPOSE A.1` out of a scope that has `A.` exposed (`Overlap = TRUE`) gives a
  variable of its own (`ExposedIsShared` fails), and DROP of `A.` may free what
  the tail refers to (`NoDanglingRef` fails).
- A second PROCEDURE in one call (`ProcFirst = FALSE`) overwrites the saved pool,
  and RETURN leaves a pool of the callee current (`ScopeRestored` fails).

Control instructions:

- Named LEAVE and ITERATE: the compiler never records a label, so a name is not
  looked up.
- More than 48 LEAVEs waiting in one loop answer IRXBC_ERR_PATCH. That code is
  not a fallback, and the exec ends with error 49; the limits of the other tables
  (`irx#exec.c:369-371`) fall back to the walk.
- A block at depth 250 compiles to an error and drops the rest of the block
  around it; the error ends the exec before that can matter.
- SELECT without a match and without OTHERWISE goes on silently in the VM and is
  an error in the walk.
- The walk ignores FOR in a DO instruction, and WHILE or UNTIL after TO. It skips
  a WHEN after the match, and an IF as THEN clause, by counting instructions: a
  THEN on the line of its WHEN, or an IF inside a skipped THEN, makes it skip one
  too many or too few. After OTHERWISE it skips one instruction only.

VM:

- A routine without PROCEDURE that has a DO ... TO of its own (`ForShared = TRUE`)
  overwrites the hidden variables of its caller (`vm_forcount`). Without any call, a
  DO ... TO ten levels inside another has its names, `depth % 10`
  (`irx#bcom.c:832`), and overwrites them (`ForDeep = TRUE`).
- Copies of arguments are lost when storage runs out for a later one, or for RESULT
  (`CopiesLost = TRUE`, `vm_release`).

Job steps:

- An exec whose own failure raises no condition answers with the number of one raised
  by an exec that it called, if there was one: `pars_errnum` and `vm_errnum` take
  whatever was raised since `cond_base`, which `irx#exec.c:515` calls "ours". An error
  inside an exec is told under a number from that exec or one below it, and
  `ResultTells` claims no more.
- A nested exec that names a host command environment in SUBCOM (`irx#exec.c:187`)
  changes it for its caller.
- No storage for the pool, the parser, the arguments or the label table ends a
  run with 20 and no message.
- No storage for the tables of LOAD is answered as not found, although
  `irx#load.c:71-72` has a code of its own for it.
- The stdio reader takes a read error for the end of the member and splits lines
  of 255 characters or more.

PARSE and arithmetic:

- In the VM, words before a pattern are taken from the whole text rather than from
  their segment (its source says so at `irx#bcom.c:1225-1229`); an empty literal
  drops its target; positions beyond 16 bits are cut off.
- In both engines, a position behind the last one gives an empty target, a relative
  position after a literal counts from the end of the match, and targets beyond
  the table are dropped. The walk does not resolve tails of compound targets.
- `//` rounds the product it subtracts, unary operators and ABS do not round,
  FORMAT rounds to decimals before it decides on an exponent. NUMERIC DIGITS may
  be set below FUZZ.
- With FUZZ, numbers are equal if their difference is less than the tolerance
  `10^(max_adj_exp - digits + fuzz)`. The comment above `irx_arith_compare`
  (`irx#arith.c:1396-1398`) says less or equal, which would make 10 and 11 equal at
  DIGITS 2, FUZZ 1; `FuzzyOrder` says less, as the code (`1486-1490`) and the comment
  there do.
- Comparing strings, the VM does not pad with blanks; the walk does.

The violations are listed with their sources in `PROJECT.json`. They are
disagreements between the code and its own comments or documents; `vm_forcount`
and `control_leave` change what a REXX program computes, `vm_release` loses storage.
