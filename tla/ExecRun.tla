------------------------------ MODULE ExecRun ------------------------------
(***************************************************************************)
(* IRXEXEC: irx_exec_dispatch_stk and irx_exec_run (src/src/irx#exec.c).   *)
(* One exec is run by one of two engines; a program it calls may run       *)
(* another in the same environment, on a level of its own.  The engines    *)
(* themselves are ControlFlow and VmControl.                               *)
(***************************************************************************)
EXTENDS ExecLoad

CONSTANTS
    Execs,        \* records [name, scans, compiles, ends, traps, arg], see below
    Calls,        \* parameter lists of programs that call IRXEXEC
    MaxDepth,     \* bound: nested IRXEXECs
    MaxNested     \* bound: IRXEXECs out of execs

VARIABLES
    wb,           \* the work block of the environment
    nested        \* how many execs have been called out of execs

runvars == <<loadvars, wb, nested>>

\* An exec as the engines see it: scans, whether it has no token error;
\* compiles, what irx_bc_compile answers if storage lasts; ends, the error it
\* ends in, or 0 for an EXIT; traps, the codes of the conditions its handlers take
\* before (0 for NOVALUE); arg, whether it is called with an argument.
ASSUME ExecsAssumption ==
    \A e \in Execs : /\ e.scans \in BOOLEAN /\ e.arg \in BOOLEAN
                     /\ e.compiles \in {"OK", "FALLBACK", "LOOP", "PATCH"} /\ e.ends \in 0 .. 99
                     /\ e.traps \subseteq 0 .. 99

SYNTAX_STORAGE == 5
SYNTAX_BASE == 20000                    \* IRXEXEC_SYNTAX_BASE
EXIT == 7                               \* the value on EXIT
NOBODY == 0                             \* no source, no stack end: no level's

\* cond is the code of wkbi_last_condition, 0 if there is none or it is no SYNTAX
\* number; fresh, the levels whose cond_base wkbi_cond_seq has moved past.  errors is
\* history: <<level, number>> for each error in an exec, or raised in one it called.
NewWorkBlock(bytecode) ==
    [source |-> NOBODY, name |-> "", stack |-> NOBODY, address |-> "MVS", error |-> 0,
     bytecode |-> bytecode, execs |-> 0, fallbacks |-> 0, cond |-> 0, fresh |-> {}, errors |-> {}]

Compiled(n) == IF n = "LOOP" THEN 11 ELSE 49       \* bc_compile_errnum

Idle == UNCHANGED <<held, shortages>>
Same == UNCHANGED <<library, nested>>

\* The caller of IRXEXEC gets rc.
Returned(rc) == [step |-> "returned", result |-> rc]

\* irx_emsg_syntax: the message of error n, as an error of the innermost exec;
\* its level remembers it as told.
Noted(n) == wb' = [wb EXCEPT !.error = n, !.errors = @ \cup {<<Depth, n>>}]

-----------------------------------------------------------------------------
(* irx_exec_dispatch_stk                                                   *)

\* The checks of the parameter list, in their order; asm/irxexec.asm has looked
\* for the end of the list and its addresses.
FirstChecks(c) ==
    CASE ~c.list -> 32
      [] c.env = "bad" -> 32
      [] c.env = "notfound" -> 28
      [] c.inst = "bad" -> 32
      [] c.inst = "none" /\ c.exec = "ok" -> 20
      [] c.inst = "none" /\ c.exec # "ok" -> 32
      [] OTHER -> 0

Verdict(c) == IF FirstChecks(c) # 0 THEN FirstChecks(c) ELSE IF c.eval THEN 0 ELSE 32

\* EXECBLK's SUBCOM is the host command environment from here on.
Override(c, w) ==
    IF FirstChecks(c) = 0 /\ c.subcom THEN [w EXCEPT !.address = "SUB"] ELSE w

DispatchChecks ==
    /\ At("dispatch")
    /\ wb' = Override(Top.call, wb)
    /\ Update(IF Verdict(Top.call) = 0 THEN [step |-> "source"] ELSE Returned(Verdict(Top.call)))
    /\ Idle /\ Same

\* The error number, name and stack end are this exec's while it runs.
ClaimWorkBlock(w) ==
    [w EXCEPT !.name = Top.exec.name, !.error = 0, !.stack = Depth]

DispatchSource ==
    /\ At("source")
    /\ \/ /\ Got({"src"})
          /\ wb' = ClaimWorkBlock(wb)
          /\ Update([step |-> "init", oldname |-> wb.name, oldstack |-> wb.stack])
       \/ /\ Short({}) /\ Noted(SYNTAX_STORAGE)
          /\ Update([step |-> "returned", result |-> 20, rc |-> 20])
    /\ Same

\* What the work block had before comes back; the error number does not.
Restore(w, l) == [w EXCEPT !.name = l.oldname, !.stack = l.oldstack]

ReturnCode(rc, exit, error) ==
    IF rc # 0 /\ error # 0 THEN SYNTAX_BASE + error ELSE IF rc # 0 THEN rc ELSE exit

DispatchReturn ==
    /\ At("ran")
    /\ wb' = Restore(wb, Top)
    /\ Freed({"src"})
    /\ Update(Returned(ReturnCode(Top.rc, Top.exit, wb.error)))
    /\ Same

-----------------------------------------------------------------------------
(* irx_exec_run                                                            *)

\* irx_lstr_init, the source for SOURCELINE, and cond_base: what is raised from now
\* on is fresh.
RunInit ==
    /\ At("init")
    /\ \/ /\ Update([step |-> IF wb.bytecode THEN "compile" ELSE "tokenize", exit |-> 0,
                     retained |-> TRUE, oldsource |-> wb.source])
          /\ wb' = [wb EXCEPT !.source = Depth, !.fresh = @ \cap 1 .. Depth - 1,
                              !.errors = {x \in @ : x[1] < Depth}]
          /\ Idle
       \/ /\ Short({}) /\ UNCHANGED wb
          /\ Update([step |-> "cleanup", rc |-> 20, exit |-> 0, retained |-> FALSE])
    /\ Same

Failed(n) == [step |-> "cleanup", rc |-> 20, told |-> n]

\* bc_err_is_fallback; a source that does not scan is left to the token walk.
IsFallback(answer) == answer = "FALLBACK"

Compile ==
    /\ At("compile")
    /\ LET answer == IF Top.exec.scans THEN Top.exec.compiles ELSE "TOKN" IN
       \/ answer = "OK" /\ Got({"bc"}) /\ GoTo("bytecode") /\ UNCHANGED wb
       \/ /\ IsFallback(answer) /\ Idle /\ GoTo("tokenize")
          /\ wb' = [wb EXCEPT !.fallbacks = @ + 1]
       \/ answer = "TOKN" /\ Idle /\ GoTo("tokenize") /\ UNCHANGED wb
       \/ /\ answer \notin {"OK", "TOKN"} /\ ~IsFallback(answer)
          /\ Idle /\ Noted(Compiled(answer)) /\ Update(Failed(Compiled(answer)))
       \/ Short({}) /\ Noted(SYNTAX_STORAGE) /\ Update(Failed(SYNTAX_STORAGE))
    /\ Same

\* The clauses of an exec begin with its first and end with its last; the
\* engine that executes them is one more of those that did.
Executing == At("bytecode") \/ At("walk")
Clauses(engine) == Append(Top.engines, engine)

\* A mutant: an error of the VM is retried by the token walk.
AfterBytecodeRetry(rc) == IF rc = 0 THEN "cleanup" ELSE "tokenize"

\* After irx_bc_execute: what an error leaves is final.
AfterBytecode(rc) == "cleanup"

\* irx_cond_raise, in the innermost exec: the condition record of the environment
\* is of this code, and fresh to every exec, to those that wait as well.
Raised(code, w) ==
    [w EXCEPT !.cond = code, !.fresh = 1 .. Depth, !.errors = @ \cup (1 .. Depth) \X {code}]

\* A mutant: the last condition is taken whenever it was raised.
ErrnumOld(n, w) == IF w.cond # 0 THEN w.cond ELSE n

\* pars_errnum, vm_errnum: the last condition, if it was raised since the exec began
\* or last took a trap, be it in an exec it called; else a number of its own.
Errnum(n, w) == IF Depth \in w.fresh /\ w.cond # 0 THEN w.cond ELSE n

\* What an engine leaves that ran to the error n, or to an EXIT if n is 0.
Result(engine, n, told) ==
    LET rc == IF n = 0 THEN 0 ELSE 20 IN
    [step |-> IF engine = "vm" THEN AfterBytecode(rc) ELSE "cleanup", rc |-> rc,
     exit |-> IF n = 0 THEN EXIT ELSE 0, engines |-> Clauses(engine), told |-> told]

EngineFails(engine, n, w) ==
    LET told == Errnum(n, w) IN
    /\ Update(Result(engine, n, told))
    /\ wb' = [w EXCEPT !.error = told, !.errors = @ \cup {<<Depth, n>>}]

\* The operation that fails raises its number as a condition or raises nothing; or
\* storage ends between a condition and its handler.
Executed(engine, traps, w) ==
    \/ /\ Top.exec.ends = 0
       /\ Update(Result(engine, 0, 0)) /\ wb' = w /\ UNCHANGED shortages
    \/ /\ Top.exec.ends # 0
       /\ \E after \in {w, Raised(Top.exec.ends, w)} : EngineFails(engine, Top.exec.ends, after)
       /\ UNCHANGED shortages
    \/ /\ shortages < MaxShort /\ shortages' = shortages + 1
       /\ \E after \in {w} \cup {Raised(c, w) : c \in traps \cup {SYNTAX_STORAGE}} :
              EngineFails(engine, SYNTAX_STORAGE, after)

\* irx_bc_execute to its end.
ExecuteBytecode ==
    /\ At("bytecode")
    /\ Executed("vm", Top.exec.traps, [wb EXCEPT !.execs = @ + 1])
    /\ held' = held \ Mine({"bc"})
    /\ Same

\* A handler of the exec takes a condition (trap_jump), and what was raised up to now
\* is no longer fresh.  The token walk has no handlers.
Trap ==
    /\ At("bytecode")
    /\ \E c \in Top.exec.traps :
          wb' = [Raised(c, wb) EXCEPT !.fresh = 1 .. Depth - 1]
    /\ UNCHANGED levels /\ Idle /\ Same

\* irx_tokn_run; its error is reported with the line.
Tokenize ==
    /\ At("tokenize")
    /\ \/ Top.exec.scans /\ Got({"tokens"}) /\ GoTo("vpool") /\ UNCHANGED wb
       \/ ~Top.exec.scans /\ Idle /\ Noted(6) /\ Update(Failed(6))
       \/ Short({}) /\ Noted(SYNTAX_STORAGE) /\ Update(Failed(SYNTAX_STORAGE))
    /\ Same

\* A failure that is not reported.
Silent == [step |-> "cleanup", rc |-> 20]

\* vpool_create, irx_pars_init, the argument and the label scan: each may find
\* storage short.  The cells of the argument (la, le) are the parser's from
\* then on; before, they are given back.
WalkStorage ==
    /\ \/ At("vpool") /\ Got({"vpool"}) /\ GoTo("parser")
       \/ At("parser") /\ Got({"frames", "labels"}) /\ GoTo(IF Top.exec.arg THEN "args" ELSE "labels")
       \/ At("args") /\ Got({"la", "le", "arg"}) /\ GoTo("labels")
       \/ At("labels") /\ Idle /\ GoTo("walk")
       \/ (At("vpool") \/ At("parser") \/ At("args") \/ At("labels")) /\ Short({}) /\ Update(Silent)
    /\ UNCHANGED wb /\ Same

\* irx_pars_run to its end.
ExecuteWalk ==
    /\ At("walk")
    /\ Executed("walk", {}, wb)
    /\ UNCHANGED held /\ Same

WalkNames == {"frames", "labels", "la", "le", "arg", "vpool", "tokens"}

\* A mutant: the argument is the caller's.
CleanupKeepsArg == WalkNames \ {"arg"}

\* What cleanup: gives back.
CleanupNames == WalkNames

\* A mutant: none is retained afterwards.
RestoreNoSource(w, l) == [w EXCEPT !.source = NOBODY]

\* The source retained before comes back, if this run got as far as retaining.
RestoreSource(w, l) == IF l.retained THEN [w EXCEPT !.source = l.oldsource] ELSE w

Cleanup ==
    /\ At("cleanup")
    /\ Freed(CleanupNames)
    /\ wb' = RestoreSource(wb, Top)
    /\ GoTo("ran")
    /\ Same

-----------------------------------------------------------------------------
(* Programs called by an exec.                                             *)

Level(step, exec, reader, call) ==
    [step |-> step, exec |-> exec, reader |-> reader, call |-> call, rc |-> 0, told |-> 0,
     result |-> 0, engines |-> <<>>]

\* A host command or function of the exec loads another and runs it.
CallNested ==
    /\ Executing
    /\ Depth < MaxDepth /\ nested < MaxNested
    /\ nested' = nested + 1
    /\ \E e \in Execs, c \in Calls : levels' = Append(levels, Level("load", e, "bpam", c))
    /\ UNCHANGED <<library, held, shortages, wb>>

\* It goes on when it has the exec loaded, and frees it afterwards.
NestedGoesOn ==
    /\ Depth > 1
    /\ \/ /\ At("loaded") /\ Top.loadrc = "OK"
          /\ GoTo("dispatch") /\ Idle
       \/ /\ At("loaded") /\ Top.loadrc # "OK"
          /\ levels' = Front(levels) /\ Idle
       \/ /\ At("returned")
          /\ FreeInstblk /\ UNCHANGED shortages
          /\ levels' = Front(levels)
    /\ UNCHANGED <<library, wb, nested>>

RunNext ==
    \/ DispatchChecks \/ DispatchSource \/ DispatchReturn
    \/ RunInit \/ Compile \/ ExecuteBytecode \/ Trap
    \/ Tokenize \/ WalkStorage \/ ExecuteWalk \/ Cleanup
    \/ CallNested \/ NestedGoesOn

-----------------------------------------------------------------------------
(* What a run promises.                                                    *)

\* While an exec executes, the environment's source, name and stack end are
\* its own, and so is the buffer SOURCELINE reads: also after a nested exec, and
\* whatever way that ended.
FieldsOwned ==
    Executing =>
        /\ wb.source = Depth /\ wb.stack = Depth /\ wb.name = Top.exec.name
        /\ <<"src", Depth>> \in held

\* A level that has ended holds no storage, no opened member: whatever step
\* failed for lack of storage.
NothingLeft == \A h \in held : h[2] <= Depth

\* The return code says how this exec ended: 20000 + n only for an error n that
\* happened in it or was raised in an exec it called, since it began: not for one
\* that an exec before it left in the work block or in the condition record.
ResultTells ==
    \A d \in DOMAIN levels :
        LET l == levels[d] IN
        l.step = "returned" /\ Verdict(l.call) = 0 =>
            /\ l.result = CASE l.rc = 0 -> EXIT
                            [] l.rc # 0 /\ l.told # 0 -> SYNTAX_BASE + l.told
                            [] OTHER -> 20
            /\ l.told # 0 => <<d, l.told>> \in wb.errors

\* The clauses of an exec are executed once, by one engine: what cannot be
\* compiled is walked, what was executed is not.
RunOnce == \A d \in DOMAIN levels : Len(levels[d].engines) <= 1
=============================================================================
