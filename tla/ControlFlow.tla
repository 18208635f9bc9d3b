---------------------------- MODULE ControlFlow ----------------------------
(***************************************************************************)
(* A program run by irx_exec_run (src/src/irx#exec.c): it is compiled and  *)
(* run by the bytecode VM or, if the compiler has no code for it, walked   *)
(* token by token.  k follows the events as the language promises them.    *)
(***************************************************************************)
EXTENDS ClauseVm, ClauseWalk

CONSTANT Programs    \* records [body : a list of statements, own, bytecode : Boolean]

VARIABLE engine      \* "vm", "walk", or "none": the compile failed

vars == <<engine, vmvars, walkvars, cvars>>

Source(p) == Texts(p.body, p.own)

\* bc_err_is_fallback
IsFallback(r) == r \in {"UNSUP", "CAPACITY"}

\* bc_compile_errnum
CompileError(r) == IF r = "LOOP" THEN 11 ELSE 49

\* The engine for a program.  The bytecode engine can be switched off.
Engine(c, bytecode) ==
    IF ~bytecode \/ IsFallback(c.rc) THEN "walk" ELSE IF c.rc = "OK" THEN "vm" ELSE "none"

\* Program p is compiled, and its engine called.
Called(p) ==
    LET c == Compile(Source(p)) IN
    /\ engine = Engine(c, p.bytecode)
    /\ VmIdle(IF engine = "walk" THEN NewContext(<<>>) ELSE c)
    /\ WalkIdle(IF engine = "walk" THEN Source(p) ELSE <<>>)
    /\ k = Start(p.body) /\ tick = FALSE
    /\ event = IF engine = "none" THEN Error(CompileError(c.rc)) ELSE [what |-> "start"]

Init == \E p \in Programs : Called(p)

Vm(Opcode) == engine = "vm" /\ Opcode /\ UNCHANGED <<engine, walkvars>>
Walk(Handler) == engine = "walk" /\ Handler /\ UNCHANGED <<engine, vmvars>>

Next ==
    \/ Vm(VmNewClause) \/ Vm(VmSay) \/ Vm(VmCond) \/ Vm(VmCount) \/ Vm(VmForInit)
    \/ Vm(VmDecFor) \/ Vm(VmToTest) \/ Vm(VmForTest) \/ Vm(VmStep) \/ Vm(VmJump)
    \/ Vm(VmBranch) \/ Vm(VmRaise) \/ Vm(VmExit)
    \/ Walk(WalkSay) \/ Walk(WalkEnd) \/ Walk(WalkDo)
    \/ Walk(WalkBlockEnd) \/ Walk(WalkIterate) \/ Walk(WalkLeave) \/ Walk(WalkIf)
    \/ Walk(WalkSelect) \/ Walk(WalkWhen) \/ Walk(WalkOtherwise)

\* The engine is called and runs until it returns: it does not pause.
Spec == Init /\ [][Next]_vars /\ WF_vars(Next)

-----------------------------------------------------------------------------
(* Properties.                                                             *)

\* The clauses an engine executes, the conditions it tests and the counts it
\* evaluates are those of the language, in its order: no jump is patched to a
\* wrong place, no clause is skipped or run twice, no count is off by one, and
\* an error stops the program only where a block is too deep.
AsPromised == [][CNext]_<<event, tick>>

\* An engine never runs forever between two clauses.
Progress == \A b \in BOOLEAN : (tick = b /\ ~Over) ~> (tick # b \/ Over)

\* The trace map names, for the code that runs a clause or evaluates for it,
\* that clause: also for the test of UNTIL, which is compiled after the body,
\* and for the WHENs of a SELECT.  Error messages give the line from the map.
ClauseNamed ==
    [][engine = "vm" /\ tick' # tick /\ "id" \in DOMAIN event' => ClauseAt(pc) = event'.id]_vars
=============================================================================
