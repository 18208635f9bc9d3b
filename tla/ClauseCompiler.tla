--------------------------- MODULE ClauseCompiler ---------------------------
(***************************************************************************)
(* The compiler of control instructions, src/src/irx#bcom.c: one pass over *)
(* the tokens of a program that emits code, patches forward jumps when     *)
(* their target is known, and keeps the trace map from code to clauses.    *)
(*                                                                         *)
(* A jump holds the place it goes to; offsets are not modelled.  Code for  *)
(* an expression is one instruction.                                       *)
(***************************************************************************)
EXTENDS Clauses, FiniteSetsExt

CONSTANTS
    PatchMax,     \* BCOM_MAX_LPATCH: jumps of a kind that wait in one block
    CodeMax,      \* BCOM_MAX_CODE, in instructions
    DoNames       \* 10: hidden loop variables are named by depth % 10

\* struct bcom_ctx
NewContext(tokens) ==
    [tokens |-> tokens, pos |-> 1, code |-> <<>>, loops |-> <<>>, ifs |-> 0,
     map |-> <<>>, rc |-> "OK"]

\* BC_FAIL_UNSUP, and the other codes.  The first failure ends the compile.
Fail(c, rc) == IF c.rc = "OK" THEN [c EXCEPT !.rc = rc] ELSE c

-----------------------------------------------------------------------------
(* Tokens.                                                                 *)

Here(c) == IF c.pos <= Len(c.tokens) THEN c.tokens[c.pos] ELSE Tok("EOF", 0)
At(c, t) == Here(c).t = t
Advance(c) == [c EXCEPT !.pos = @ + 1]

\* consume_eoc and consume_newline take one clause end, skip_eoc all of them.
ConsumeEoc(c) == IF At(c, "EOC") THEN Advance(c) ELSE c

RECURSIVE SkipEoc(_)
SkipEoc(c) == IF At(c, "EOC") THEN SkipEoc(Advance(c)) ELSE c

-----------------------------------------------------------------------------
(* Code.                                                                   *)

Place(c) == Len(c.code) + 1

\* code_reserve, emit_byte and the operands after it.
Emit(c, ins) ==
    IF Len(c.code) >= CodeMax THEN Fail(c, "CAPACITY") ELSE [c EXCEPT !.code = Append(@, ins)]

\* emit_jmp_op: the place of the jump is Place before it.
EmitJump(c, op) == Emit(c, [op |-> op, to |-> 0])

\* patch_jmp_to: the jump at p goes to `to`.
Patch(c, p, to) == IF c.rc = "OK" THEN [c EXCEPT !.code[p].to = to] ELSE c
PatchHere(c, p) == Patch(c, p, Place(c))
PatchAll(c, ps, to) ==
    IF c.rc # "OK" THEN c
    ELSE [c EXCEPT !.code = [i \in DOMAIN @ |->
                                IF i \in ps THEN [@[i] EXCEPT !.to = to] ELSE @[i]]]

EmitBackSelf(c, op, to) == Patch(EmitJump(c, op), Place(c), Place(c))
EmitBack(c, op, to) == Patch(EmitJump(c, op), Place(c), to)

\* lmap_put: an entry at the same place is replaced.
MapPut(c, id) ==
    LET n == Len(c.map) e == [pc |-> Place(c), id |-> id]
    IN IF c.rc # "OK" THEN c
       ELSE IF n > 0 /\ c.map[n].pc = e.pc THEN [c EXCEPT !.map[n] = e]
       ELSE [c EXCEPT !.map = Append(@, e)]

\* bc_mark_clause.  Clauses that evaluate nothing have no id.
MarkClause(c) == MapPut(c, IF "id" \in DOMAIN Here(c) THEN Here(c).id ELSE 0)

\* bc_remark_clause
RemarkNone(c, n) == c
Remark(c, n) == IF n \in DOMAIN c.map THEN MapPut(c, c.map[n].id) ELSE c

-----------------------------------------------------------------------------
(* The stack of open blocks, struct bc_loop_ctx.                           *)

\* loop_push.  target is 0 as long as iterate_known is 0.
Push(c, type) ==
    IF Len(c.loops) >= ControlMax THEN Fail(c, "LOOP")
    ELSE [c EXCEPT !.loops = Append(@, [type |-> type, target |-> 0,
                                        leaves |-> {}, iterates |-> {}])]

Depth(c) == Len(c.loops)

\* loop_patch_leaves and loop_pop.
Pop(c) ==
    LET d == PatchAll(c, c.loops[Depth(c)].leaves, Place(c))
    IN [d EXCEPT !.loops = Front(@)]

\* loop_set_iterate
SetIterate(c, to) ==
    LET f == c.loops[Depth(c)]
    IN [PatchAll(c, f.iterates, to) EXCEPT
           !.loops[Depth(c)] = [f EXCEPT !.target = to, !.iterates = {}]]

\* loop_find: innermost block that is not a SELECT.  Blocks have no label:
\* nothing sets the field, and a name finds none.
LoopFind(c, named) ==
    LET all == {i \in DOMAIN c.loops : c.loops[i].type # "select" /\ ~named}
    IN IF all = {} THEN 0 ELSE Max(all)

\* select_frame
SelectFind(c) ==
    LET all == {i \in DOMAIN c.loops : c.loops[i].type = "select"}
    IN IF all = {} THEN 0 ELSE Max(all)

\* loop_add_leave_patch, loop_add_iterate_patch: the jump at p waits in block f.
AddLeave(c, f, p) ==
    IF Cardinality(c.loops[f].leaves) >= PatchMax THEN Fail(c, "PATCH")
    ELSE [c EXCEPT !.loops[f].leaves = @ \cup {p}]
AddIterate(c, f, p) ==
    IF Cardinality(c.loops[f].iterates) >= PatchMax THEN Fail(c, "PATCH")
    ELSE [c EXCEPT !.loops[f].iterates = @ \cup {p}]

-----------------------------------------------------------------------------
(* Statements.                                                             *)

\* bc_skip_to_end: where the END of the innermost open block stands, or 0.
SkipToEnd(c) ==
    LET opens(t) == t \in {"DO", "SELECT"}
        balance[i \in c.pos - 1 .. Len(c.tokens)] ==
            IF i < c.pos THEN 0
            ELSE balance[i - 1] + (IF opens(c.tokens[i].t) THEN 1 ELSE 0)
                                - (IF c.tokens[i].t = "END" THEN 1 ELSE 0)
        ends == {i \in c.pos .. Len(c.tokens) : balance[i] < 0}
    IN IF ends = {} THEN 0 ELSE Min(ends)

\* bc_block_refused: the control stack is full.
Refused(c) == Depth(c) + c.ifs >= ControlMax
Refuse(c) ==
    LET end == SkipToEnd(c)
    IN IF end = 0 THEN Fail(c, "UNSUP")
       ELSE Emit([c EXCEPT !.pos = end], [op |-> "RAISE", num |-> 11])

Eval(c, ins) == Emit(Advance(c), ins)
EvalCond(c, id) == Eval(c, [op |-> "COND", id |-> id])

\* C_say_bc; any clause without control flow.
SayStmt(c) == Eval(c, [op |-> "SAY", id |-> Here(c).id])

\* C_leave_bc
LeaveStmt(c) ==
    LET f == IF LoopFind(c, Here(c).named) # 0 THEN LoopFind(c, Here(c).named) ELSE SelectFind(c)
        d == EmitJump(Advance(c), "LEAVE")
    IN IF f = 0 THEN Fail(c, "UNSUP") ELSE AddLeave(d, f, Place(c))

\* C_iterate_bc
IterateStmt(c) ==
    LET f == LoopFind(c, Here(c).named)
    IN IF f = 0 THEN Fail(c, "UNSUP")
       ELSE IF c.loops[f].target # 0 THEN EmitBack(Advance(c), "ITERATE", c.loops[f].target)
       ELSE AddIterate(EmitJump(Advance(c), "ITERATE"), f, Place(c))

RECURSIVE Stmt(_), StmtsUntilEnd(_), Whens(_)

\* A condition that stands before THEN, and the clause after THEN: leaves the
\* place of the jump over the clause to the caller.
ThenClause(c, id) ==
    LET d == EvalCond(c, id)
    IN IF ~At(d, "THEN") THEN Fail(d, "UNSUP")
       ELSE ConsumeEoc(Stmt(EmitJump(ConsumeEoc(Advance(d)), "JF")))

\* C_if_bc
IfStmt(c) ==
    LET jf == Place(c) + 1
        d == ThenClause(c, Here(c).id)
        jmp == Place(d)
        e == PatchHere(EmitJump(d, "JMP"), jf)
    IN IF d.rc # "OK" THEN d
       ELSE IF ~At(d, "ELSE") THEN PatchHere(d, jf)
       ELSE PatchHere(ConsumeEoc(Stmt(ConsumeEoc(Advance(e)))), jmp)

\* C_select_bc: the WHENs of the open SELECT, then OTHERWISE or END.
Whens(c) ==
    LET b == SkipEoc(c)
        jf == Place(b) + 1
        d == ThenClause(MarkClause(b), Here(b).id)
        e == EmitJump(d, "JMP")
    IN IF c.rc # "OK" THEN c
       ELSE CASE At(b, "WHEN") ->
                     IF e.rc # "OK" THEN e
                     ELSE Whens(PatchHere(AddLeave(e, Depth(e), Place(d)), jf))
              [] At(b, "OTHERWISE") -> StmtsUntilEnd(ConsumeEoc(Advance(b)))
              [] At(b, "END") -> b
              [] OTHER -> Fail(b, "UNSUP")

\* END, and the name that may follow it.
ConsumeEnd(c) == IF At(c, "END") THEN Advance(c) ELSE c

SelectStmt(c) ==
    LET d == Whens(Push(ConsumeEoc(Advance(c)), "select"))
    IN IF d.rc # "OK" THEN d ELSE Pop(ConsumeEnd(d))

-----------------------------------------------------------------------------
(* DO instructions, C_do_bc.  depth numbers the counter or the hidden      *)
(* variables of the loop.                                                  *)

\* What the instruction evaluates once, before the loop.
Header(c, depth) ==
    LET t == Here(c)
        ev == [op |-> "COUNT", id |-> t.id, for |-> t.for, kind |-> t.kind, by |-> t.by,
               at |-> depth % DoNames]
    IN IF t.kind \in Counted THEN Eval(c, ev) ELSE Advance(c)

\* OP_FORINIT and its test.
EnterCount(c, depth) == EmitJump(Emit(c, [op |-> "FORINIT", at |-> depth]), "JF")

\* The test at the top of the loop: WHILE, or emit_do_to_cond and FOR.
LoopTest(c, t, depth) ==
    CASE t.kind = "while" -> EmitJump(Emit(c, [op |-> "COND", id |-> t.id]), "JF")
      [] t.kind = "to" ->
             LET d == EmitJump(Emit(c, [op |-> "TOTEST", id |-> t.id, at |-> depth % DoNames]), "JF")
                 e == EmitJump(Emit(d, [op |-> "FORTEST", at |-> depth % DoNames]), "JF")
             IN IF ~t.for \/ e.rc # "OK" THEN d ELSE AddLeave(e, Depth(e), Place(d) + 1)
      [] OTHER -> c

\* The iterate section and the jump back.
LoopEnd(c, t, depth, top) ==
    LET place == Place(c)
        d == SetIterate(c, place)
    IN CASE t.kind = "block" -> d
         [] t.kind = "count" ->
                PatchHere(EmitBack(Emit(d, [op |-> "DECFOR", at |-> depth, to |-> 0]), "JMP", top),
                          place)
         [] t.kind = "to" ->
                EmitBack(Emit(d, [op |-> "STEP", id |-> t.id, for |-> t.for,
                                  at |-> depth % DoNames]), "JMP", top)
         [] t.kind = "until" ->
                LET e == EmitJump(Emit(d, [op |-> "COND", id |-> t.id]), "JT")
                IN IF e.rc # "OK" THEN e ELSE EmitBack(AddLeave(e, Depth(e), place + 1), "JMP", top)
         [] OTHER -> EmitBack(c, "JMP", top)

DoStmt(c) ==
    LET t == Here(c)
        depth == Depth(c)
        clause == Len(c.map)
        pushed == Push(ConsumeEoc(Header(c, depth)), t.kind)
        entered == IF t.kind = "count" THEN EnterCount(pushed, depth) ELSE pushed
        top == Place(entered)
        looped == IF t.kind \in {"while", "forever"}
                  THEN [entered EXCEPT !.loops[depth + 1].target = top] ELSE entered
        tested == LoopTest(Emit(looped, [op |-> "NEWCLAUSE"]), t, depth)
        \* cond_jf: the jump out of the loop before its first iteration.
        out == CASE t.kind = "count" -> top - 1 [] t.kind \in {"to", "while"} -> top + 2 [] OTHER -> 0
        body == Remark(StmtsUntilEnd(tested), clause)
        ended == LoopEnd(body, t, depth, top)
    IN CASE entered.rc # "OK" -> entered
         [] tested.rc # "OK" -> tested
         [] body.rc # "OK" -> body
         [] ended.rc # "OK" -> ended
         [] OTHER -> ConsumeEnd(Pop(IF out # 0 THEN PatchHere(ended, out) ELSE ended))

-----------------------------------------------------------------------------
\* bc_stmt: the clause is recorded and announced, then compiled.
Stmt(c) ==
    LET t == Here(c).t
        d == Emit(MarkClause(c), [op |-> "NEWCLAUSE"])
        if(e) == [IfStmt([e EXCEPT !.ifs = @ + 1]) EXCEPT !.ifs = e.ifs]
    IN IF c.rc # "OK" \/ t \in {"EOC", "EOF"} THEN c
       ELSE IF d.rc # "OK" THEN d
       ELSE IF t \in {"IF", "SELECT", "DO"} /\ Refused(d) THEN Refuse(d)
       ELSE CASE t = "SAY" -> SayStmt(d)
              [] t = "IF" -> if(d)
              [] t = "SELECT" -> SelectStmt(d)
              [] t = "DO" -> DoStmt(d)
              [] t = "ITERATE" -> IterateStmt(d)
              [] t = "LEAVE" -> LeaveStmt(d)
              [] OTHER -> Fail(d, "UNSUP")

\* bc_stmts_until with END as the only stop.
StmtsUntilEnd(c) ==
    LET d == SkipEoc(c)
    IN IF c.rc # "OK" THEN c
       ELSE IF At(d, "EOF") \/ At(d, "END") THEN d
       ELSE StmtsUntilEnd(ConsumeEoc(Stmt(d)))

\* bc_program; labels are not modelled here.
RECURSIVE Program(_)
Program(c) ==
    LET d == SkipEoc(c)
    IN IF c.rc # "OK" THEN c
       ELSE IF At(d, "EOF") THEN Emit(d, [op |-> "EXIT"])
       ELSE Program(ConsumeEoc(Stmt(d)))

\* irx_bc_compile
Compile(tokens) == Program(NewContext(tokens))
=============================================================================
