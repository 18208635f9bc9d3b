------------------------------ MODULE ClauseVm ------------------------------
(***************************************************************************)
(* The control opcodes of the bytecode VM, irx_bc_execute in               *)
(* src/src/irx#bvm.c, running the code of ClauseCompiler.                  *)
(***************************************************************************)
EXTENDS ClauseCompiler

VARIABLES
    rc, code, map,   \* what the compiler made
    pc,
    top,         \* the top of the operand stack
    counters,    \* frames[n].counter of DO-count loops
    control,     \* control variables of DO loops
    hidden       \* __DO<n>_LIM, __DO<n>_STP and __DO<n>_FOR

vmvars == <<rc, code, map, pc, top, counters, control, hidden>>

VmIdle(program) ==
    /\ rc = program.rc /\ code = program.code /\ map = program.map /\ pc = 1 /\ top = FALSE
    /\ counters = [n \in {} |-> 0] /\ control = [id \in {} |-> 0] /\ hidden = [n \in {} |-> 0]

\* irx_bc_line_at: the clause that the code at p belongs to.
ClauseAt(p) == map[Max({i \in DOMAIN map : map[i].pc <= p})].id

-----------------------------------------------------------------------------
Set(f, x, v) == (x :> v) @@ f

\* The opcode at pc, which is not a jump, continues at the next.
Op(op) == ~Over /\ pc <= Len(code) /\ code[pc].op = op
Goto(p) == pc' = p /\ UNCHANGED <<rc, code, map>>
Ins == code[pc]

\* OP_NEWCLAUSE; without tracing and halt it does nothing.
VmNewClause ==
    /\ Op("NEWCLAUSE") /\ Goto(pc + 1)
    /\ Silent /\ UNCHANGED <<top, counters, control, hidden>>

VmSay ==
    /\ Op("SAY") /\ Goto(pc + 1) /\ Happen(Say(Ins.id))
    /\ UNCHANGED <<top, counters, control, hidden>>

VmCond ==
    /\ Op("COND") /\ Goto(pc + 1)
    /\ \E b \in BOOLEAN : Happen(Cond(Ins.id, b)) /\ top' = b
    /\ UNCHANGED <<counters, control, hidden>>

\* The expressions of a DO instruction: a count is left on the stack, the others
\* are stored in the control variable and the hidden ones.
VmCount ==
    /\ Op("COUNT") /\ Goto(pc + 1)
    /\ \E n \in Counts, m \in IF Ins.for THEN Counts ELSE {0} :
          /\ Happen(Count(Ins.id, n, m))
          /\ IF Ins.kind = "count" THEN top' = n /\ UNCHANGED <<control, hidden>>
             ELSE /\ control' = Set(control, Ins.id, 1)
                  /\ hidden' = Set(hidden, Ins.at, [lim |-> n, stp |-> Ins.by, for |-> m])
                  /\ UNCHANGED top
    /\ UNCHANGED counters

VmForInit ==
    /\ Op("FORINIT") /\ Goto(pc + 1)
    /\ counters' = Set(counters, Ins.at, top) /\ top' = (top > 0)
    /\ Silent /\ UNCHANGED <<control, hidden>>

DecForFirst(n) == n > 0
DecFor(n) == n - 1 > 0
VmDecFor ==
    /\ Op("DECFOR") /\ Goto(IF DecFor(counters[Ins.at]) THEN pc + 1 ELSE Ins.to)
    /\ counters' = [counters EXCEPT ![Ins.at] = @ - 1]
    /\ Silent /\ UNCHANGED <<top, control, hidden>>

\* emit_do_to_cond
InRange(v, h) == IF h.stp > 0 THEN v <= h.lim ELSE v >= h.lim
VmToTest ==
    /\ Op("TOTEST") /\ Goto(pc + 1)
    /\ top' = InRange(control[Ins.id], hidden[Ins.at])
    /\ Silent /\ UNCHANGED <<counters, control, hidden>>

VmForTest ==
    /\ Op("FORTEST") /\ Goto(pc + 1)
    /\ top' = (hidden[Ins.at].for > 0)
    /\ Silent /\ UNCHANGED <<counters, control, hidden>>

\* The increment of the control variable, and of the FOR count.
VmStep ==
    /\ Op("STEP") /\ Goto(pc + 1)
    /\ control' = [control EXCEPT ![Ins.id] = @ + hidden[Ins.at].stp]
    /\ hidden' = IF Ins.for THEN [hidden EXCEPT ![Ins.at].for = @ - 1] ELSE hidden
    /\ Silent /\ UNCHANGED <<top, counters>>

VmJump ==
    /\ Op("JMP") \/ Op("ITERATE") \/ Op("LEAVE")
    /\ Goto(Ins.to)
    /\ Silent /\ UNCHANGED <<top, counters, control, hidden>>

VmBranch ==
    /\ Op("JF") \/ Op("JT")
    /\ Goto(IF top = (Ins.op = "JT") THEN Ins.to ELSE pc + 1)
    /\ Silent /\ UNCHANGED <<top, counters, control, hidden>>

VmRaise ==
    /\ Op("RAISE") /\ Happen(Error(Ins.num))
    /\ UNCHANGED vmvars

VmExit ==
    /\ Op("EXIT") /\ Happen(End)
    /\ UNCHANGED vmvars
=============================================================================
