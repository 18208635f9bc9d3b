----------------------------- MODULE ClauseWalk -----------------------------
(***************************************************************************)
(* Control instructions of the token-walk parser, src/src/irx#pars.c and   *)
(* src/src/irx#ctrl.c: exec_clause runs the clause at the position in the  *)
(* tokens and moves it; DO and SELECT open frames; an IF whose THEN clause *)
(* opened frames waits until they are closed, to skip its ELSE.            *)
(*                                                                         *)
(* Not modelled: the C stack guard of kw_if, labels before DO, FOR in a    *)
(* DO instruction (which runs as a command), UNTIL after TO.               *)
(***************************************************************************)
EXTENDS Clauses, FiniteSetsExt

VARIABLES
    tokens, pos,
    frames,      \* exec_stack, the outermost frame first
    ifs          \* for each kw_if in its THEN clause, frames open before it

walkvars == <<tokens, pos, frames, ifs>>

WalkIdle(text) == tokens = text /\ pos = 1 /\ frames = <<>> /\ ifs = <<>>

-----------------------------------------------------------------------------
(* Positions.                                                              *)

TokenAt(p) == IF p <= Len(tokens) THEN tokens[p] ELSE Tok("EOF", 0)
Is(p, t) == TokenAt(p).t = t

RECURSIVE PastEoc(_)
PastEoc(p) == IF Is(p, "EOC") THEN PastEoc(p + 1) ELSE p

\* find_end_after: past the END of the block whose first token is before `from`.
FindEndAfter(from) ==
    LET depth[p \in from - 1 .. Len(tokens)] ==
            IF p < from THEN 1
            ELSE depth[p - 1] + (IF tokens[p].t \in {"DO", "SELECT"} THEN 1 ELSE 0)
                              - (IF tokens[p].t = "END" THEN 1 ELSE 0)
    IN 1 + Min({p \in from .. Len(tokens) : depth[p] = 0})

\* skip_to_clause_end
ClauseEnd(p) == Min({q \in p .. Len(tokens) + 1 : TokenAt(q).t \in {"EOC", "EOF"}})

\* skip_instruction
Skip(p) ==
    LET q == PastEoc(p)
    IN IF TokenAt(q).t \in {"DO", "SELECT"} THEN FindEndAfter(q + 1) ELSE ClauseEnd(q)

\* kw_if after its clause ran: ELSE and its clause are skipped.
SkipElseNone(p) == PastEoc(p)
SkipElse(p) == LET q == PastEoc(p) IN IF Is(q, "ELSE") THEN Skip(q + 1) ELSE q

\* A clause is done: every waiting IF whose frames are closed goes on.
RECURSIVE Waiting(_, _, _)
Waiting(p, depth, is) ==
    IF is = <<>> \/ depth > Last(is) THEN [pos |-> p, ifs |-> is]
    ELSE Waiting(SkipElse(p), depth, Front(is))

\* The clause is done and the next one is at p.
Done(p, fs) ==
    LET w == Waiting(p, Len(fs), ifs)
    IN pos' = w.pos /\ ifs' = w.ifs /\ frames' = fs /\ UNCHANGED tokens

\* The handler itself runs the clause at p.
Run(p, fs, is) == pos' = p /\ ifs' = is /\ frames' = fs /\ UNCHANGED tokens

WError == Happen(Error(0)) /\ UNCHANGED walkvars

-----------------------------------------------------------------------------
(* Handlers.  The clause starts at C.                                      *)

C == PastEoc(pos)
T == TokenAt(C)
Clause(t) == ~Over /\ T.t = t
Frame == Last(frames)

WalkSay == Clause("SAY") /\ Happen(Say(T.id)) /\ Done(C + 1, frames)

WalkEnd == Clause("EOF") /\ Happen(End) /\ UNCHANGED walkvars

\* kw_do: a frame for a loop that runs; past END for one that does not.
NewFrame(left, to) ==
    [type |-> "do", kind |-> T.kind, id |-> T.id, start |-> PastEoc(C + 1),
     end |-> FindEndAfter(PastEoc(C + 1)), left |-> left, val |-> 1, to |-> to, by |-> T.by]
Enter(left, to) == Done(PastEoc(C + 1), Append(frames, NewFrame(left, to)))
Bypass == Done(FindEndAfter(C + 1), frames)
InBounds(f, v) == IF f.by >= 0 THEN v <= f.to ELSE v >= f.to

WalkDo ==
    /\ Clause("DO")
    /\ CASE T.kind \in {"forever", "block"} -> Silent /\ Enter(0, 0)
         [] T.kind = "while" ->
                \E b \in BOOLEAN : Happen(Cond(T.id, b)) /\ IF b THEN Enter(0, 0) ELSE Bypass
         [] T.kind = "until" ->
                \E b \in BOOLEAN : Happen(Cond(T.id, b)) /\ Enter(0, 0)
         [] T.kind = "count" ->
                \E n \in Counts : /\ Happen(Count(T.id, n, 0))
                                  /\ IF n > 0 THEN Enter(n - 1, 0) ELSE Bypass
         [] T.kind = "to" ->
                \E n \in Counts : /\ Happen(Count(T.id, n, 0))
                                  /\ IF InBounds(NewFrame(0, n), 1) THEN Enter(0, n) ELSE Bypass

\* do_should_iterate, and kw_iterate for the loops they treat alike: frames fs,
\* whose last is the loop, go on with another iteration or end.
Again(fs, f) == Done(f.start, [fs EXCEPT ![Len(fs)] = f])
Ends(fs) == Done(Last(fs).end, Front(fs))
LoopsOn(fs) ==
    LET f == Last(fs)
        next == [f EXCEPT !.val = @ + f.by]
    IN CASE f.kind = "count" ->
                Silent /\ IF f.left <= 0 THEN Ends(fs) ELSE Again(fs, [f EXCEPT !.left = @ - 1])
         [] f.kind = "to" ->
                Silent /\ IF InBounds(f, next.val) THEN Again(fs, next) ELSE Ends(fs)
         [] f.kind = "forever" -> Silent /\ Again(fs, f)
         [] f.kind = "while" ->
                \E b \in BOOLEAN : Happen(Cond(f.id, b)) /\ IF b THEN Again(fs, f) ELSE Ends(fs)

\* kw_end, and kw_then and kw_else: these never start an instruction.
WalkBlockEnd ==
    /\ T.t \in {"END", "THEN", "ELSE"} /\ Clause(T.t)
    /\ CASE T.t # "END" \/ frames = <<>> -> WError
         [] T.t = "END" /\ frames # <<>> /\ Frame.type = "select" ->
                IF Frame.matched THEN Silent /\ Done(C + 1, Front(frames)) ELSE WError
         [] T.t = "END" /\ frames # <<>> /\ Frame.type = "do" ->
                CASE Frame.kind = "block" -> Silent /\ Ends(frames)
                  [] Frame.kind = "until" ->
                         \E b \in BOOLEAN : /\ Happen(Cond(Frame.id, b))
                                            /\ IF b THEN Ends(frames) ELSE Again(frames, Frame)
                  [] OTHER -> LoopsOn(frames)

\* irx_ctrl_find_do: the innermost DO frame.  No DO has a label here.
FindDo ==
    LET all == {i \in DOMAIN frames : frames[i].type = "do" /\ ~T.named}
    IN IF all = {} THEN 0 ELSE Max(all)
UpTo(i) == SubSeq(frames, 1, i)

\* kw_iterate: a simple group and UNTIL start over.
WalkIterate ==
    /\ Clause("ITERATE")
    /\ IF FindDo = 0 THEN WError
       ELSE IF frames[FindDo].kind \in {"block", "until"}
            THEN Silent /\ Again(UpTo(FindDo), frames[FindDo])
            ELSE LoopsOn(UpTo(FindDo))

\* kw_leave
WalkLeave ==
    /\ Clause("LEAVE")
    /\ IF FindDo = 0 THEN WError ELSE Silent /\ Ends(UpTo(FindDo))

\* kw_if
ThenAt == PastEoc(C + 1)
WalkIf ==
    /\ Clause("IF")
    /\ \E b \in BOOLEAN :
          LET else == PastEoc(Skip(ThenAt + 1))
          IN IF ~Is(ThenAt, "THEN") THEN WError
             ELSE /\ Happen(Cond(T.id, b))
                  /\ CASE b -> Run(PastEoc(ThenAt + 1), frames, Append(ifs, Len(frames)))
                       [] ~b /\ Is(else, "ELSE") -> Run(PastEoc(else + 1), frames, ifs)
                       [] OTHER -> Done(else, frames)

\* kw_select
WalkSelect ==
    /\ Clause("SELECT") /\ Silent
    /\ Done(C + 1, Append(frames, [type |-> "select", matched |-> FALSE]))

InSelect == frames # <<>> /\ Frame.type = "select"
Matched == [frames EXCEPT ![Len(frames)].matched = TRUE]

\* kw_when once a WHEN matched: condition, THEN and clause are skipped, on the
\* assumption that the condition is a clause of its own.
WhenSkipped ==
    LET then == PastEoc(ClauseEnd(C + 1))
    IN Skip(IF Is(then, "THEN") THEN then + 1 ELSE then)

WalkWhen ==
    /\ Clause("WHEN")
    /\ CASE ~InSelect -> WError
         [] InSelect /\ Frame.matched -> Silent /\ Done(WhenSkipped, frames)
         [] OTHER ->
              \E b \in BOOLEAN :
                 IF ~Is(ThenAt, "THEN") THEN WError
                 ELSE /\ Happen(Cond(T.id, b))
                      /\ IF b THEN Run(PastEoc(ThenAt + 1), Matched, ifs)
                         ELSE Done(Skip(ThenAt + 1), frames)

\* kw_otherwise
WalkOtherwise ==
    /\ Clause("OTHERWISE")
    /\ CASE ~InSelect -> WError
         [] InSelect /\ Frame.matched -> Silent /\ Done(Skip(C + 1), frames)
         [] OTHER -> Silent /\ Run(PastEoc(C + 1), Matched, ifs)
=============================================================================
