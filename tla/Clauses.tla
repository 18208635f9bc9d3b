------------------------------ MODULE Clauses ------------------------------
(***************************************************************************)
(* What REXX promises of its control instructions: the clauses a program   *)
(* executes, one event for each clause, condition and DO count, in the     *)
(* order of the language.  Both execution engines are checked against it.  *)
(*                                                                         *)
(* Statements are records.  id names a statement, or a WHEN:               *)
(*   [op |-> "SAY", id]                   one clause, of any kind          *)
(*   [op |-> "LEAVE" | "ITERATE", named]  named: with a control variable   *)
(*   [op |-> "IF", id, then, else]        else has at most one statement   *)
(*   [op |-> "SELECT", whens, other]      whens of [id, body]; other is a  *)
(*                                        list in a list, or <<>>          *)
(*   [op |-> "DO", id, kind, by, for, body]                                *)
(***************************************************************************)
EXTENDS Integers, Sequences, SequencesExt

CONSTANTS
    ControlMax,   \* IRX_CTL_STACK_MAX: blocks open at a time
    Counts        \* values of the expressions in a DO instruction

Kinds == {"block", "forever", "count", "to", "while", "until"}
Counted == {"count", "to"}

VARIABLES
    k,       \* what is still to run, the next statement first
    event,   \* the last event
    tick     \* flips at each event

cvars == <<k, event, tick>>

-----------------------------------------------------------------------------
\* Statements with the number of blocks they are nested in.
Items(body, depth) == [i \in DOMAIN body |-> [s |-> body[i], depth |-> depth]]

\* A mark stands under the body of a loop: it says what happens at END.
Mark(item, left) == [s |-> [op |-> "LOOP", id |-> item.s.id], loop |-> item, left |-> left]
IsMark(item) == item.s.op = "LOOP"
Body(m) == Items(m.loop.s.body, m.loop.depth + 1)

Opens(s) == s.op \in {"IF", "SELECT", "DO"}
TooDeep(item) == Opens(item.s) /\ item.depth >= ControlMax

\* LEAVE and ITERATE mean the innermost loop, or the innermost loop with a
\* control variable.  A simple group and a SELECT are not loops.
Means(leave, item) == IsMark(item) /\ (leave.named => item.loop.s.kind = "to")
TargetAt(leave, rest) == CHOOSE i \in DOMAIN rest :
    Means(leave, rest[i]) /\ \A j \in 1 .. i - 1 : ~Means(leave, rest[j])

\* Runs what makes no event: k with a statement in front that makes one.
RECURSIVE Settle(_)
Settle(rest) ==
    IF rest = <<>> THEN rest ELSE
    LET h == Head(rest) r == Tail(rest) s == h.s
        kind == IF s.op = "DO" THEN s.kind ELSE ""
    IN CASE TooDeep(h) -> rest
         [] s.op = "LEAVE" -> Settle(SubSeq(r, TargetAt(s, r) + 1, Len(r)))
         [] s.op = "ITERATE" -> Settle(SubSeq(r, TargetAt(s, r), Len(r)))
         [] kind = "block" -> Settle(Items(s.body, h.depth + 1) \o r)
         [] kind \in {"forever", "while"} -> Settle(<<Mark(h, 0)>> \o r)
         [] kind = "until" -> Settle(Items(s.body, h.depth + 1) \o <<Mark(h, 0)>> \o r)
         [] IsMark(h) /\ h.loop.s.kind = "forever" -> Settle(Body(h) \o <<h>> \o r)
         [] IsMark(h) /\ h.loop.s.kind \in Counted ->
                Settle(IF h.left = 0 THEN r ELSE Body(h) \o <<[h EXCEPT !.left = @ - 1]>> \o r)
         [] OTHER -> rest

-----------------------------------------------------------------------------
(* A program as tokens.  The expression after a keyword is one token with  *)
(* it.  own: THEN stands on a line of its own.                             *)

Tok(t, id) == [t |-> t, id |-> id]
EOC == Tok("EOC", 0)
Line(own) == IF own THEN <<EOC>> ELSE <<>>

RECURSIVE Text(_, _)
Texts(body, own) == FlattenSeq([i \in DOMAIN body |-> Append(Text(body[i], own), EOC)])
Text(s, own) ==
    CASE s.op = "SAY" -> <<Tok("SAY", s.id)>>
      [] s.op \in {"LEAVE", "ITERATE"} -> <<[t |-> s.op, named |-> s.named]>>
      [] s.op = "IF" ->
             <<Tok("IF", s.id)>> \o Line(own) \o <<Tok("THEN", 0)>> \o Text(s.then, own)
             \o FlattenSeq([i \in DOMAIN s.else |-> <<EOC, Tok("ELSE", 0)>> \o Text(s.else[i], own)])
      [] s.op = "SELECT" ->
             <<Tok("SELECT", 0), EOC>>
             \o FlattenSeq([i \in DOMAIN s.whens |->
                    <<Tok("WHEN", s.whens[i].id)>> \o Line(own) \o <<Tok("THEN", 0)>>
                    \o Append(Text(s.whens[i].body, own), EOC)])
             \o FlattenSeq([i \in DOMAIN s.other |->
                    <<Tok("OTHERWISE", 0), EOC>> \o Texts(s.other[i], own)])
             \o <<Tok("END", 0)>>
      [] s.op = "DO" ->
             <<[t |-> "DO", id |-> s.id, kind |-> s.kind, by |-> s.by, for |-> s.for], EOC>>
             \o Texts(s.body, own) \o <<Tok("END", 0)>>

-----------------------------------------------------------------------------
(* Events: the clause, or what is evaluated for it, and its value.         *)

Say(id) == [what |-> "say", id |-> id]
Cond(id, b) == [what |-> "cond", id |-> id, value |-> b]
Count(id, n, m) == [what |-> "count", id |-> id, value |-> n, for |-> m]
Error(num) == [what |-> "error", num |-> num]
End == [what |-> "end"]

\* Iterations of DO v = 1 TO n BY by FOR m, and of DO n.
Times(s, n, m) ==
    LET range == IF s.kind = "count" \/ s.by > 0 THEN n ELSE 2 - n
        limit == IF s.for /\ m < range THEN m ELSE range
    IN IF limit > 0 THEN limit ELSE 0

Allowed(rest) ==
    IF rest = <<>> THEN {End} ELSE
    LET h == Head(rest) s == h.s
    IN CASE TooDeep(h) -> {Error(11)}
         [] s.op = "SAY" -> {Say(s.id)}
         [] s.op \in {"IF", "LOOP"} -> {Cond(s.id, b) : b \in BOOLEAN}
         [] s.op = "SELECT" /\ s.whens # <<>> -> {Cond(Head(s.whens).id, b) : b \in BOOLEAN}
         [] s.op = "SELECT" /\ s.whens = <<>> -> {Error(7)}
         [] s.op = "DO" -> {Count(s.id, n, m) : n \in Counts, m \in IF s.for THEN Counts ELSE {0}}

Step(rest, e) ==
    IF e.what \in {"error", "end"} THEN <<>> ELSE
    LET h == Head(rest) r == Tail(rest) s == h.s
    IN CASE s.op = "SAY" -> r
         [] s.op = "IF" -> Items(IF e.value THEN <<s.then>> ELSE s.else, h.depth + 1) \o r
         [] s.op = "LOOP" -> IF e.value = (h.loop.s.kind = "while") THEN Body(h) \o <<h>> \o r ELSE r
         [] s.op = "DO" -> <<Mark(h, Times(s, e.value, e.for))>> \o r
         [] s.op = "SELECT" ->
                IF e.value THEN Items(<<Head(s.whens).body>>, h.depth + 1) \o r
                ELSE IF Len(s.whens) = 1 /\ s.other # <<>>
                     THEN Items(Head(s.other), h.depth + 1) \o r
                     ELSE <<[h EXCEPT !.s.whens = Tail(@)]>> \o r

After(rest, e) == Settle(Step(rest, e))

Start(program) == Settle(Items(program, 0))

Over == event.what \in {"error", "end"}

CNext ==
    /\ ~Over
    /\ tick' = ~tick
    /\ event' \in Allowed(k)
    /\ k' = After(k, event')

\* How an engine makes an event, or none.  k follows what the language allows.
Happen(e) ==
    /\ event' = e /\ tick' = ~tick
    /\ k' = IF e \in Allowed(k) THEN After(k, e) ELSE k
Silent == UNCHANGED cvars
=============================================================================
