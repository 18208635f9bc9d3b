--------------------------- MODULE MCControlFlow ---------------------------
(***************************************************************************)
(* ControlFlow for TLC: every program                                      *)
(*     DO ... ; clause ; statement ; clause ; END ; clause                 *)
(* for the statements below, and programs nested as deep as they may be.   *)
(***************************************************************************)
EXTENDS ControlFlow

S(i) == [op |-> "SAY", id |-> i]
Jump(op) == [op |-> op, named |-> FALSE]
Simple(i) == {S(i), Jump("LEAVE"), Jump("ITERATE")}
If(i, then, else) == [op |-> "IF", id |-> i, then |-> then, else |-> else]
Select(whens, other) == [op |-> "SELECT", whens |-> whens, other |-> other]
When(i, body) == [id |-> i, body |-> body]
Do(i, kind, by, for, body) ==
    [op |-> "DO", id |-> i, kind |-> kind, by |-> by, for |-> for, body |-> body]
Group(i, body) == Do(i, "block", 1, FALSE, body)

Variants == {<<"forever", 1, FALSE>>, <<"count", 1, FALSE>>, <<"while", 1, FALSE>>,
             <<"until", 1, FALSE>>, <<"to", 1, FALSE>>, <<"to", -1, FALSE>>, <<"to", 1, TRUE>>}
Loops(i, bodies) == {Do(i, v[1], v[2], v[3], body) : v \in Variants, body \in bodies}

Ifs(i, stmts(_)) ==
    {If(i, s, <<>>) : s \in stmts(i + 1)} \cup
    {If(i, s, <<t>>) : s \in stmts(i + 1), t \in stmts(i + 2)}

Selects(i) ==
    {Select(<<When(i, s)>>, <<<<t>>>>) : s \in Simple(i + 1), t \in Simple(i + 2)} \cup
    {Select(<<When(i, s), When(i + 1, t)>>, <<<<S(i + 4)>>>>) :
        s \in Simple(i + 2), t \in Simple(i + 3)}
Blocks(i) == {Group(i, <<S(i + 1), S(i + 2)>>)}
SimpleOrBlock(i) == Simple(i) \cup Blocks(10 * i)

\* Statements inside the outer loop that both engines run as promised.
Common == Ifs(10, SimpleOrBlock) \cup Selects(10)
          \cup Loops(10, {<<S(11)>>, <<If(11, Jump("LEAVE"), <<>>), S(12)>>,
                          <<S(11), Jump("ITERATE"), S(12)>>})

\* And some that the token walk does not run so: an IF in a clause of its own,
\* more than one clause after OTHERWISE.
More ==
    {If(10, If(11, s, <<t>>), <<S(14)>>) : s \in Simple(12), t \in Simple(13)} \cup
    {If(10, If(11, s, <<>>), <<>>) : s \in Simple(12)} \cup
    {Select(<<When(10, If(11, s, <<>>)), When(12, Group(13, <<S(14), S(15)>>))>>,
            <<<<S(16), t, S(18)>>>>) : s \in Simple(12), t \in Simple(17)}

Outer(v, s) == <<Do(1, v[1], v[2], v[3], <<S(2), s, S(3)>>), S(4)>>

P(body, own, bytecode) == [body |-> body, own |-> own, bytecode |-> bytecode]

\* Nested until the control stack is full, inside blocks that end.
Deep ==
    {<<Do(1, v[1], v[2], v[3], <<S(2), b, S(3)>>), S(4)>> : v \in Variants,
        b \in {Group(10, <<S(11), Do(12, "count", 1, FALSE, <<S(13), d, S(14)>>), S(15)>>) :
                  d \in {If(20, S(21), <<>>), Group(20, <<S(21)>>),
                         Select(<<When(20, S(21))>>, <<>>)}}}

WalkOK(v) == v[1] # "until" /\ ~v[3]
WalkStmt(s) == s.op = "DO" => s.kind # "until" /\ ~s.for

\* A WHEN more than jumps can wait: the compiler has no room for it.
Wide == <<Select([i \in 1..PatchMax + 1 |-> When(10 * i, S(10 * i + 1))], <<>>), S(4)>>

MCPrograms ==
    {P(Outer(v, s), FALSE, TRUE) : v \in Variants, s \in Common \cup More}
    \cup {P(d, FALSE, TRUE) : d \in Deep \cup {Wide}}
    \cup {P(Outer(v, s), TRUE, b) : v \in {x \in Variants : WalkOK(x)},
             s \in {x \in Common : WalkStmt(x)}, b \in {FALSE}}
    \cup {P(Outer(<<"count", 1, FALSE>>, If(10, S(11), <<S(12)>>)), TRUE, TRUE)}

\* LEAVE inside a simple group in a loop.
GroupPrograms ==
    {P(Outer(<<"forever", 1, FALSE>>, If(10, Group(11, <<S(12), Jump("LEAVE")>>), <<>>)), FALSE, b) :
        b \in BOOLEAN}
=============================================================================
