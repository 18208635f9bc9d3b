--------------------------- MODULE MCAlgorithms ---------------------------
(* A behaviour runs one PARSE clause or evaluates one expression. *)
EXTENDS ParseTemplate, Arithmetic

---------------------------------------------------------------------------
(* Clauses. *)

Var(n) == [kind |-> "var", name |-> n]
Stem(n, t) == [kind |-> "stem", name |-> n, tail |-> t]
Dot == [kind |-> "dot"]
Str(text) == [kind |-> "str", text |-> text]
Ref(n) == [kind |-> "ref", name |-> n]
Col(n) == [kind |-> "col", n |-> n]
Rel(n) == [kind |-> "rel", n |-> n]
Odd(kind) == [kind |-> kind]

Pool0 == (<<"d">> :> <<",">>) @@ (<<"e">> :> <<>>) @@ (<<"x">> :> <<"a">>)

Clause(from, upper, texts, templates) ==
    [from |-> from, upper |-> upper, texts |-> texts, templates |-> templates, pool |-> Pool0]

Items == {Var("x"), Var("y"), Dot, Str(<<",">>), Str(<<"b">>), Ref("d"), Col(1), Col(3), Rel(1), Rel(-1)}
Texts == {<<>>, <<" ", "a", " ", " ", "b">>, <<"a", " ", "b", ",", "c">>, <<",", "a", "b", " ">>}

One(upper, text, template) == Clause("value", upper, <<text>>, <<template>>)

Some ==
    {<<Var("x"), Stem("A.", "x"), Col(3), Var("y")>>, <<Stem("A.", "i"), Str(<<>>), Var("y")>>,
     <<Var("y"), Str(<<>>), Dot>>, <<Var("x"), Ref("e"), Var("y")>>, <<Var("x"), Ref("i"), Dot>>,
     <<Var("d"), Var("x"), Ref("d"), Var("y")>>, <<Odd("const"), Var("x"), Odd("bad"), Var("y")>>,
     <<Var("x"), Str(<<"a", " ", "b">>), Var("y")>>, <<Var("x"), Col(65538), Var("y")>>,
     <<Var("x"), Rel(40000), Var("y")>>, <<Var("x"), [kind |-> "refcmpd", name |-> "A.", tail |-> "i"]>>,
     <<Dot, Var("x"), Var("y"), Dot, Var("i")>>, <<Var("x"), Col(0), Var("y"), Col(9), Dot>>}

MCClauses ==
    {One(FALSE, text, template) : text \in Texts, template \in UNION {[1..n -> Items] : n \in 0..3}}
    \cup {One(FALSE, text, t \o <<Var("i")>>) : text \in Texts, t \in [1..3 -> Items]}
    \cup {One(TRUE, text, template) : text \in Texts, template \in Some}
    \cup {Clause(from, u, texts, <<t1, t2>>) : from \in {"arg", "value"}, u \in BOOLEAN,
             texts \in {<<a, b>> : a \in Texts, b \in {NoText, <<"c", " ", "a">>}} \cup {<<<<"a">>>>},
             t1 \in {<<Var("x"), Str(<<",">>), Var("y")>>, <<Var("x")>>, <<>>},
             t2 \in {<<Var("y"), Ref("d"), Var("i")>>, <<Dot, Var("y")>>}}
    \cup {Clause("pull", FALSE, <<<<"a">>>>, <<<<Var("x")>>>>)}

---------------------------------------------------------------------------
(* Expressions. *)

\* Operands: up to three digits, a point, an exponent, a sign, blanks.
Coefficients == {<<"0">>, <<"5">>, <<"9", "9">>, <<"1", "0">>, <<"4", "5">>, <<"1", "0", "5">>,
                 <<"9", "9", "5">>, <<"6", "6", "7">>, <<"0", "3", "0">>,
                 <<"3", "0", "5">>, <<"2">>}
Pointed(ds, k) == SubSeq(ds, 1, k) \o <<".">> \o SubSeq(ds, k + 1, Len(ds))
Plains == Coefficients \cup {Pointed(ds, k) : ds \in Coefficients, k \in 0..1}
Signs(ts) == ts \cup {<<"-">> \o t : t \in ts}
Powers(ts) == {t \o e : t \in ts, e \in {<<"E", "2">>, <<"E", "-", "2">>}}
Numbers == Signs(Plains) \cup Powers({<<"9", "5">>, <<"-", "1", ".", "5">>})
Few == {<<"3">>, <<"-", "7">>, <<"0">>, <<"0", ".", "3">>, <<"1", "2">>, <<"9", "9">>, <<"-", "9", ".", "5">>,
        <<"5", "E", "1">>, <<"1", "E", "-", "1">>}
Strange == {<<>>, <<" ">>, <<" ", "5">>, <<"+", "5", " ">>, <<"-">>, <<"1", "E">>, <<"1", ".", ".", "5">>,
        <<"-", "0">>, <<"1", " ", "5">>, <<".">>, <<"0", "0", "0", "7">>}

\* Numbers that differ from others by exactly the tolerance of DIGITS 2, FUZZ 1, by
\* less and by more.
Near == {<<"1", "0">>, <<"1", "1">>, <<"4", "5">>, <<"4", "4">>, <<"9", "9">>, <<"9", "8", "E", "0">>,
         <<"1", "E", "2">>, <<"9", "E", "1">>, <<"9", ".", "9">>, <<"1", ".", "0">>, <<"1", ".", "1">>}

SomeOdd == {<<" ", "5">>, <<"1", "E">>, <<>>}
Last3 == {<<"7">>, <<"0">>, <<"-", "9", ".", "5">>}

Formats == {"", "2"} \X {"", "0", "2"} \X {"", "0", "1"} \X {"", "0", "1"}

Term(op, arg) == [op |-> op, arg |-> arg]
Sum(first, terms, digits, fuzz, form) ==
    [first |-> first, terms |-> terms, digits |-> digits, fuzz |-> fuzz, form |-> form]

SumStarts ==
    \/ \E a \in Numbers, op \in ArithOps, b \in Few, d \in 1..3 :
          SumInit(Sum(a, <<Term(op, b)>>, d, 0, "SCIENTIFIC"))
    \/ \E a \in Numbers \cup Strange, op \in {"EQ", "LT", "GE"}, b \in Few \cup SomeOdd, f \in 0..2 :
          SumInit(Sum(a, <<Term(op, b)>>, 2, f, "SCIENTIFIC"))
    \/ \E a \in Signs(Near), op \in {"EQ", "GT"}, b \in Signs(Near) :
          SumInit(Sum(a, <<Term(op, b)>>, 2, 1, "SCIENTIFIC"))
    \/ \E a \in Few, op1 \in ArithOps, b \in Few, op2 \in {"MUL", "MOD", "SUB", "NEG", "LE"}, c \in Last3 :
          SumInit(Sum(a, <<Term(op1, b), Term(op2, c)>>, 2, 0, "ENGINEERING"))
    \/ \E a \in Numbers \cup Strange, o \in Formats, d \in 1..3 :
          SumInit(Sum(a, <<Term("FORMAT", o)>>, d, 0, "SCIENTIFIC"))
    \/ \E a \in Numbers \cup Strange, op \in {"TRUNC", "NEG", "ABS"}, n \in {"0", "1", "2"}, d \in 1..2 :
          SumInit(Sum(a, <<Term(op, <<n>>)>>, d, 0, "ENGINEERING"))
    \/ \E a \in Strange, op \in {"ADD", "MUL", "NE", "GT"}, b \in Strange :
          SumInit(Sum(a, <<Term(op, b)>>, 2, 0, "SCIENTIFIC"))

---------------------------------------------------------------------------

\* Neither engine runs it.
NoClause == Clause("pull", FALSE, <<<<>>>>, <<<<Odd("bad")>>>>)
NoSum == Sum(<<"0">>, <<>>, 2, 0, "SCIENTIFIC")

Idle == SumInit(NoSum) /\ ParseInit(NoClause)

Init ==
    \/ SumInit(NoSum) /\ \E c \in MCClauses : ParseInit(c)
    \/ ParseInit(NoClause) /\ SumStarts

Next ==
    \/ ParseNext /\ UNCHANGED sumvars
    \/ SumNext /\ UNCHANGED parsevars
=============================================================================
