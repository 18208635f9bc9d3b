---------------------------- MODULE Arithmetic ----------------------------
(***************************************************************************)
(* An expression evaluated from the left, a term at a time, by the parser  *)
(* (src/src/irx#pars.c), which gives every operation to the decimal        *)
(* routines, and by the VM (irx#bvm.c), whose stack slots remember that a  *)
(* text is a small integer and whose operators then work on that integer.  *)
(***************************************************************************)
EXTENDS DecimalRules

CONSTANT DefaultDigits  \* NUMERIC_DIGITS_DEFAULT and the width of IRXBC_INT_FAST_MAX: 9

VARIABLES sum,      \* the expression [first, terms, digits, fuzz, form]
          parsed,   \* the parser's value after each term, and its return code
          slot,     \* the same of the VM, and the integer its slot remembers
          vmTexts   \* the VM's value after each term

sumvars == <<sum, parsed, slot, vmTexts>>

ArithOps == {"ADD", "SUB", "MUL", "DIV", "INTDIV", "MOD", "POWER"}
PrefixOps == {"NEG", "ABS"}
ShapeOps == {"TRUNC", "FORMAT"}
CompareOps == {"EQ", "NE", "LT", "LE", "GT", "GE"}

NoInt == [small |-> FALSE, i |-> 0]

\* parse_int32_fast: a sign and no more than DefaultDigits digits, leading zeros aside.
SmallInt(text) ==
    LET signed == text # <<>> /\ text[1] \in {"+", "-"}
        digits == IF signed THEN Tail(text) ELSE text
        n == FromText(digits)
    IN  IF digits = <<>> \/ (\E i \in DOMAIN digits : ~IsDigit(digits[i])) THEN NoInt
        ELSE IF Len(n.ds) + n.exp > DefaultDigits THEN NoInt
        ELSE [small |-> TRUE, i |-> (IF text[1] = "-" THEN -1 ELSE 1) * Exponent(n)]

\* i32toa
IntText(i) == IF i < 0 THEN <<"-">> \o Chars(DigitsOf(-i)) ELSE Chars(DigitsOf(i))

\* slot_int32_fast: a slot that remembers nothing is read again for + - and *.
SlotInt(known, text, op) == IF known.small \/ op \notin {"ADD", "SUB", "MUL"} THEN known ELSE SmallInt(text)

FastMax == 10 ^ DefaultDigits - 1

\* try_arith_fast: what it gives, or NoInt.
Quot(a, b) == Sgn(a) * Sgn(b) * (Mag(a) \div Mag(b))
TryFast(op, a, b) ==
    LET within(i) == IF Mag(i) <= FastMax THEN [small |-> TRUE, i |-> i] ELSE NoInt
        whole(i) == IF b.i = 0 THEN NoInt ELSE [small |-> TRUE, i |-> i]
    IN  IF ~a.small \/ ~b.small THEN NoInt
        ELSE CASE op = "ADD" -> within(a.i + b.i)
               [] op = "SUB" -> within(a.i - b.i)
               [] op = "MUL" -> IF b.i # 0 /\ Mag(a.i) > FastMax \div Mag(b.i) THEN NoInt
                                ELSE [small |-> TRUE, i |-> a.i * b.i]
               [] op = "INTDIV" -> whole(Quot(a.i, b.i))
               [] op = "MOD" -> whole(a.i - b.i * Quot(a.i, b.i))
               [] OTHER -> NoInt

\* Texts that are no numbers compare as texts, the parser's with blanks at the end
\* of the shorter one.
Collating == <<" ", ".", "+", "-">> \o DigitChars \o <<"E">>
Rank(c) == CHOOSE i \in DOMAIN Collating : Collating[i] = c

TextOrder(s, t) ==
    LET len == Min({Len(s), Len(t)})
        differ == {i \in 1..len : s[i] # t[i]}
    IN  IF differ = {} THEN Sgn(Len(s) - Len(t)) ELSE Sgn(Rank(s[Min(differ)]) - Rank(t[Min(differ)]))

WithBlanks(s, len) == s \o [i \in 1..len - Len(s) |-> " "]
PaddedOrder(s, t) ==
    LET len == Max({Len(s), Len(t)}) IN TextOrder(WithBlanks(s, len), WithBlanks(t, len))

BoolText(b) == IF b THEN <<"1">> ELSE <<"0">>
Truth(b) == [rc |-> "OK", text |-> BoolText(b)]

---------------------------------------------------------------------------

SumInit(s) ==
    /\ sum = s
    /\ parsed = [rc |-> "OK", at |-> 1, texts |-> <<s.first>>]
    /\ slot = [rc |-> "OK", at |-> 1, known |-> SmallInt(s.first)]
    /\ vmTexts = <<s.first>>

\* irx_arith_op
Texted(made) ==
    [rc |-> made.rc, text |-> IF made.rc = "OK" THEN ToText(made.n, sum.digits, sum.form) ELSE <<>>]
ArithText(op, a, b) == Texted(Compute(op, FromText(a), FromText(b), sum.digits))

\* compare_normal, parse_comparison
ParserOrder(a, b) ==
    IF FromText(a) # NaN /\ FromText(b) # NaN
    THEN Compare(FromText(a), FromText(b), sum.digits, sum.fuzz)
    ELSE PaddedOrder(a, b)

Going(engine, ops) ==
    engine.rc = "OK" /\ engine.at <= Len(sum.terms) /\ sum.terms[engine.at].op \in ops

ParserGives(made) ==
    /\ parsed' = [rc |-> made.rc, at |-> parsed.at + 1,
                  texts |-> IF made.rc = "OK" THEN Append(parsed.texts, made.text) ELSE parsed.texts]
    /\ UNCHANGED <<sum, slot, vmTexts>>

\* The operators of parse_prefix, parse_power, parse_mul and parse_add, and ABS.
ParserOperator ==
    /\ Going(parsed, ArithOps \cup PrefixOps)
    /\ LET term == sum.terms[parsed.at]
       IN  ParserGives(ArithText(term.op, Last(parsed.texts), term.arg))

ParserComparison ==
    /\ Going(parsed, CompareOps)
    /\ LET term == sum.terms[parsed.at]
       IN  ParserGives(Truth(Holds(term.op, ParserOrder(Last(parsed.texts), term.arg))))

\* An option of TRUNC or FORMAT, -1 when it is left out.
Option(term, i) == IF term.arg[i] = "" THEN -1 ELSE DigitOf(term.arg[i])

\* bif_trunc, bif_format
Reshaped(term, n) ==
    IF n = NaN THEN [rc |-> "SYNTAX", text |-> <<>>]
    ELSE IF term.op = "TRUNC" THEN [rc |-> "OK", text |-> Trunc(n, Option(term, 1))]
    ELSE Format(n, Option(term, 1), Option(term, 2), Option(term, 3), Option(term, 4), sum.digits)
ShapedText(term, text) == Reshaped(term, FromText(text))

ParserFunction ==
    /\ Going(parsed, ShapeOps)
    /\ ParserGives(ShapedText(sum.terms[parsed.at], Last(parsed.texts)))

---------------------------------------------------------------------------
(* The VM, which runs the expression when the parser has.                  *)

ParserDone == parsed.rc # "OK" \/ parsed.at > Len(sum.terms)

VmRuns(ops) == ParserDone /\ Going(slot, ops)

VmGives(made, known) ==
    /\ slot' = [rc |-> made.rc, at |-> slot.at + 1, known |-> known]
    /\ vmTexts' = IF made.rc = "OK" THEN Append(vmTexts, made.text) ELSE vmTexts
    /\ UNCHANGED <<sum, parsed>>

\* What OP_ADD .. OP_MOD take from the integers of the two slots.
FastResult ==
    LET term == sum.terms[slot.at] IN
    IF sum.digits # DefaultDigits THEN NoInt
    ELSE TryFast(term.op, SlotInt(slot.known, Last(vmTexts), term.op),
                 SlotInt(SmallInt(term.arg), term.arg, term.op))

VmFastOperator ==
    /\ VmRuns(ArithOps \ {"DIV", "POWER"})
    /\ FastResult.small
    /\ VmGives([rc |-> "OK", text |-> IntText(FastResult.i)], FastResult)

VmOperator ==
    /\ VmRuns(ArithOps \cup PrefixOps)
    /\ sum.terms[slot.at].op \in ArithOps \ {"DIV", "POWER"} => ~FastResult.small
    /\ LET term == sum.terms[slot.at]
       IN  VmGives(ArithText(term.op, Last(vmTexts), term.arg), NoInt)

\* Two remembered integers are compared as integers when FUZZ is 0.
VmComparison ==
    /\ VmRuns(CompareOps)
    /\ LET term == sum.terms[slot.at]
           arg == SmallInt(term.arg)
           a == FromText(Last(vmTexts))
           b == FromText(term.arg)
           order == IF slot.known.small /\ arg.small /\ sum.fuzz = 0 THEN Sgn(slot.known.i - arg.i)
                    ELSE IF a # NaN /\ b # NaN THEN Compare(a, b, sum.digits, sum.fuzz)
                    ELSE TextOrder(Last(vmTexts), term.arg)
       IN  VmGives(Truth(Holds(term.op, order)), NoInt)

VmFunction ==
    /\ VmRuns(ShapeOps)
    /\ VmGives(ShapedText(sum.terms[slot.at], Last(vmTexts)), NoInt)

SumNext ==
    \/ ParserOperator \/ ParserComparison \/ ParserFunction
    \/ VmFastOperator \/ VmOperator \/ VmComparison \/ VmFunction

---------------------------------------------------------------------------
(* Properties.                                                             *)

\* The values of a text and of the term applied to it.
Left(i) == ValueOf(FromText(parsed.texts[i]))
Right(i) == ValueOf(FromText(sum.terms[i].arg))

\* The digits behind the point of a text without an exponent.
Decimals(text) ==
    LET point == {j \in DOMAIN text : text[j] = "."}
    IN  IF point = {} THEN 0 ELSE Len(text) - Min(point)

\* The term's result as text keeps the promise: the exact result, rounded half-up to
\* DIGITS digits, towards zero by TRUNC, whose text has as many decimals as it is told.
Kept(i) ==
    LET op == sum.terms[i].op
        result == FromText(parsed.texts[i + 1])
    IN  CASE op = "TRUNC" ->
                /\ SameValue(ValueOf(result), Truncated(Left(i), Option(sum.terms[i], 1)))
                /\ Decimals(parsed.texts[i + 1]) = Option(sum.terms[i], 1)
          [] op = "FORMAT" ->
                LET after == Option(sum.terms[i], 2)
                    rounded == Rounded(Left(i), sum.digits)
                    fixed == \A j \in DOMAIN parsed.texts[i + 1] : parsed.texts[i + 1][j] # "E"
                IN  /\ ~Given(after) => SameValue(ValueOf(result), rounded)
                    /\ Given(after) /\ fixed =>
                          /\ SameValue(ValueOf(result), RoundedAt(rounded, after))
                          /\ Decimals(parsed.texts[i + 1]) = after
          [] op \in PrefixOps -> Defined(op, Left(i), Left(i), sum.digits) =>
                SameValue(ValueOf(result), Exact(op, Left(i), Left(i), sum.digits))
          [] OTHER -> Defined(op, Left(i), Right(i), sum.digits) =>
                SameValue(ValueOf(result), Rounded(Exact(op, Left(i), Right(i), sum.digits), sum.digits))

Steps(ops) == {i \in 1..Len(parsed.texts) - 1 : sum.terms[i].op \in ops}

\* Arithmetic is exact up to the rounding to NUMERIC DIGITS, through the text every
\* result becomes (irx_arith_op, irx_arith_trunc), and the VM's integers give the very
\* texts of the decimal routines (try_arith_fast).
ComputesAsPromised ==
    /\ \A i \in Steps(ArithOps \cup PrefixOps \cup ShapeOps) : Kept(i)
    /\ (slot.rc # "OK" \/ slot.at > Len(sum.terms)) /\ Steps(CompareOps) = {} =>
          slot.rc = parsed.rc /\ vmTexts = parsed.texts

Trailing(text) == text # <<>> /\ Last(text) = " "

\* Numbers compare by their values, whatever their texts, with the tolerance FUZZ
\* gives (irx_arith_compare); and both engines find the same, also of texts that are
\* no numbers and end in no blank.
ComparesAsPromised ==
    \A i \in Steps(CompareOps) :
        LET a == FromText(parsed.texts[i])
            b == FromText(sum.terms[i].arg)
            found == parsed.texts[i + 1]
            defined == a # NaN /\ b # NaN
                       /\ CompareDefined(ValueOf(a), ValueOf(b), sum.digits, sum.fuzz)
        IN  /\ defined =>
                  found = BoolText(Holds(sum.terms[i].op,
                                         FuzzyOrder(ValueOf(a), ValueOf(b), sum.digits, sum.fuzz)))
            /\ i < Len(vmTexts) /\ ~Trailing(sum.terms[i].arg) /\ ~Trailing(parsed.texts[i]) =>
                  vmTexts[i + 1] = found
=============================================================================
