--------------------------- MODULE DecimalRules ---------------------------
(***************************************************************************)
(* What REXX promises of arithmetic, on integers: a value is c * 10^e.     *)
(* The result of an operation is the exact one, rounded half-up to         *)
(* NUMERIC DIGITS digits.  Values stay in the range of TLC's integers.     *)
(***************************************************************************)
EXTENDS Decimal

Val(c, e) == [c |-> c, e |-> e]
Mag(c) == IF c < 0 THEN -c ELSE c
Sgn(c) == IF c < 0 THEN -1 ELSE IF c = 0 THEN 0 ELSE 1
Width(c) == Len(DigitsOf(Mag(c)))

\* The value a number stands for.
ValueOf(n) == Val(IF n.sign = 1 THEN -Number(n.ds) ELSE Number(n.ds), n.exp)

\* Coefficients of two values brought to one exponent.
Common(x, y) == Min({x.e, y.e})
Scaled(x, e) == x.c * 10 ^ (x.e - e)
SameValue(x, y) == Scaled(x, Common(x, y)) = Scaled(y, Common(x, y))
Order(x, y) == Sgn(Scaled(x, Common(x, y)) - Scaled(y, Common(x, y)))

\* Rounded half-up to digits digits.
Rounded(x, digits) ==
    LET drop == Width(x.c) - digits
        q == Mag(x.c) \div 10 ^ drop
        up == 2 * (Mag(x.c) % 10 ^ drop) >= 10 ^ drop
    IN  IF drop <= 0 THEN x ELSE Val(Sgn(x.c) * (IF up THEN q + 1 ELSE q), x.e + drop)

\* Rounded half-up to decimals places.
RoundedAt(x, decimals) ==
    LET drop == -decimals - x.e IN
    IF drop <= 0 THEN x
    ELSE Val(Sgn(x.c) * ((Mag(x.c) + 5 * 10 ^ (drop - 1)) \div 10 ^ drop), -decimals)

\* The quotient to one digit more than rounding needs, with a digit for the rest.
Ratio(x, y, digits) ==
    LET k == Max({0, digits + 1 + Width(y.c) - Width(x.c)})
        n == Mag(x.c) * 10 ^ k
        rest == IF n % Mag(y.c) = 0 THEN 0 ELSE 1
    IN  Val(Sgn(x.c) * Sgn(y.c) * (10 * (n \div Mag(y.c)) + rest), x.e - y.e - k - 1)

\* The whole times y goes into x, towards zero.
Times(x, y) ==
    LET e == Common(x, y) IN
    Sgn(x.c) * Sgn(y.c) * (Mag(Scaled(x, e)) \div Mag(Scaled(y, e)))

Fits(x, digits) == Width(ValueOf(StripTrailing([sign |-> 0, exp |-> 0, ds |-> DigitsOf(Mag(x.c))])).c) <= digits

\* Where the rules give a result: a divisor that is not zero, a quotient with no
\* more than DIGITS digits, an operand of a prefix operator that needs no rounding.
Defined(op, x, y, digits) ==
    CASE op \in {"NEG", "ABS"} -> Fits(x, digits)
      [] op = "DIV" -> y.c # 0
      [] op = "INTDIV" -> y.c # 0 /\ Mag(Times(x, y)) < 10 ^ digits
      [] op = "MOD" -> y.c # 0 /\ Mag(Times(x, y)) < 10 ^ digits
                       /\ Fits(Val(Times(x, y) * y.c, y.e), digits)
      [] op = "POWER" -> y.e >= 0 /\ Scaled(y, 0) \in 0..4
                         /\ (y.c # 0 => Fits(Val(Mag(x.c) ^ Scaled(y, 0), 0), digits))
      [] OTHER -> TRUE

Exact(op, x, y, digits) ==
    LET e == Common(x, y) IN
    CASE op = "ADD" -> Val(Scaled(x, e) + Scaled(y, e), e)
      [] op = "SUB" -> Val(Scaled(x, e) - Scaled(y, e), e)
      [] op = "MUL" -> Val(x.c * y.c, x.e + y.e)
      [] op = "DIV" -> Ratio(x, y, digits)
      [] op = "INTDIV" -> Val(Times(x, y), 0)
      [] op = "MOD" -> Val(Scaled(x, e) - Times(x, y) * Scaled(y, e), e)
      [] op = "POWER" -> IF y.c = 0 THEN Val(1, 0) ELSE Val(x.c ^ Scaled(y, 0), x.e * Scaled(y, 0))
      [] op = "NEG" -> Val(-x.c, x.e)
      [] OTHER -> Val(Mag(x.c), x.e)

\* TRUNC(x, decimals)
Truncated(x, decimals) ==
    Val(IF x.e + decimals >= 0 THEN x.c * 10 ^ (x.e + decimals)
        ELSE Sgn(x.c) * (Mag(x.c) \div 10 ^ (-x.e - decimals)), -decimals)

\* The order FUZZ leaves: values are equal when they differ by less than one in the
\* last of DIGITS - FUZZ digits of the larger.  "Less" is what the code compares and
\* the comment above the comparison says; the comment above irx_arith_compare says
\* "less or equal", which would make 10 and 11 equal at DIGITS 2, FUZZ 1.
FuzzyOrder(x, y, digits, fuzz) ==
    LET e == Common(x, y)
        adj == Max({x.e + Width(x.c), y.e + Width(y.c)}) - 1
        near == fuzz > 0
                /\ Mag(Scaled(x, e) - Scaled(y, e)) < (IF adj - digits + fuzz >= e
                       THEN 10 ^ (adj - digits + fuzz - e) ELSE 1)
    IN  IF near THEN 0 ELSE Order(x, y)

CompareDefined(x, y, digits, fuzz) ==
    fuzz = 0 \/ (x.c # 0 /\ y.c # 0 /\ Fits(x, digits) /\ Fits(y, digits) /\ fuzz < digits)

Holds(op, order) ==
    CASE op = "EQ" -> order = 0
      [] op = "NE" -> order # 0
      [] op = "LT" -> order < 0
      [] op = "LE" -> order <= 0
      [] op = "GT" -> order > 0
      [] OTHER -> order >= 0
=============================================================================
