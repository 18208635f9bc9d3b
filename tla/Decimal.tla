------------------------------ MODULE Decimal ------------------------------
(***************************************************************************)
(* Decimal arithmetic of irx#arith.c: a number is a coefficient, a         *)
(* sequence of digits with the most significant first, times a power of    *)
(* ten.  The operations work on arrays of digits; a result is rounded to   *)
(* NUMERIC DIGITS, written as text, and read again by the next operation.  *)
(***************************************************************************)
EXTENDS Integers, Sequences, SequencesExt, FiniteSetsExt

CONSTANTS Slack,      \* room in the buffer of num_to_lstr beyond DIGITS: 32
          DigitsMax,  \* NUMERIC_DIGITS_MAX: 1000
          PowLimit    \* exponent times DIGITS of a power at most: 9999999

Zero == [sign |-> 0, exp |-> 0, ds |-> <<0>>]
NaN == [sign |-> 0, exp |-> 0, ds |-> <<>>]      \* num_from_str refuses the text

IsZero(n) == n.ds = <<0>>
Adj(n) == n.exp + Len(n.ds) - 1

DigitChars == <<"0", "1", "2", "3", "4", "5", "6", "7", "8", "9">>
IsDigit(c) == \E i \in 1..10 : DigitChars[i] = c
DigitOf(c) == (CHOOSE i \in 1..10 : DigitChars[i] = c) - 1
Chars(ds) == [i \in DOMAIN ds |-> DigitChars[ds[i] + 1]]
Zeros(k) == [i \in 1..k |-> 0]

Number(ds) == FoldLeft(LAMBDA acc, d : 10 * acc + d, 0, ds)
\* The digits of an exponent, at least one.
DigitsOf(k) ==
    LET len == Min({j \in 1..9 : k < 10 ^ j}) IN [i \in 1..len |-> (k \div 10 ^ (len - i)) % 10]

---------------------------------------------------------------------------
(* Normal form.                                                            *)

\* num_strip_leading
StripLeading(n) ==
    LET lz == Max({k \in 0..Len(n.ds) - 1 : \A i \in 1..k : n.ds[i] = 0})
    IN  [n EXCEPT !.ds = SubSeq(@, lz + 1, Len(@))]

\* num_strip_trailing
StripTrailing(n) ==
    LET keep == Min({k \in 1..Len(n.ds) : \A i \in k + 1..Len(n.ds) : n.ds[i] = 0})
        cut == [n EXCEPT !.exp = @ + Len(n.ds) - keep, !.ds = SubSeq(@, 1, keep)]
    IN  IF IsZero(cut) THEN Zero ELSE cut

\* Half-up.  A mutant: half-down.
RoundsUpLate(d) == d > 5
RoundsUp(d) == d >= 5

\* num_round
NumRound(n, digits) ==
    LET kept == SubSeq(n.ds, 1, digits)
        exp == n.exp + Len(n.ds) - digits
        nines == {i \in 1..digits : kept[i] # 9}
        last == Max(nines)
        up == IF nines = {} THEN [n EXCEPT !.ds = <<1>>, !.exp = exp + digits]
              ELSE [n EXCEPT !.exp = exp,
                             !.ds = [i \in 1..digits |-> IF i < last THEN kept[i]
                                                         ELSE IF i = last THEN kept[i] + 1 ELSE 0]]
    IN  StripTrailing(IF Len(n.ds) <= digits THEN n
                      ELSE IF RoundsUp(n.ds[digits + 1]) THEN up
                      ELSE [n EXCEPT !.ds = kept, !.exp = exp])

---------------------------------------------------------------------------
(* Texts.                                                                  *)

\* num_from_str, a character at a time: blanks, a sign, digits with a point, an
\* exponent, blanks.
ReadChar(r, c) ==
    LET digit == [r EXCEPT !.at = "num", !.ds = Append(@, DigitOf(c))]
        point == [r EXCEPT !.at = IF r.point < 0 THEN "num" ELSE "bad", !.point = Len(r.ds)]
        power == [r EXCEPT !.at = "exp", !.e = 10 * @ + DigitOf(c)]
    IN  CASE r.at = "lead" /\ c = " " -> r
          [] r.at = "lead" /\ c \in {"+", "-"} ->
                [r EXCEPT !.at = "num", !.sign = IF c = "-" THEN 1 ELSE 0]
          [] r.at \in {"lead", "num"} /\ IsDigit(c) -> digit
          [] r.at \in {"lead", "num"} /\ c = "." -> point
          [] r.at \in {"lead", "num"} /\ c = "E" -> [r EXCEPT !.at = "esign"]
          [] r.at = "esign" /\ c \in {"+", "-"} ->
                [r EXCEPT !.at = "exp", !.esign = IF c = "-" THEN -1 ELSE 1]
          [] r.at \in {"esign", "exp"} /\ IsDigit(c) -> power
          [] r.at \in {"num", "esign", "exp", "tail"} /\ c = " " -> [r EXCEPT !.at = "tail"]
          [] OTHER -> [r EXCEPT !.at = "bad"]

NumberRead(r) ==
    LET scale == IF r.point < 0 THEN 0 ELSE Len(r.ds) - r.point
    IN  IF r.at = "bad" \/ r.ds = <<>> THEN NaN
        ELSE StripTrailing(StripLeading([sign |-> r.sign, ds |-> r.ds,
                                         exp |-> r.esign * r.e - scale]))
FromText(text) ==
    LET start == [at |-> "lead", sign |-> 0, ds |-> <<>>, point |-> -1, esign |-> 1, e |-> 0]
    IN  NumberRead(FoldLeft(ReadChar, start, text))

\* The digits from position i to j, with zeros where the coefficient has ended.
Padded(ds, i, j) == [k \in 1..j - i + 1 |-> IF i + k - 1 <= Len(ds) THEN ds[i + k - 1] ELSE 0]
Fraction(ds, from) == IF from > Len(ds) THEN <<>> ELSE <<".">> \o Chars(SubSeq(ds, from, Len(ds)))

Minus(n) == IF n.sign = 1 THEN <<"-">> ELSE <<>>

\* num_format: fixed-point from 0.00000d up to DIGITS + 1 digits before the point.
Fixed(n) ==
    IF Adj(n) >= 0
    THEN Chars(Padded(n.ds, 1, Adj(n) + 1)) \o Fraction(n.ds, Adj(n) + 2)
    ELSE <<"0", ".">> \o Chars(Zeros(-Adj(n) - 1)) \o Chars(n.ds)

Exponential(n, form) ==
    LET rem == IF form = "ENGINEERING" THEN Adj(n) % 3 ELSE 0
        shown == Adj(n) - rem
    IN  Chars(Padded(n.ds, 1, rem + 1)) \o Fraction(n.ds, rem + 2) \o <<"E">>
        \o (IF shown >= 0 THEN <<"+">> \o Chars(DigitsOf(shown))
            ELSE <<"-">> \o Chars(DigitsOf(-shown)))

\* num_to_lstr gives num_format a buffer by DIGITS, whatever the coefficient has;
\* what does not fit is not written.
ToText(n, dig, form) ==
    LET full == IF IsZero(n) THEN <<"0">>
                ELSE Minus(n) \o (IF Adj(n) >= -5 /\ Adj(n) <= dig THEN Fixed(n)
                                  ELSE Exponential(n, form))
    IN  SubSeq(full, 1, Min({Len(full), dig + Slack - 1}))

---------------------------------------------------------------------------
(* Operations on magnitudes, with arrays of work digits.                   *)

DigitAt(n, p) ==
    IF p \in n.exp..Adj(n) THEN n.ds[Len(n.ds) - (p - n.exp)] ELSE 0

\* mag_compare
MagCompare(a, b) ==
    LET len == Max({Len(a.ds), Len(b.ds)})
        differ == {i \in 1..len : Padded(a.ds, i, i) # Padded(b.ds, i, i)}
        first == Min(differ)
    IN  CASE IsZero(a) /\ IsZero(b) -> 0
          [] IsZero(a) /\ ~IsZero(b) -> -1
          [] ~IsZero(a) /\ IsZero(b) -> 1
          [] OTHER -> IF Adj(a) # Adj(b) THEN (IF Adj(a) > Adj(b) THEN 1 ELSE -1)
                      ELSE IF differ = {} THEN 0
                      ELSE IF Padded(a.ds, first, first)[1] > Padded(b.ds, first, first)[1] THEN 1
                      ELSE -1

\* From the last work digit to the first, each hands what it cannot hold to
\* the next, or borrows from it.
Carried(work) ==
    LET step(x, acc) == [out |-> <<(x + acc.carry) % 10>> \o acc.out,
                         carry |-> (x + acc.carry) \div 10]
    IN  FoldRight(step, work, [out |-> <<>>, carry |-> 0]).out

Lowest(a, b) == Min({a.exp, b.exp})
Highest(a, b) == Max({Adj(a), Adj(b)})

\* add_magnitudes and sub_magnitudes; the second operand is not the larger one.
AddMagnitudes(a, b) ==
    LET hi == Highest(a, b) + 1
        work == [k \in 1..hi - Lowest(a, b) + 1 |-> DigitAt(a, hi + 1 - k) + DigitAt(b, hi + 1 - k)]
    IN  StripLeading([sign |-> 0, exp |-> Lowest(a, b), ds |-> Carried(work)])

SubMagnitudes(a, b) ==
    LET hi == Highest(a, b)
        work == [k \in 1..hi - Lowest(a, b) + 1 |-> DigitAt(a, hi + 1 - k) - DigitAt(b, hi + 1 - k)]
    IN  StripTrailing(StripLeading([sign |-> 0, exp |-> Lowest(a, b), ds |-> Carried(work)]))

Signed(n, sign) == [n EXCEPT !.sign = sign]

\* num_addsub
AddSub(a, b, subtract, digits) ==
    LET bsign == IF subtract THEN 1 - b.sign ELSE b.sign
        mc == MagCompare(a, b)
        sum == IF a.sign = bsign THEN Signed(AddMagnitudes(a, b), a.sign)
               ELSE IF mc = 0 THEN Zero
               ELSE IF mc > 0 THEN Signed(SubMagnitudes(a, b), a.sign)
               ELSE Signed(SubMagnitudes(b, a), bsign)
    IN  NumRound(sum, digits)

\* num_mul
Mul(a, b, digits) ==
    LET rlen == Len(a.ds) + Len(b.ds)
        pairs(k) == {i \in DOMAIN a.ds : k - i \in DOMAIN b.ds}
        work == [k \in 1..rlen |-> MapThenSumSet(LAMBDA i : a.ds[i] * b.ds[k - i], pairs(k))]
    IN  NumRound(StripLeading([sign |-> (a.sign + b.sign) % 2, exp |-> a.exp + b.exp,
                               ds |-> Carried(work)]), digits)

\* num_div_impl: long division, a quotient digit estimated from the leading digits
\* and then taken down until its product fits.
Quotient(a, b, scale) ==
    LET len == Len(b.ds)
        divisor == Number(b.ds)
        da == a.ds \o Zeros(scale)
        steps == Len(da) - len + 1
        step(acc, i) ==
            LET estimate == Min({9, (acc.partial \div 10 ^ (len - 1)) \div b.ds[1]})
                qd == Max({q \in 0..estimate : q * divisor <= acc.partial})
                left == (acc.partial - qd * divisor) % 10 ^ len
            IN  [dq |-> Append(acc.dq, qd),
                 partial |-> 10 * left + IF i + len <= Len(da) THEN da[i + len] ELSE 0]
    IN  FoldLeft(step, [dq |-> <<>>, partial |-> Number(SubSeq(da, 1, len))],
                 [i \in 1..steps |-> i]).dq

\* The integer part of a quotient.
Integer(n) ==
    IF n.exp >= 0 THEN n
    ELSE IF -n.exp >= Len(n.ds) THEN Zero
    ELSE StripTrailing([n EXCEPT !.ds = SubSeq(@, 1, Len(@) + n.exp), !.exp = 0])

Limited(n, digits) == IF Len(n.ds) > digits THEN NumRound(n, digits) ELSE n

Div(a, b, digits, intOnly) ==
    LET scale == digits + 2 + Len(b.ds)
        q == StripLeading([sign |-> (a.sign + b.sign) % 2, exp |-> a.exp - b.exp - scale,
                           ds |-> Quotient(a, b, scale)])
    IN  IF intOnly THEN Limited(Integer(q), digits) ELSE NumRound(q, digits)

\* a // b
Mod(a, b, digits) ==
    AddSub(a, Mul(Div(a, b, digits, TRUE), b, digits), TRUE, digits)

\* num_power
Power(a, k, digits) ==
    FoldLeft(LAMBDA r, i : Mul(r, a, digits), [sign |-> 0, exp |-> 0, ds |-> <<1>>],
             [i \in 1..k |-> i])

Exponent(n) == Number(n.ds) * 10 ^ n.exp

---------------------------------------------------------------------------

\* irx_arith_op up to the text of its result.
Compute(op, a, b, digits) ==
    LET ok(n) == [rc |-> "OK", n |-> n]
        fails(rc) == [rc |-> rc, n |-> NaN]
    IN  CASE a = NaN -> fails("SYNTAX")
          [] a # NaN /\ op = "NEG" -> ok(IF IsZero(a) THEN a ELSE Signed(a, 1 - a.sign))
          [] a # NaN /\ op = "ABS" -> ok(Signed(a, 0))
          [] a # NaN /\ op \notin {"NEG", "ABS"} /\ b = NaN -> fails("SYNTAX")
          [] OTHER ->
                CASE op \in {"ADD", "SUB"} -> ok(AddSub(a, b, op = "SUB", digits))
                  [] op = "MUL" -> ok(Mul(a, b, digits))
                  [] op = "POWER" -> IF b.sign = 1 \/ b.exp < 0 THEN fails("SYNTAX")
                                     ELSE IF Exponent(b) > PowLimit \div digits THEN fails("OVERFLOW")
                                     ELSE ok(Power(a, Exponent(b), digits))
                  [] IsZero(b) -> fails("DIVZERO")
                  [] op \in {"DIV", "INTDIV"} -> ok(Div(a, b, digits, op = "INTDIV"))
                  [] OTHER -> ok(Mod(a, b, digits))

\* irx_arith_compare.  A mutant: the tolerance one digit too wide.
ToleranceWide(adj, digits, fuzz) == adj - digits + fuzz + 1
Tolerance(adj, digits, fuzz) == adj - digits + fuzz

Compare(a, b, digits, fuzz) ==
    LET exact == IF a.sign = 1 THEN -MagCompare(a, b) ELSE MagCompare(a, b)
        diff == AddSub(a, b, TRUE, digits)
    IN  IF a.sign # b.sign THEN (IF a.sign = 1 THEN -1 ELSE 1)
        ELSE IF fuzz = 0 THEN exact
        ELSE IF IsZero(diff) THEN 0
        ELSE IF Adj(diff) < Tolerance(Highest(a, b), digits, fuzz) THEN 0
        ELSE exact

\* num_truncate_to_exp, num_pad_to_exp
TruncateTo(n, exp) ==
    LET drop == exp - n.exp IN
    IF drop <= 0 THEN n
    ELSE IF drop >= Len(n.ds) THEN Zero
    ELSE [n EXCEPT !.ds = SubSeq(@, 1, Len(@) - drop), !.exp = exp]

PadTo(n, exp) ==
    IF n.exp <= exp THEN n ELSE [n EXCEPT !.ds = @ \o Zeros(n.exp - exp), !.exp = exp]

\* num_emit_fixed
EmitFixed(n, decimals) ==
    LET whole == Len(n.ds) + n.exp
        point(digits) == IF decimals > 0 THEN <<".">> \o Chars(digits) ELSE <<>>
    IN  IF IsZero(n) THEN <<"0">> \o point(Zeros(decimals))
        ELSE Minus(n) \o (IF whole <= 0 THEN <<"0">> \o point(Zeros(-whole) \o n.ds)
                          ELSE Chars(Padded(n.ds, 1, whole)) \o point(SubSeq(n.ds, whole + 1, Len(n.ds))))

\* num_round_to_exp
RoundTo(n, exp) ==
    LET drop == exp - n.exp
        kept == SubSeq(n.ds, 1, Len(n.ds) - drop)
        next == Carried(<<0>> \o [kept EXCEPT ![Len(kept)] = @ + 1])
        raised == IF next[1] = 0 THEN Tail(next) ELSE next
        one == drop = Len(n.ds) /\ RoundsUp(n.ds[1])
    IN  IF drop <= 0 THEN n
        ELSE IF drop >= Len(n.ds)
        THEN [sign |-> IF one THEN n.sign ELSE 0, exp |-> exp, ds |-> IF one THEN <<1>> ELSE <<0>>]
        ELSE [n EXCEPT !.exp = exp, !.ds = IF RoundsUp(n.ds[Len(kept) + 1]) THEN raised ELSE kept]

\* irx_arith_format: rounded to DIGITS, then to the decimals asked for, and only then
\* found to need an exponent.  An option below zero is omitted.
Given(option) == option >= 0

Shaped(n, after, digits) ==
    LET r == NumRound(n, digits) IN
    IF ~Given(after) THEN r
    ELSE IF r.exp < -after THEN RoundTo(r, -after) ELSE PadTo(r, -after)

IsFixed(n, expp, expt, digits) ==
    LET size == IF Adj(n) < 0 THEN -Adj(n) ELSE Adj(n) IN
    \/ n.ds = <<0>> \/ expp = 0
    \/ Given(expt) /\ size <= expt
    \/ ~Given(expt) /\ Given(expp) /\ size <= digits
    \/ ~Given(expt) /\ ~Given(expp) /\ Adj(n) \in -5..digits

\* The coefficient of an exponential form: after decimals behind its first digit.
Mantissa(n, after) ==
    IF ~Given(after) THEN n
    ELSE IF 1 + after < Len(n.ds) THEN RoundTo(n, Adj(n) - after)
    ELSE LET pad == 1 + after - Len(n.ds) IN [n EXCEPT !.ds = @ \o Zeros(pad), !.exp = @ - pad]

Written(m, fixed, before, after, expp) ==
    LET whole == IF fixed THEN Adj(m) + 1 ELSE 1
        decimals == IF Given(after) THEN after ELSE IF fixed THEN Max({0, -m.exp}) ELSE Len(m.ds) - 1
        sign == IF IsZero(m) THEN <<>> ELSE Minus(m)
        int == sign \o (IF whole <= 0 THEN <<"0">> ELSE Chars(Padded(m.ds, 1, whole)))
        behind == IF whole < 0 THEN Zeros(-whole) \o m.ds ELSE SubSeq(m.ds, whole + 1, Len(m.ds))
        blanks == [i \in 1..(IF Given(before) THEN before - Len(int) ELSE 0) |-> " "]
        power == DigitsOf(IF Adj(m) < 0 THEN -Adj(m) ELSE Adj(m))
        wide == [i \in 1..(IF Given(expp) THEN expp - Len(power) ELSE 0) |-> "0"]
    IN  IF \/ fixed /\ whole > DigitsMax
           \/ Given(before) /\ Len(int) > before
           \/ ~fixed /\ Given(expp) /\ Len(power) > expp
        THEN [rc |-> "SYNTAX", text |-> <<>>]
        ELSE [rc |-> "OK",
              text |-> blanks \o int
                       \o (IF decimals > 0 THEN <<".">> \o Chars(SubSeq(behind, 1, decimals)) ELSE <<>>)
                       \o (IF fixed THEN <<>>
                           ELSE <<"E", IF Adj(m) >= 0 THEN "+" ELSE "-">> \o wide \o Chars(power))]

Format(n, before, after, expp, expt, digits) ==
    LET shaped == Shaped(n, after, digits)
    IN  IF IsFixed(shaped, expp, expt, digits) THEN Written(shaped, TRUE, before, after, expp)
        ELSE Written(Mantissa(shaped, after), FALSE, before, after, expp)

\* irx_arith_trunc
Trunc(n, decimals) == EmitFixed(PadTo(TruncateTo(n, -decimals), -decimals), decimals)
=============================================================================
