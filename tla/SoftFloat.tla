----------------------------- MODULE SoftFloat ------------------------------
(***************************************************************************)
(* The x87's operations in integers (x80.c).  A significand has W bits for  *)
(* the code's 64, and an exponent is at most EMAX for its 16383; hi:lo of    *)
(* the code is one number of 2W bits.  An operation answers with its result  *)
(* and the bits of the status word it sets.                                 *)
(***************************************************************************)
EXTENDS Integers, FiniteSets, FiniteSetsExt

CONSTANTS W, EMAX
ASSUME FloatConstants == W \in Nat /\ W > 2 /\ EMAX \in Nat /\ EMAX > 1

EMIN == 1 - EMAX
J == 2^(W - 1)
Quiet == 2^(W - 2)
AllOnes == 2 * EMAX + 1

\* A register: a sign, an exponent and a significand with its integer bit.
X80(neg, be, m) == [neg |-> neg, be |-> be, m |-> m]
Registers == [neg : BOOLEAN, be : 0 .. AllOnes, m : 0 .. 2^W - 1]

Gives(r, sw) == [r |-> r, sw |-> sw]
Indefinite == X80(TRUE, AllOnes, J + Quiet)
Inf(neg) == X80(neg, AllOnes, J)
Zero(neg) == X80(neg, 0, 0)
Invalid == Gives(Indefinite, {"IE"})

---------------------------------------------------------------------------
(* Unpacking: what an operand is, and a finite one as m * 2^(e - (W - 1)) *)

Clz(m) == W - 1 - Max({i \in 0 .. W - 1 : m >= 2^i})

Unpack(x) ==
    LET u == [k |-> "FIN", neg |-> x.neg, den |-> FALSE, e |-> 0, m |-> x.m]
    IN  IF x.be = 0
        THEN IF x.m = 0 THEN [u EXCEPT !.k = "ZERO"]
             ELSE [u EXCEPT !.den = TRUE, !.e = EMIN - Clz(x.m), !.m = @ * 2^Clz(@)]
        ELSE IF x.m < J THEN [u EXCEPT !.k = "BAD"]
        ELSE IF x.be = AllOnes
        THEN [u EXCEPT !.k = IF x.m = J THEN "INF" ELSE IF x.m >= J + Quiet THEN "QNAN" ELSE "SNAN"]
        ELSE [u EXCEPT !.e = x.be - EMAX]

IsNan(u) == u.k \in {"QNAN", "SNAN"}
Denormal(us) == IF \E u \in us : u.den THEN {"DE"} ELSE {}
Signals(us) == IF \E u \in us : u.k = "SNAN" THEN {"IE"} ELSE {}
Quieted(u) == X80(u.neg, AllOnes, IF u.m >= J + Quiet THEN u.m ELSE u.m + Quiet)

Nan1(a) == Gives(Quieted(a), Signals({a}))
Nan2(a, b) ==
    LET w == CASE ~IsNan(a) -> b [] IsNan(a) /\ ~IsNan(b) -> a
               [] IsNan(a) /\ IsNan(b) /\ a.k # b.k -> IF a.k = "QNAN" THEN a ELSE b
               [] IsNan(a) /\ IsNan(b) /\ a.k = b.k /\ a.m # b.m -> IF b.m > a.m THEN b ELSE a
               [] OTHER -> IF a.neg THEN b ELSE a
    IN  Gives(Quieted(w), Signals({a, b}))

---------------------------------------------------------------------------
(* Rounding *)

\* Where a result goes: p bits, exponents, and whether it is a register.
Format(p, reg, emax) == [p |-> p, reg |-> reg, emin |-> 1 - emax, emax |-> emax]
Register(p) == Format(p, TRUE, EMAX)

\* A number shifted right: what is kept, the first bit dropped, and the rest.
ShrRound(n, sticky, s) ==
    [kept |-> n \div 2^s, g |-> s > 0 /\ (n \div 2^(s - 1)) % 2 = 1,
     st |-> sticky \/ (s > 0 /\ n % 2^(s - 1) # 0)]

\* A mistake it could have made: a half goes up.
HalfGoesUp(rc, neg, x) ==
    CASE rc = "near" -> x.g
      [] rc = "down" -> neg /\ (x.g \/ x.st)
      [] rc = "up"   -> ~neg /\ (x.g \/ x.st)
      [] rc = "zero" -> FALSE

RoundUp(rc, neg, x) ==
    CASE rc = "near" -> x.g /\ (x.st \/ x.kept % 2 = 1)
      [] rc = "down" -> neg /\ (x.g \/ x.st)
      [] rc = "up"   -> ~neg /\ (x.g \/ x.st)
      [] rc = "zero" -> FALSE
OverflowToInf(rc, neg) == rc = "near" \/ (rc = "down" /\ neg) \/ (rc = "up" /\ ~neg)

Raised(x, up) == (IF x.g \/ x.st THEN {"PE"} ELSE {}) \cup (IF up THEN {"C1"} ELSE {})

\* n * 2^(e - (2W - 1)), n's top bit set, and anything below, to a format.
RoundPack(f, rc, neg, e, n, sticky) ==
    LET top == 2^(f.p - 1)
        layout(kept) == IF f.reg THEN kept * 2^(W - f.p) ELSE kept % top
        x == ShrRound(n, sticky, 2 * W - f.p)
        up == RoundUp(rc, neg, x)
        carry == up /\ x.kept = 2 * top - 1
        kept == IF carry THEN top ELSE IF up THEN x.kept + 1 ELSE x.kept
        e1 == IF carry THEN e + 1 ELSE e
        y == ShrRound(n, sticky, 2 * W - f.p + f.emin - e)
        yup == RoundUp(rc, neg, y)
        ykept == IF yup THEN y.kept + 1 ELSE y.kept
    IN  IF e >= f.emin \/ (e = f.emin - 1 /\ carry)
        THEN IF e1 > f.emax
             THEN IF OverflowToInf(rc, neg)
                  THEN Gives(X80(neg, 2 * f.emax + 1, IF f.reg THEN J ELSE 0), {"OE", "PE", "C1"})
                  ELSE Gives(X80(neg, 2 * f.emax, layout(2 * top - 1)), {"OE", "PE"})
             ELSE Gives(X80(neg, e1 + f.emax, layout(kept)), Raised(x, up))
        ELSE Gives(X80(neg, IF ykept >= top THEN 1 ELSE 0, layout(ykept)),
                   Raised(y, yup) \cup IF y.g \/ y.st THEN {"UE"} ELSE {})

Normal(f, rc, neg, e, n, sticky) ==     \* n of any size below 2^2W, shifted up
    LET z == 2 * W - 1 - Max({i \in 0 .. 2 * W - 1 : n >= 2^i})
    IN  RoundPack(f, rc, neg, e - z, n * 2^z, sticky)
Rounded(f, rc, neg, e, m) == RoundPack(f, rc, neg, e, m * 2^W, FALSE)
Also(x, sw) == [x EXCEPT !.sw = @ \cup sw]

---------------------------------------------------------------------------
(* Arithmetic *)

AddFin(f, rc, a, b) ==
    LET swap == b.e > a.e \/ (b.e = a.e /\ b.m > a.m)
        x == IF swap THEN b ELSE a
        y == IF swap THEN a ELSE b
        d == x.e - y.e
        low == (y.m * 2^W) \div 2^d
        sticky == (y.m * 2^W) % 2^d # 0
        sum == x.m * 2^W + low
        less == x.m * 2^W - low - (IF sticky THEN 1 ELSE 0)
    IN  IF a.k = "ZERO" /\ b.k = "ZERO"
        THEN Gives(Zero(IF a.neg = b.neg THEN a.neg ELSE rc = "down"), {})
        ELSE IF b.k = "ZERO" THEN Rounded(f, rc, a.neg, a.e, a.m)
        ELSE IF a.k = "ZERO" THEN Rounded(f, rc, b.neg, b.e, b.m)
        ELSE IF x.neg = y.neg
        THEN IF sum >= 2^(2 * W)
             THEN RoundPack(f, rc, x.neg, x.e + 1, sum \div 2, sticky \/ sum % 2 = 1)
             ELSE RoundPack(f, rc, x.neg, x.e, sum, sticky)
        ELSE IF less = 0 THEN Gives(Zero(rc = "down"), {})
        ELSE Normal(f, rc, x.neg, x.e, less, sticky)

MulFin(f, rc, a, b) == Normal(f, rc, a.neg # b.neg, a.e + b.e + 1, a.m * b.m, FALSE)

DivFin(f, rc, a, b) ==
    LET big == a.m >= b.m
        n == a.m * 2^(IF big THEN 2 * W - 1 ELSE 2 * W)
    IN  RoundPack(f, rc, a.neg # b.neg, a.e - b.e - (IF big THEN 0 ELSE 1), n \div b.m, n % b.m # 0)

FloatArith(op, f, rc, a, b) ==
    LET turned == op \in {"subr", "divr"}
        x == IF turned THEN b ELSE a
        y == IF turned THEN a ELSE b
        sum == op \in {"add", "sub", "subr"}
        nb == IF op = "add" THEN y ELSE [y EXCEPT !.neg = ~@]
        sign == x.neg # y.neg
        is(k) == \E u \in {x, y} : u.k = k
        den == Denormal({a, b})
    IN  IF is("BAD") THEN Invalid
        ELSE IF IsNan(a) \/ IsNan(b) THEN Nan2(a, b)
        ELSE IF sum
        THEN IF x.k = "INF" /\ y.k = "INF" /\ x.neg # nb.neg THEN Invalid
             ELSE IF is("INF") THEN Gives(Inf(IF x.k = "INF" THEN x.neg ELSE nb.neg), den)
             ELSE Also(AddFin(f, rc, x, nb), den)
        ELSE IF op = "mul"
        THEN IF is("ZERO") /\ is("INF") THEN Invalid
             ELSE IF is("INF") THEN Gives(Inf(sign), den)
             ELSE IF is("ZERO") THEN Gives(Zero(sign), den)
             ELSE Also(MulFin(f, rc, x, y), den)
        ELSE IF x.k = y.k /\ x.k \in {"ZERO", "INF"} THEN Invalid
             ELSE IF y.k = "ZERO" /\ x.k # "INF" THEN Gives(Inf(sign), {"ZE"})
             ELSE IF x.k = "INF" THEN Gives(Inf(sign), den)
             ELSE IF y.k = "INF" \/ x.k = "ZERO" THEN Gives(Zero(sign), den)
             ELSE Also(DivFin(f, rc, x, y), den)

\* The condition codes of a comparison.
CompareCodes(c) == CASE c < 0 -> {"C0"} [] c = 0 -> {"C3"} [] c > 0 -> {}
Compare(a, b, unordered) ==
    LET nans == \E u \in {a, b} : u.k = "BAD" \/ IsNan(u)
        loud == ~unordered \/ \E u \in {a, b} : u.k \in {"BAD", "SNAN"}
        sign(u) == IF u.neg THEN -1 ELSE 1
        above == \/ a.k = "INF" /\ b.k # "INF"
                 \/ a.k # "INF" /\ b.k # "INF" /\ (a.e > b.e \/ (a.e = b.e /\ a.m > b.m))
        same == a.k = b.k /\ (a.k = "INF" \/ (a.e = b.e /\ a.m = b.m))
        c == CASE a.k = "ZERO" /\ b.k = "ZERO" -> 0
               [] a.k = "ZERO" /\ b.k # "ZERO" -> -sign(b)
               [] a.k # "ZERO" /\ (b.k = "ZERO" \/ a.neg # b.neg) -> sign(a)
               [] OTHER -> IF same THEN 0 ELSE IF above THEN sign(a) ELSE -sign(a)
    IN  IF nans THEN {"C0", "C2", "C3"} \cup (IF loud THEN {"IE"} ELSE {})
        ELSE CompareCodes(c) \cup Denormal({a, b})

---------------------------------------------------------------------------
(* One operand *)

\* The root of a number, and what is left: what isqrt128 comes to.
RootOf(n) == Max({i \in 0 .. 2^W - 1 : i * i <= n})
Sqrt(f, rc, x) ==
    LET u == Unpack(x)
        odd == u.e % 2
        n == IF odd = 1 THEN u.m * 2^W ELSE u.m * 2^(W - 1)
        rt == RootOf(n)
        rem == n - rt * rt
    IN  CASE u.k = "BAD" -> Invalid
          [] IsNan(u) -> Nan1(u)
          [] u.k = "ZERO" \/ (u.k = "INF" /\ ~u.neg) -> Gives(x, {})
          [] u.k \in {"INF", "FIN"} /\ u.neg -> Invalid
          [] OTHER -> Also(RoundPack(f, rc, FALSE, (u.e - odd) \div 2,
                                     rt * 2^W + (IF rem > rt THEN 2^(W - 1) ELSE 0), rem # 0),
                           Denormal({u}))

\* The integer part of a finite number, and what rounding makes of it.
Whole(u) == ShrRound(u.m * 2^W, FALSE, 2 * W - 1 - u.e)
Rndint(rc, x) ==
    LET u == Unpack(x)
        w == Whole(u)
        up == RoundUp(rc, u.neg, w)
        kept == IF up THEN w.kept + 1 ELSE w.kept
    IN  CASE u.k = "BAD" -> Invalid
          [] IsNan(u) -> Nan1(u)
          [] u.k \in {"ZERO", "INF"} -> Gives(x, {})
          [] u.k = "FIN" ->
                Also(IF u.e >= W - 1 THEN Gives(x, {})
                     ELSE IF ~w.g /\ ~w.st THEN Gives(X80(u.neg, u.e + EMAX, u.m), {})
                     ELSE IF kept = 0 THEN Gives(Zero(u.neg), Raised(w, up))
                     ELSE Gives(X80(u.neg, EMAX + W - 1 - Clz(kept), kept * 2^Clz(kept)), Raised(w, up)),
                     Denormal({u}))

\* FIST to an integer of so many bits: the number, or its indefinite.
ToInt(rc, x, bits) ==
    LET u == Unpack(x)
        lim == 2^(bits - 1)
        w == Whole(u)
        up == RoundUp(rc, u.neg, w)
        kept == IF up THEN w.kept + 1 ELSE w.kept
        bad == Gives(-lim, {"IE"})
    IN  IF u.k = "ZERO" THEN Gives(0, {})
        ELSE IF u.k # "FIN" \/ u.e > W - 1 THEN bad
        ELSE IF kept > lim \/ (kept = lim /\ ~u.neg) THEN bad
        ELSE Gives(IF u.neg THEN -kept ELSE kept, Raised(w, up))

FromInt(v) ==
    LET m == IF v < 0 THEN -v ELSE v
    IN  IF m = 0 THEN Zero(FALSE) ELSE X80(v < 0, EMAX + W - 1 - Clz(m), m * 2^Clz(m))

\* A scale beyond any exponent there is.
FAR == 2 * (EMAX + W)
Scale(rc, x, by) ==
    LET a == Unpack(x)  b == Unpack(by)
        n == IF b.k = "ZERO" \/ b.e < 0 THEN 0 ELSE Min({Whole(b).kept, FAR})
        den == Denormal({a, b})
    IN  IF a.k = "BAD" \/ b.k = "BAD" THEN Invalid
        ELSE IF IsNan(a) \/ IsNan(b) THEN Nan2(a, b)
        ELSE IF b.k = "INF" /\ a.k = (IF b.neg THEN "INF" ELSE "ZERO") THEN Invalid
        ELSE IF a.k \in {"ZERO", "INF"} THEN Gives(x, den)
        ELSE IF b.k = "INF" THEN Gives(IF b.neg THEN Zero(a.neg) ELSE Inf(a.neg), den)
        ELSE Also(Rounded(Register(W), rc, a.neg, a.e + (IF b.neg THEN -n ELSE n), a.m), den)

\* The exponent and the significand apart.
Xtract(x) ==
    LET u == Unpack(x)
        both(e, s, sw) == [exp |-> e, sig |-> s, sw |-> sw]
    IN  CASE u.k = "BAD" -> both(Indefinite, Indefinite, {"IE"})
          [] IsNan(u) -> both(Quieted(u), Quieted(u), Signals({u}))
          [] u.k = "INF" -> both(Inf(FALSE), x, {})
          [] u.k = "ZERO" -> both(Inf(TRUE), x, {"ZE"})
          [] u.k = "FIN" -> both(FromInt(u.e), X80(u.neg, EMAX, u.m), Denormal({u}))

\* The remainder, or where the exponents are W apart a part of the way to it.
QuotientCodes(q) == (IF q % 2 = 1 THEN {"C1"} ELSE {}) \cup (IF (q \div 2) % 2 = 1 THEN {"C3"} ELSE {})
                    \cup (IF (q \div 4) % 2 = 1 THEN {"C0"} ELSE {})
Prem(rc, x, by) ==
    LET a == Unpack(x)  b == Unpack(by)
        apart == a.e - b.e
        half == W \div 2
        n == IF apart >= W THEN half + (apart % half) ELSE apart
        d == apart - n
        q == (a.m * 2^n) \div b.m
        rem == (a.m * 2^n) % b.m
        codes == IF d = 0 THEN QuotientCodes(q) ELSE {"C2"}
        den == Denormal({a, b})
    IN  IF a.k = "BAD" \/ b.k = "BAD" THEN Invalid
        ELSE IF IsNan(a) \/ IsNan(b) THEN Nan2(a, b)
        ELSE IF a.k = "INF" \/ b.k = "ZERO" THEN Invalid
        ELSE IF a.k = "ZERO" THEN Gives(x, den)
        ELSE IF b.k = "INF" \/ apart < 0
             THEN Also(Rounded(Register(W), rc, a.neg, a.e, a.m), den)
        ELSE IF rem = 0 THEN Gives(Zero(a.neg), codes \cup den)
        ELSE Also(Rounded(Register(W), rc, a.neg, b.e + d - Clz(rem), rem * 2^Clz(rem)), codes \cup den)

---------------------------------------------------------------------------
(* Memory: a float of fp bits, stored and loaded *)

UnpackIeee(y, f) ==        \* y has f's layout, without the integer bit
    LET m == y.m * 2^(W - f.p)
        u == [k |-> "FIN", neg |-> y.neg, den |-> FALSE, e |-> y.be - f.emax, m |-> J + m]
    IN  IF y.be = 0
        THEN IF y.m = 0 THEN [u EXCEPT !.k = "ZERO", !.m = 0]
             ELSE [u EXCEPT !.den = TRUE, !.e = f.emin - Clz(m), !.m = m * 2^Clz(m)]
        ELSE IF y.be < 2 * f.emax + 1 THEN u
        ELSE [u EXCEPT !.k = IF m = 0 THEN "INF" ELSE IF m >= Quiet THEN "QNAN" ELSE "SNAN"]

FromIeee(y, f) ==
    LET u == UnpackIeee(y, f)
    IN  CASE u.k = "ZERO" -> Gives(Zero(u.neg), {})
          [] u.k = "INF" -> Gives(Inf(u.neg), {})
          [] IsNan(u) -> Nan1(u)
          [] u.k = "FIN" -> Gives(X80(u.neg, u.e + EMAX, u.m), Denormal({u}))

ToIeee(rc, x, f) ==
    LET u == Unpack(x)
        ones == 2 * f.emax + 1
        quiet == 2^(f.p - 2)
        payload == (u.m % J) \div 2^(W - f.p)
    IN  CASE u.k = "BAD" -> Gives(X80(TRUE, ones, quiet), {"IE"})
          [] u.k = "ZERO" -> Gives(Zero(u.neg), {})
          [] u.k = "INF" -> Gives(X80(u.neg, ones, 0), {})
          [] IsNan(u) -> Gives(X80(u.neg, ones, IF payload >= quiet THEN payload ELSE payload + quiet),
                               Signals({u}))
          [] u.k = "FIN" -> Rounded(f, rc, u.neg, u.e, u.m)

---------------------------------------------------------------------------
(* One operation *)

CONSTANTS PS,              \* precisions of the precision control
          Mem              \* the format of memory operands

VARIABLES fop,             \* the operation and its operands
          fres             \* its result
floatVars == <<fop, fres>>

Rcs == {"near", "down", "up", "zero"}
MemFloats == [neg : BOOLEAN, be : 0 .. 2 * Mem.emax + 1, m : 0 .. 2^(Mem.p - 1) - 1]
Binary == {"add", "sub", "mul", "div", "scale", "prem", "fcom", "fucom"}
Unary == {"sqrt", "rndint", "fist", "xtract", "fst"}

Operate(o) ==
    LET a == Unpack(o.x)  f == Register(o.p)
    IN  CASE o.op \in {"add", "sub", "mul", "div"} -> FloatArith(o.op, f, o.rc, a, Unpack(o.y))
          [] o.op = "subrm" -> FloatArith("subr", f, o.rc, a, UnpackIeee(o.y, Mem))
          [] o.op = "scale" -> Scale(o.rc, o.x, o.y)
          [] o.op = "prem" -> Prem(o.rc, o.x, o.y)
          [] o.op \in {"fcom", "fucom"} -> Gives(o.x, Compare(a, Unpack(o.y), o.op = "fucom"))
          [] o.op = "sqrt" -> Sqrt(f, o.rc, o.x)
          [] o.op = "rndint" -> Rndint(o.rc, o.x)
          [] o.op = "fist" -> ToInt(o.rc, o.x, W)
          [] o.op = "xtract" -> Gives(Xtract(o.x), Xtract(o.x).sw)
          [] o.op = "fst" -> ToIeee(o.rc, o.x, Mem)
          [] o.op = "fld" -> FromIeee(o.y, Mem)

FloatInit ==
    /\ \E x \in Registers, rc \in Rcs, p \in PS : fop = [op |-> "none", x |-> x, rc |-> rc, p |-> p]
    /\ fres = "none"

\* One operand is not negative: turning both signs turns that of everything.
FloatStep ==
    /\ fop.op = "none"
    /\ \/ \E op \in Binary, y \in Registers :
             /\ ~fop.x.neg
             /\ op \in {"scale", "prem", "fcom", "fucom"} => fop.p = W
             /\ fop' = [op |-> op, x |-> fop.x, y |-> y, rc |-> fop.rc, p |-> fop.p]
       \/ \E op \in Unary : fop' = [fop EXCEPT !.op = op]
       \/ \E y \in MemFloats, op \in {"subrm", "fld"} :
             /\ op = "fld" => fop.x = Zero(FALSE)
             /\ fop' = [op |-> op, x |-> fop.x, y |-> y, rc |-> fop.rc, p |-> fop.p]
    /\ fres' = Operate(fop')

-----------------------------------------------------------------------------
(***************************************************************************)
(* What the operations of SoftFloat are to come to: the exact result of the  *)
(* numbers, rounded once.  A number is a count of units, the unit being the  *)
(* least number a register holds; a result is a fraction of two naturals.    *)
(***************************************************************************)

Unit == EMAX - 2 + W       \* a unit is 2^-Unit
Units(x) == IF x.be = 0 THEN x.m ELSE x.m * 2^(x.be - 1)
Num(x) == IF x.neg THEN -Units(x) ELSE Units(x)
FormatOf(o) == IF o.op = "fst" THEN Mem ELSE Register(o.p)
MemUnits(y) == Units(FromIeee(y, Mem).r)

\* What a format holds, and what would be its next, in units.
Ulp(f) == 2^(f.emin - (f.p - 1) + Unit)
Beyond(f) == 2^(f.emax + 1 + Unit)
Held(f) == {m * 2^i * Ulp(f) : m \in 0 .. 2^f.p - 1, i \in 0 .. f.emax - f.emin} \cup {Beyond(f)}

\* The magnitude num/den rounded to f: which it is, and what is to be said of it.
\* It is tiny when it is below 2^emin rounded as if exponents went on down.
RoundedOnce(f, rc, neg, num, den) ==
    LET over == num >= Beyond(f) * den
        lo == IF over THEN Beyond(f) ELSE Max({h \in Held(f) : h * den <= num})
        hi == IF over THEN Beyond(f) ELSE Min({h \in Held(f) : h * den >= num})
        twice == 2 * num - (lo + hi) * den
        away == (rc = "down" /\ neg) \/ (rc = "up" /\ ~neg)
        up == lo # hi /\ (away \/ (rc = "near" /\
                 (twice > 0 \/ (twice = 0 /\ (lo \div (hi - lo)) % 2 = 1))))
        got == IF over THEN (IF rc = "near" \/ away THEN Beyond(f) ELSE Beyond(f) - Beyond(f) \div 2^f.p)
               ELSE IF up THEN hi ELSE lo
        least == 2^(f.emin + Unit)
        gap == 4 * (least * den - num)         \* below the least normal, in quarters of a last place
        tiny == num < least * den /\ ~(gap < 2 * Ulp(f) * den /\ (away \/ (rc = "near" /\ gap <= Ulp(f) * den)))
    IN  [units |-> got, inf |-> got = Beyond(f),
         sw |-> (IF got * den # num THEN {"PE"} ELSE {})
                \cup (IF got * den > num THEN {"C1"} ELSE {})
                \cup (IF over \/ got = Beyond(f) THEN {"OE", "PE"} ELSE {})
                \cup (IF over /\ got = Beyond(f) THEN {"C1"} ELSE {})
                \cup (IF tiny /\ got * den # num THEN {"UE"} ELSE {})]

InfOf(f) == 2 * f.emax + 1
Finite(x) == Unpack(x).k \in {"FIN", "ZERO"}
\* A result in a format's own layout, in units.
ResultUnits(f, r) ==
    IF f.reg THEN Units(r)
    ELSE LET m == IF r.be = 0 THEN r.m ELSE r.m + 2^(f.p - 1)
         IN  m * 2^(IF r.be = 0 THEN 0 ELSE r.be - 1) * Ulp(f)

Is(neg, num, den) ==
    LET f == FormatOf(fop)
        want == RoundedOnce(f, fop.rc, neg, num, den)
    IN  /\ fres.sw \ {"DE"} = want.sw
        /\ IF want.inf THEN fres.r.be = InfOf(f) ELSE ResultUnits(f, fres.r) = want.units
        /\ num # 0 => fres.r.neg = neg

AbsFloat(n) == IF n < 0 THEN -n ELSE n

\* A sum, a difference, a product, a quotient and a store of numbers are the exact
\* ones rounded once, by the rounding and the precision asked for; PE says that
\* they are not exact, C1 that they are larger, UE and OE why.
RoundedAsAsked ==
    LET a == Num(fop.x)  b == Num(fop.y)  m == IF fop.y.neg THEN -MemUnits(fop.y) ELSE MemUnits(fop.y)
    IN  fop.op # "none" /\ Finite(fop.x) =>
        /\ fop.op = "fst" => Is(fop.x.neg, Units(fop.x), 1)
        /\ fop.op = "subrm" /\ UnpackIeee(fop.y, Mem).k \in {"FIN", "ZERO"} => Is(m < a, AbsFloat(m - a), 1)
        /\ fop.op \in {"add", "sub", "mul", "div"} => (Finite(fop.y) =>
              /\ fop.op = "add" => Is(a + b < 0, AbsFloat(a + b), 1)
              /\ fop.op = "sub" => Is(a - b < 0, AbsFloat(a - b), 1)
              /\ fop.op = "mul" => Is(fop.y.neg, Units(fop.x) * Units(fop.y), 2^Unit)
              /\ fop.op = "div" /\ b # 0 => Is(fop.y.neg, Units(fop.x) * 2^Unit, Units(fop.y)))

\* A root is the nearest on its side: of the two about it, the one asked for.
RootsRight ==
    fop.op = "sqrt" /\ Finite(fop.x) /\ ~fop.x.neg =>
       LET v == Units(fop.x) * 2^Unit         \* the square of the root, in units
           g == Units(fres.r)
           H == Held(Register(fop.p))
           below == {h \in H : h * h <= v}
           above == {h \in H : h * h >= v}
           lo == Max(below)  hi == Min(above)
       IN  /\ g \in {lo, hi} /\ ("PE" \in fres.sw) = (lo # hi)
           /\ ("C1" \in fres.sw) = (g * g > v)
           /\ lo # hi => CASE fop.rc = "up" -> g = hi
                           [] fop.rc \in {"down", "zero"} -> g = lo
                           [] fop.rc = "near" -> (g = hi) = ((lo + hi) * (lo + hi) < 4 * v)

\* The integers are those of the rounding, and out of range is the indefinite.
IntegersRight ==
    fop.op \in {"fist", "rndint"} /\ Finite(fop.x) =>
       LET v == Units(fop.x)  one == 2^Unit  lo == v \div one  rest == v % one
           away == (fop.rc = "down" /\ fop.x.neg) \/ (fop.rc = "up" /\ ~fop.x.neg)
           n == IF rest # 0 /\ (away \/ (fop.rc = "near" /\ (2 * rest > one \/ (2 * rest = one /\ lo % 2 = 1))))
                THEN lo + 1 ELSE lo
           signed == IF fop.x.neg THEN -n ELSE n
           pe == (rest # 0)
       IN  IF fop.op = "rndint" THEN Num(fres.r) = signed * one /\ ("PE" \in fres.sw) = pe
           ELSE IF signed \in -(2^(W - 1)) .. 2^(W - 1) - 1
           THEN fres.r = signed /\ ("PE" \in fres.sw) = pe
           ELSE fres = Gives(-(2^(W - 1)), {"IE"})

\* A remainder is the dividend less a number of divisors, the first bits of which
\* are in the condition codes; one not yet there is smaller than what it came
\* from, and leaves the same remainder.
RemaindersRight ==
    fop.op = "prem" /\ Finite(fop.x) /\ Unpack(fop.y).k = "FIN" =>
       LET a == Units(fop.x)  b == Units(fop.y)  g == Units(fres.r)
       IN  /\ g % b = a % b
           /\ "C2" \in fres.sw => g < a
           /\ "C2" \notin fres.sw => g < b /\ fres.sw \cap {"C0", "C1", "C3"} = QuotientCodes(a \div b)

\* A comparison answers for every two numbers; one with no order to it says so.
ComparisonsRight ==
    fop.op \in {"fcom", "fucom"} =>
       LET ordered(x) == Finite(x) \/ Unpack(x).k = "INF"
           v(x) == IF Finite(x) THEN Num(x) ELSE IF x.neg THEN -Beyond(Register(W)) ELSE Beyond(Register(W))
           codes == fres.sw \cap {"C0", "C2", "C3"}
       IN  IF ordered(fop.x) /\ ordered(fop.y)
           THEN codes = CompareCodes(v(fop.x) - v(fop.y)) /\ "IE" \notin fres.sw
           ELSE codes = {"C0", "C2", "C3"}

\* A number and what it is scaled by, and its two parts, make it again; a float
\* loaded and stored is the same float.
PartsMakeIt ==
    /\ fop.op = "xtract" /\ Finite(fop.x) /\ Units(fop.x) # 0 =>
          LET back == Scale("near", fres.r.sig, fres.r.exp).r
          IN  Num(back) = Num(fop.x)
    /\ fop.op = "scale" /\ Finite(fop.x) /\ Finite(fop.y) =>
          LET n == Num(fop.y) \div 2^Unit
              t == IF fop.y.neg THEN -(Units(fop.y) \div 2^Unit) ELSE Units(fop.y) \div 2^Unit
          IN  Is(fop.x.neg, Units(fop.x) * 2^(IF t > 0 THEN t ELSE 0), 2^(IF t < 0 THEN -t ELSE 0))
    /\ fop.op = "fld" /\ UnpackIeee(fop.y, Mem).k # "SNAN" => ToIeee(fop.rc, fres.r, Mem).r = fop.y

\* An operand that is not a number makes the result not one, and quiet; only one
\* that signals, or an operation without an answer, is invalid.
NansStay ==
    fop.op \in {"add", "sub", "mul", "div", "scale", "prem"} =>
       LET x == Unpack(fop.x)  y == Unpack(fop.y)  r == Unpack(fres.r)
       IN  /\ IsNan(x) \/ IsNan(y) => r.k = "QNAN"
           /\ (r.k = "QNAN") = (IsNan(x) \/ IsNan(y) \/ "IE" \in fres.sw)
           /\ r.k \notin {"SNAN", "BAD"}

FloatsRight == RoundedAsAsked /\ RootsRight /\ IntegersRight /\ RemaindersRight
               /\ ComparisonsRight /\ PartsMakeIt /\ NansStay

=============================================================================
