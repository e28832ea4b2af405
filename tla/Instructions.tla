---------------------------- MODULE Instructions -----------------------------
(***************************************************************************)
(* The interpreter's instructions (cpu.c), in three parts that share no     *)
(* variable: arithmetic and its flags, the prefixes and the string          *)
(* instructions, and the stack.                                             *)
(***************************************************************************)
EXTENDS Integers, Sequences, FiniteSets, SequencesExt

(***************************************************************************)
(* Arithmetic and its flags (cpu.c: flags_add .. cond, the decimal adjusts, *)
(* SHLD and SHRD, the bit instructions).  A register has BITS bits, for the *)
(* 8, 16 and 32 of the code; the carry AF tells of leaves a nibble, NIB     *)
(* bits.  Each behaviour executes one instruction on one machine.           *)
(***************************************************************************)
CONSTANT BITS              \* bits of a register

NIB == 4
ASSUME AluConstants == BITS \in Nat /\ BITS > NIB

Values == 0 .. 2^BITS - 1
Cut(x) == x % 2^BITS
Top(v) == v >= 2^(BITS - 1)
Signed(v) == IF Top(v) THEN v - 2^BITS ELSE v
Bit(v, i) == (v \div 2^i) % 2
One(b) == IF b THEN 1 ELSE 0

\* AX and DX, the flags, and how the machine stands.
Machine(ax, dx, f) == [ax |-> ax, dx |-> dx, f |-> f, state |-> "running"]

---------------------------------------------------------------------------
(* Flags *)

EvenParity(r) == Cardinality({i \in 0 .. 7 : Bit(r, i) = 1}) % 2 = 0
Zsp(f, r) == [f EXCEPT !.zf = (r = 0), !.sf = Top(r), !.pf = EvenParity(r)]

HalfCarry(a, b, r) == (Bit(a, NIB) + Bit(b, NIB) + Bit(r, NIB)) % 2 = 1

\* A mistake it could have made: a carry in is not thought of.
CarryForgotten(a, r, carry) == r < a

CarryOut(a, r, carry) == r < a \/ (carry = 1 /\ r = a)

FlagsAdd(f, a, b, carry, r) ==
    Zsp([f EXCEPT !.cf = CarryOut(a, r, carry),
                  !.of = (Top(a) = Top(b) /\ Top(a) # Top(r)),
                  !.af = HalfCarry(a, b, r)], r)

FlagsSub(f, a, b, borrow, r) ==
    Zsp([f EXCEPT !.cf = (a < b \/ (borrow = 1 /\ a = b)),
                  !.of = (Top(a) # Top(b) /\ Top(a) # Top(r)),
                  !.af = HalfCarry(a, b, r)], r)

FlagsLogic(f, r) == Zsp([f EXCEPT !.cf = FALSE, !.of = FALSE, !.af = FALSE], r)

---------------------------------------------------------------------------
(* Sums and logic: a machine with AX the sum, and the flags *)

Sum(c, a, b, carry) ==
    LET r == Cut(a + b + carry)
    IN  [c EXCEPT !.ax = r, !.f = FlagsAdd(c.f, a, b, carry, r)]
Difference(c, a, b, borrow) ==
    LET r == Cut(a - b - borrow)
    IN  [c EXCEPT !.ax = r, !.f = FlagsSub(c.f, a, b, borrow, r)]
Logic(c, r) == [c EXCEPT !.ax = r, !.f = FlagsLogic(c.f, r)]

\* The number of those bits whose two bits in a and b P holds of.
Bits(P(_, _), a, b) == SumSet({IF P(Bit(a, i), Bit(b, i)) THEN 2^i ELSE 0 : i \in 0 .. BITS - 1})

Alu(c, op, b) ==
    LET cf == One(c.f.cf)
    IN  CASE op = "add" -> Sum(c, c.ax, b, 0)
          [] op = "adc" -> Sum(c, c.ax, b, cf)
          [] op = "sub" -> Difference(c, c.ax, b, 0)
          [] op = "sbb" -> Difference(c, c.ax, b, cf)
          [] op = "cmp" -> [Difference(c, c.ax, b, 0) EXCEPT !.ax = c.ax]
          [] op = "or"  -> Logic(c, Bits(LAMBDA x, y : x + y > 0, c.ax, b))
          [] op = "and" -> Logic(c, Bits(LAMBDA x, y : x + y = 2, c.ax, b))
          [] op = "test" -> [Logic(c, Bits(LAMBDA x, y : x + y = 2, c.ax, b)) EXCEPT !.ax = c.ax]
          [] op = "xor" -> Logic(c, Bits(LAMBDA x, y : x # y, c.ax, b))

Neg(c) == Difference(c, 0, c.ax, 0)
Not(c) == [c EXCEPT !.ax = 2^BITS - 1 - c.ax]

\* INC and DEC leave CF alone.
Inc(c) ==
    LET r == Cut(c.ax + 1)
    IN  [c EXCEPT !.ax = r,
            !.f = Zsp([@ EXCEPT !.of = (r = 2^(BITS - 1)), !.af = (r % 2^NIB = 0)], r)]
Dec(c) ==
    LET r == Cut(c.ax - 1)
    IN  [c EXCEPT !.ax = r,
            !.f = Zsp([@ EXCEPT !.of = (r = 2^(BITS - 1) - 1), !.af = (r % 2^NIB = 2^NIB - 1)], r)]

Cond(f, cc) ==
    CASE cc = "o" -> f.of         [] cc = "b" -> f.cf
      [] cc = "z" -> f.zf         [] cc = "be" -> f.cf \/ f.zf
      [] cc = "s" -> f.sf         [] cc = "p" -> f.pf
      [] cc = "l" -> f.sf # f.of  [] cc = "le" -> f.sf # f.of \/ f.zf

---------------------------------------------------------------------------
(* Shifts: the 386 counts to 31 *)

ShiftOps == {"rol", "ror", "rcl", "rcr", "shl", "shr", "sar"}

\* The bit of v that a shift by n moves out last.
LastLeft(v, n) == n <= BITS /\ Bit(v, BITS - n) = 1
LastRight(v, n) == n <= BITS /\ Bit(v, n - 1) = 1

\* Through the carry, one bit at a time: after n of them.
Rcl[n \in Nat] == [x \in Values \X BOOLEAN |->
    IF n = 0 THEN x
    ELSE LET y == Rcl[n - 1][x] IN <<Cut(2 * y[1]) + One(y[2]), Top(y[1])>>]
Rcr[n \in Nat] == [x \in Values \X BOOLEAN |->
    IF n = 0 THEN x
    ELSE LET y == Rcr[n - 1][x]
         IN  <<y[1] \div 2 + One(y[2]) * 2^(BITS - 1), y[1] % 2 = 1>>]

Shift(c, op, count) ==
    LET n == count % 32
        v == c.ax
        k == n % BITS
        out(r, cf, of) == [c EXCEPT !.ax = r, !.f.cf = cf, !.f.of = of]
        zsp(m) == [m EXCEPT !.f = Zsp(@, m.ax)]
    IN  CASE n = 0 -> c
          [] n # 0 /\ op = "rol" ->
                LET r == Cut(v * 2^k) + v \div 2^(BITS - k)
                IN  out(r, r % 2 = 1, Top(r) # (r % 2 = 1))
          [] n # 0 /\ op = "ror" ->
                LET r == v \div 2^k + Cut(v * 2^(BITS - k))
                IN  out(r, Top(r), Top(r) # (Bit(r, BITS - 2) = 1))
          [] n # 0 /\ op = "rcl" ->
                LET x == Rcl[n % (BITS + 1)][<<v, c.f.cf>>]
                IN  out(x[1], x[2], Top(x[1]) # x[2])
          [] n # 0 /\ op = "rcr" ->
                LET x == Rcr[n % (BITS + 1)][<<v, c.f.cf>>]
                IN  out(x[1], x[2], Top(v) # c.f.cf)
          [] n # 0 /\ op = "shl" ->
                LET r == IF n >= BITS THEN 0 ELSE Cut(v * 2^n)
                IN  zsp(out(r, LastLeft(v, n), Top(r) # LastLeft(v, n)))
          [] n # 0 /\ op = "shr" ->
                zsp(out(IF n >= BITS THEN 0 ELSE v \div 2^n, LastRight(v, n), Top(v)))
          [] n # 0 /\ op = "sar" ->
                LET by(i) == Cut(Signed(v) \div 2^i)
                IN  zsp(out(by(IF n >= BITS THEN BITS - 1 ELSE n),
                            by(IF n > BITS THEN BITS - 1 ELSE n - 1) % 2 = 1, FALSE))

\* SHLD and SHRD of AX, filled from DX.
ShiftDouble(c, left, count) ==
    LET n == count % 32
        r == IF n >= BITS THEN c.dx
             ELSE IF left THEN Cut(c.ax * 2^n) + c.dx \div 2^(BITS - n)
                          ELSE c.ax \div 2^n + Cut(c.dx * 2^(BITS - n))
        cf == n < BITS /\ (IF left THEN LastLeft(c.ax, n) ELSE LastRight(c.ax, n))
    IN  IF n = 0 THEN c ELSE [c EXCEPT !.ax = r, !.f = Zsp([c.f EXCEPT !.cf = cf], r)]

BitTest(c, op, i) ==
    LET n == i % BITS
        was == Bit(c.ax, n)
        now == CASE op = "bt" -> was [] op = "bts" -> 1 [] op = "btr" -> 0 [] op = "btc" -> 1 - was
    IN  [c EXCEPT !.ax = @ + (now - was) * 2^n, !.f.cf = (was = 1)]
BitScan(c, forward) ==
    LET S == {i \in 0 .. BITS - 1 : Bit(c.ax, i) = 1}
    IN  IF S = {} THEN [c EXCEPT !.f.zf = TRUE]
        ELSE [c EXCEPT !.f.zf = FALSE, !.dx = IF forward THEN Min(S) ELSE Max(S)]

---------------------------------------------------------------------------
(* Products, quotients and extensions *)

Mul(c, src, signed) ==
    LET p == IF signed THEN Signed(c.ax) * Signed(src) ELSE c.ax * src
        lo == Cut(p)
        over == IF signed THEN p # Signed(lo) ELSE p # lo
    IN  [c EXCEPT !.ax = lo, !.dx = Cut(p \div 2^BITS),
                  !.f = Zsp([@ EXCEPT !.cf = over, !.of = over], lo)]

\* The long DX:AX, and C's division, toward zero.
Wide(c, signed) == (IF signed THEN Signed(c.dx) ELSE c.dx) * 2^BITS + c.ax
AbsOf(x) == IF x < 0 THEN -x ELSE x
Quotient(n, d) == IF (n < 0) = (d < 0) THEN AbsOf(n) \div AbsOf(d) ELSE -(AbsOf(n) \div AbsOf(d))

Fits(q, signed) == IF signed THEN q \in -(2^(BITS - 1)) .. 2^(BITS - 1) - 1 ELSE q \in Values
Fault(c) == [c EXCEPT !.state = "fault"]

\* The most negative long by -1 overflows C's own division: the host's traps, or
\* wraps to a quotient that does not fit.
Div(c, src, signed) ==
    LET n == Wide(c, signed)
        d == IF signed THEN Signed(src) ELSE src
        q == Quotient(n, d)
    IN  IF src = 0 THEN {Fault(c)}
        ELSE IF signed /\ d = -1 /\ n = -(2^(2 * BITS - 1))
             THEN {Fault(c), [c EXCEPT !.state = "host trap"]}
        ELSE IF ~Fits(q, signed) THEN {Fault(c)}
        ELSE {[c EXCEPT !.ax = Cut(q), !.dx = Cut(n - q * d)]}

\* CWD.
Extend(c) == [c EXCEPT !.dx = IF Top(c.ax) THEN 2^BITS - 1 ELSE 0]

Bound(c, lo, hi) ==
    IF Signed(c.ax) < Signed(lo) \/ Signed(c.ax) > Signed(hi) THEN Fault(c) ELSE c

---------------------------------------------------------------------------
(* Decimal: a byte of two digits, and AX of two bytes.  These are as wide as  *)
(* they are; a case is [al, cf, af], or [ax, cf, af] for a digit to a byte.   *)

Adjust(al, cf, af, das) ==
    LET low == al % 16 > 9 \/ af
        lowCarry == low /\ (cf \/ IF das THEN al < 6 ELSE al + 6 > 255)
        al1 == IF ~low THEN al ELSE IF das THEN (al - 6) % 256 ELSE (al + 6) % 256
        high == al > 153 \/ cf
        al2 == IF ~high THEN al1 ELSE IF das THEN (al1 - 96) % 256 ELSE (al1 + 96) % 256
    IN  [al |-> al2, af |-> low,
         cf |-> high \/ (das /\ (lowCarry \/ (~low /\ cf)))]

AdjustAscii(ax, af, aas) ==
    LET adjust == ax % 16 > 9 \/ af
        ax1 == IF ~adjust THEN ax ELSE IF aas THEN (ax - 262) % 65536 ELSE (ax + 262) % 65536
    IN  [ax |-> ((ax1 \div 256) * 256) + (ax1 % 16), cf |-> adjust]

\* AAM and AAD.
Split(al, base) == ((al \div base) * 256) + (al % base)
Join(ax, base) == ((ax % 256) + ((ax \div 256) * base)) % 256

---------------------------------------------------------------------------
(* One instruction *)

VARIABLES before,          \* the machine before
          ins,             \* the instruction, its name and its operand
          after            \* the machines it may leave

aluVars == <<before, ins, after>>

SumOps == {"add", "adc", "sub", "sbb", "cmp", "or", "and", "test", "xor"}
Do(c, i) ==
    CASE i.op \in SumOps -> {Alu(c, i.op, i.b)}
      [] i.op \in ShiftOps -> {Shift(c, i.op, i.b)}
      [] i.op = "shld" -> {ShiftDouble(c, TRUE, i.b)}
      [] i.op = "shrd" -> {ShiftDouble(c, FALSE, i.b)}
      [] i.op \in {"bt", "bts", "btr", "btc"} -> {BitTest(c, i.op, i.b)}
      [] i.op = "bsf" -> {BitScan(c, TRUE)}  [] i.op = "bsr" -> {BitScan(c, FALSE)}
      [] i.op = "mul" -> {Mul(c, i.b, FALSE)} [] i.op = "imul" -> {Mul(c, i.b, TRUE)}
      [] i.op = "div" -> Div(c, i.b, FALSE)  [] i.op = "idiv" -> Div(c, i.b, TRUE)
      [] i.op = "neg" -> {Neg(c)} [] i.op = "not" -> {Not(c)}
      [] i.op = "inc" -> {Inc(c)} [] i.op = "dec" -> {Dec(c)}
      [] i.op = "cwd" -> {Extend(c)}
      [] i.op = "bound" -> {Bound(c, i.b, c.dx)}

\* The bounds: of DX, but for a division, and of the counts.
SomeDx == {0, 1, 2^(BITS - 1), 2^BITS - 1}
Counts == 0 .. 33
Clear == [cf |-> FALSE, of |-> FALSE, af |-> FALSE, zf |-> FALSE, sf |-> FALSE, pf |-> FALSE]

AluInstructions ==
    [op : SumOps \cup {"mul", "imul", "div", "idiv", "bound"}, b : Values]
    \cup [op : ShiftOps \cup {"shld", "shrd"}, b : Counts]
    \cup [op : {"bt", "bts", "btr", "btc"}, b : 0 .. BITS - 1]
    \cup [op : {"bsf", "bsr", "neg", "not", "inc", "dec", "cwd"}, b : {0}]

AluInit ==
    /\ \E ax \in Values, cf \in BOOLEAN : before = Machine(ax, 0, [Clear EXCEPT !.cf = cf])
    /\ ins = [op |-> "none", b |-> 0] /\ after = {}

Execute ==
    /\ ins.op = "none"
    /\ ins' \in AluInstructions
    /\ \E dx \in IF ins'.op \in {"div", "idiv"} THEN Values
                 ELSE IF ins'.op \in {"shld", "shrd", "bound"} THEN SomeDx ELSE {0} :
          before' = [before EXCEPT !.dx = dx]
    /\ after' = Do(before', ins')

\* Two numbers in digits, summed or subtracted, and adjusted; one split and joined.
Bcd(n) == 16 * (n \div 10) + (n % 10)
Decimal ==
    /\ ins.op = "none" /\ before.ax = 0 /\ ~before.f.cf
    /\ \E a, b \in 0 .. 99 :
       LET s == Bcd(a) + Bcd(b)
           d == Bcd(a) - Bcd(b)
           digit == a <= 9 /\ b <= 9
           does(op, r) == ins' = [op |-> op, a |-> a, b |-> b] /\ after' = {r}
       IN  \/ does("daa", Adjust(s % 256, s > 255, (Bcd(a) % 16) + (Bcd(b) % 16) > 15, FALSE))
           \/ does("das", Adjust(d % 256, d < 0, Bcd(a) % 16 < Bcd(b) % 16, TRUE))
           \/ digit /\ does("aaa", AdjustAscii(512 + a + b, a + b > 15, FALSE))
           \/ digit /\ does("aas", AdjustAscii(512 + (d % 256), d < 0, TRUE))
           \/ b = 0 /\ does("aam", [al |-> Split(a, 10) % 256, back |-> Join(Split(a, 10), 10)])
    /\ UNCHANGED before

---------------------------------------------------------------------------
(* What the flags and results are to be *)

Done(ops) == ins.op \in ops /\ \A m \in after : m.state = "running"
Out == CHOOSE m \in after : TRUE
InSigned(x) == x \in -(2^(BITS - 1)) .. 2^(BITS - 1) - 1

\* A sum and its carry out, a difference and its borrow, are the exact ones, and
\* OF is set exactly when the signed result does not fit; INC, DEC and NEG are
\* sums that leave CF, or set it of any but nothing.
SumsExact ==
    LET a == before.ax
        plus == ins.op \in {"add", "adc", "inc"}
        b == IF ins.op \in {"inc", "dec"} THEN 1 ELSE ins.b
        c == IF ins.op \in {"adc", "sbb"} THEN One(before.f.cf) ELSE 0
        signed == IF plus THEN Signed(a) + Signed(b) + c ELSE Signed(a) - Signed(b) - c
    IN  /\ Done({"add", "adc", "inc", "sub", "sbb", "dec"}) =>
              /\ Out.f.of = ~InSigned(signed)
              /\ Out.f.zf = (Out.ax = 0) /\ Out.f.sf = Top(Out.ax)
              /\ Out.f.af = IF plus THEN (a % 2^NIB) + (b % 2^NIB) + c >= 2^NIB
                                    ELSE (a % 2^NIB) - (b % 2^NIB) - c < 0
        /\ Done({"add", "adc"}) => Out.ax + One(Out.f.cf) * 2^BITS = a + b + c
        /\ Done({"sub", "sbb"}) => Out.ax - One(Out.f.cf) * 2^BITS = a - b - c
        /\ Done({"inc", "dec"}) => Out.f.cf = before.f.cf
                                   /\ Out.ax = Cut(IF plus THEN a + 1 ELSE a - 1)
        /\ Done({"neg"}) => Out.f.cf = (a # 0) /\ Cut(Out.ax + a) = 0

\* After a comparison each condition answers its question, of the numbers as
\* unsigned and as signed.
ComparesDecide ==
    LET a == before.ax  b == ins.b
    IN  Done({"cmp"}) =>
           /\ Cond(Out.f, "b") = (a < b)  /\ Cond(Out.f, "be") = (a <= b)
           /\ Cond(Out.f, "z") = (a = b)
           /\ Cond(Out.f, "l") = (Signed(a) < Signed(b))
           /\ Cond(Out.f, "le") = (Signed(a) <= Signed(b))

\* One step of a shift, of a register and the carry.
Step(op, x) ==
    LET v == x[1]  top == Top(v)  low == v % 2 = 1  high == 2^(BITS - 1)
    IN  CASE op = "rol" -> <<Cut(2 * v) + One(top), top>>
          [] op = "ror" -> <<v \div 2 + One(low) * high, low>>
          [] op = "rcl" -> <<Cut(2 * v) + One(x[2]), top>>
          [] op = "rcr" -> <<v \div 2 + One(x[2]) * high, low>>
          [] op = "shl" -> <<Cut(2 * v), top>>
          [] op = "shr" -> <<v \div 2, low>>
          [] op = "sar" -> <<v \div 2 + One(top) * high, low>>
Steps[n \in 0 .. 31] == [op \in ShiftOps |-> [x \in Values \X BOOLEAN |->
    IF n = 0 THEN x ELSE Step(op, Steps[n - 1][op][x])]]

\* A shift by a count is that many steps of one, in the result and in CF, however
\* long the count, and a step that changes the sign sets OF; a shift of two
\* registers is the shift of the long they make.
ShiftsAreSteps ==
    LET n == ins.b % 32  a == before.ax  d == before.dx
    IN  /\ Done(ShiftOps) =>
              /\ Steps[n][ins.op][<<a, before.f.cf>>] = <<Out.ax, Out.f.cf>>
              /\ n = 1 => Out.f.of = (Top(a) # Top(Out.ax))
        /\ Done({"shld"}) /\ n < BITS =>
              Out.ax = (((a * 2^BITS + d) * 2^n) \div 2^BITS) % 2^BITS
        /\ Done({"shrd"}) /\ n < BITS => Out.ax = Cut((d * 2^BITS + a) \div 2^n)

\* A product is whole in its two halves, and CF tells when the low one is not
\* enough.  A division gives the quotient and remainder of C, or stops: exactly
\* when there is no quotient that fits.
ProductsExact ==
    LET s(v) == IF ins.op \in {"imul", "idiv"} THEN Signed(v) ELSE v
        long(m) == s(m.dx) * 2^BITS + m.ax
    IN  /\ Done({"mul", "imul"}) =>
              /\ long(Out) = s(before.ax) * s(ins.b)
              /\ Out.f.cf = (long(Out) # s(Out.ax))
        /\ Done({"div", "idiv"}) =>
              /\ long(before) = s(Out.ax) * s(ins.b) + s(Out.dx)
              /\ AbsOf(s(Out.dx)) < AbsOf(s(ins.b))
              /\ s(Out.dx) # 0 => (s(Out.dx) < 0) = (long(before) < 0)
        /\ ins.op \in {"div", "idiv"} /\ (\E m \in after : m.state = "fault") =>
              ~\E q \in Values :
                  LET r == long(before) - s(q) * s(ins.b)
                  IN  AbsOf(r) < AbsOf(s(ins.b)) /\ (r # 0 => (r < 0) = (long(before) < 0))

\* A sum of two bytes of two digits, adjusted, is the sum of the numbers, and so
\* is a difference; of one digit, the byte above is stepped too.
DecimalsRight ==
    LET a == ins.a  b == ins.b  r == Out  up == 512 + One(a + b > 9) * 256
    IN  /\ ins.op = "daa" => r.al = Bcd((a + b) % 100) /\ r.cf = (a + b > 99)
        /\ ins.op = "das" => r.al = Bcd((a - b) % 100) /\ r.cf = (a < b)
        /\ ins.op = "aaa" => r.ax = up + ((a + b) % 10) /\ r.cf = (a + b > 9)
        /\ ins.op = "aas" => r.ax % 256 = (a - b) % 10 /\ r.cf = (a < b)
        /\ ins.op = "aam" => r.al = a % 10 /\ r.back = a

\* What arithmetic comes to.
ArithmeticRight ==
    SumsExact /\ ComparesDecide /\ ShiftsAreSteps /\ ProductsExact /\ DecimalsRight

-----------------------------------------------------------------------------
(***************************************************************************)
(* The prefixes of an instruction and the string instructions (cpu.c:       *)
(* cpu_step).  A segment has offsets 0 .. SEG - 1, and one byte after its    *)
(* last, which a word there reaches.  A step is one round of the loop of a   *)
(* repeated instruction; nothing else runs between them.                    *)
(***************************************************************************)
CONSTANTS SEG,             \* offsets in a segment
          Bytes,           \* values of a byte
          OpPrefixes,        \* the prefixes, in order, that instructions have
          MostStrings      \* bound: instructions executed

ASSUME StringConstants ==
    SEG \in Nat \ {0} /\ OpPrefixes \subseteq Seq({"ds", "es", "repe", "repne"})

Segs == {"ds", "es"}
StrOps == {"movs", "stos", "lods", "cmps", "scas"}

VARIABLES c,               \* registers si, di, cx, ax; df, zf, cf; override
          bytes,           \* of each segment
          str,             \* the instruction, running or not
          was,             \* the registers and bytes it began with
          executed

strVars == <<c, bytes, str, was, executed>>

\* A mistake it could have made: an override stays for the next instruction.
KeepOverride(m) == m.override

\* What the prefixes before an opcode make of it, and of the machine before it.
NoOverride(m) == "no"

Prefixed(ps, m) ==
    LET last(S, dflt) == LET at == {i \in DOMAIN ps : ps[i] \in S}
                         IN  IF at = {} THEN dflt
                             ELSE ps[CHOOSE i \in at : \A j \in at : j <= i]
    IN  [override |-> last(Segs, NoOverride(m)), rep |-> last({"repe", "repne"}, "no")]

SegFor(m, dflt) == IF m.override = "no" THEN dflt ELSE m.override

\* A value is a sequence of one byte or two.
Read(mem, seg, off, size) == [i \in 1 .. size |-> mem[seg][off + i - 1]]
Written(mem, seg, off, v) ==
    [mem EXCEPT ![seg] = [o \in DOMAIN @ |-> IF o - off + 1 \in DOMAIN v THEN v[o - off + 1] ELSE @[o]]]
Number(v) == IF Len(v) = 1 THEN v[1] ELSE v[1] + 256 * v[2]

StrStep(m, reg, size) == [m EXCEPT ![reg] = (@ + IF m.df THEN -size ELSE size) % SEG]
Both(m, size) == StrStep(StrStep(m, "si", size), "di", size)
Compared(m, a, b) == [m EXCEPT !.zf = (a = b), !.cf = (Number(a) < Number(b))]

\* One round: the registers and bytes after.
Round(m, mem, op, size, src) ==
    LET from == Read(mem, src, m.si, size)
        to == Read(mem, "es", m.di, size)
        acc == SubSeq(m.ax, 1, size)
    IN  CASE op = "movs" -> <<Both(m, size), Written(mem, "es", m.di, from)>>
          [] op = "stos" -> <<StrStep(m, "di", size), Written(mem, "es", m.di, acc)>>
          [] op = "lods" -> <<StrStep([m EXCEPT !.ax = from \o SubSeq(@, size + 1, 2)], "si", size), mem>>
          [] op = "cmps" -> <<Both(Compared(m, from, to), size), mem>>
          [] op = "scas" -> <<StrStep(Compared(m, acc, to), "di", size), mem>>

\* A comparison stops on the zero flag too.
OnFlag(m) == str.op \in {"cmps", "scas"} /\ m.zf = (str.rep = "repne")

Begin ==
    /\ ~str.running /\ executed < MostStrings /\ executed' = executed + 1
    /\ \E ps \in OpPrefixes, op \in StrOps, size \in {1, 2} :
       LET p == Prefixed(ps, c)
       IN  /\ c' = [c EXCEPT !.override = p.override]
           /\ str' = [running |-> ~(p.rep # "no" /\ c.cx = 0), op |-> op, size |-> size,
                      rep |-> p.rep, src |-> SegFor(c', "ds"), asked |-> ps]
    /\ was' = [c |-> c, bytes |-> bytes]
    /\ UNCHANGED bytes

Repeat ==
    /\ str.running
    /\ LET x == Round(c, bytes, str.op, str.size, str.src)
           m == IF str.rep = "no" THEN x[1] ELSE [x[1] EXCEPT !.cx = @ - 1]
       IN  /\ c' = m /\ bytes' = x[2]
           /\ str' = [str EXCEPT !.running = ~(str.rep = "no" \/ m.cx = 0 \/ OnFlag(m))]
    /\ UNCHANGED <<was, executed>>

\* The start: some registers, and two segments.
StrInit(registers, memories) ==
    /\ c \in registers /\ bytes \in memories
    /\ str = [running |-> FALSE, op |-> "none"]
    /\ was = [c |-> c, bytes |-> bytes] /\ executed = 0

---------------------------------------------------------------------------
(* What an instruction did, when it is over *)

Over(ops) == ~str.running /\ str.op \in ops
Times == IF str.rep = "no" THEN 1 ELSE was.c.cx - c.cx
Way == IF was.c.df THEN -str.size ELSE str.size
\* The offset of the i-th value from a register, and that none of them wraps.
Nth(reg, i) == was.c[reg] + i * Way
Straight(reg) == \A i \in 0 .. Times - 1 : Nth(reg, i) \in 0 .. SEG - str.size

\* The segment is the one its own prefixes name.
Source == LET at == {i \in DOMAIN str.asked : str.asked[i] \in Segs}
          IN  IF at = {} THEN "ds" ELSE str.asked[CHOOSE i \in at : \A j \in at : j <= i]

\* A copy whose places do not run over what it is still to read leaves the values
\* that were there, wherever the two overlap; one that does spreads what it reads
\* first (a word on half of itself aside); and nothing else is written.
CopiesRight ==
    Over({"movs"}) /\ Straight("si") /\ Straight("di") =>
       LET apart == IF was.c.df THEN was.c.si - was.c.di ELSE was.c.di - was.c.si
           ahead == Source = "es" /\ apart > 0
           seen == IF ahead THEN bytes ELSE was.bytes
           touched == UNION {Nth("di", i) .. Nth("di", i) + str.size - 1 : i \in 0 .. Times - 1}
       IN  /\ ~ahead \/ apart >= str.size =>
              \A i \in 0 .. Times - 1 :
                 Read(bytes, "es", Nth("di", i), str.size) = Read(seen, Source, Nth("si", i), str.size)
           /\ bytes["ds"] = was.bytes["ds"]
           /\ \A o \in 0 .. SEG : o \notin touched => bytes["es"][o] = was.bytes["es"][o]

\* A scan or a comparison goes on to the first value that ends it and no further:
\* what it passed did not end it, and it stopped there or with none left.
ScansStopAtFirst ==
    Over({"scas", "cmps"}) /\ Straight("si") /\ Straight("di") /\ Times > 0 =>
       LET a(i) == IF str.op = "scas" THEN SubSeq(was.c.ax, 1, str.size)
                   ELSE Read(bytes, Source, Nth("si", i), str.size)
           ends(i) == (a(i) = Read(bytes, "es", Nth("di", i), str.size)) = (str.rep = "repne")
       IN  /\ str.rep # "no" => \A i \in 0 .. Times - 2 : ~ends(i)
           /\ str.rep # "no" => c.cx = 0 \/ ends(Times - 1)
           /\ c.zf = (ends(Times - 1) = (str.rep = "repne"))
           /\ c.di = (was.c.di + Times * Way) % SEG

\* String instructions do what one step after another of theirs is to come to.
StringsRight == CopiesRight /\ ScansStopAtFirst

-----------------------------------------------------------------------------
(***************************************************************************)
(* The stack and the transfers of control in the interpreter (cpu.c:        *)
(* cpu_push16 .. pop_size, far_jump, and their instructions in cpu_step),   *)
(* with a guest that calls as compiled code does.  The stack segment is a    *)
(* ring of words, as SP wraps; an address is a segment and an offset.       *)
(***************************************************************************)

CONSTANTS WORDS,           \* words of the stack segment
          Places,          \* the code segments, and the offsets of code
          Locals,          \* words a procedure takes for itself
          Nestings,        \* levels of a procedure
          MostArgs,        \* bound: words of arguments
          MostFrames,      \* bound: calls at once
          MostPushed,      \* bound: things a procedure has pushed
          MostSteps        \* bound: instructions

ASSUME CpuStackConstants ==
    /\ WORDS \in Nat /\ WORDS > 0
    /\ Places \subseteq [cs : Int, ip : Int]
    /\ Locals \subseteq Nat /\ Nestings \subseteq Nat /\ MostArgs \in Nat

Ring == 0 .. WORDS - 1
Order == <<"ax", "cx", "dx", "bx", "sp", "bp", "si", "di">>

VARIABLES r,               \* general registers, SP and BP in words
          at,              \* CS and IP
          flags,
          stack,           \* the words of the stack segment
          frames,          \* GHOST: the calls not returned from
          steps,           \* instructions executed
          back             \* GHOST: what the last one to come back should find

stackVars == <<r, at, flags, stack, frames, steps, back>>

\* The registers and the stack, pushed and popped.
Now == [r |-> r, s |-> stack]
PushAll(m, vs) ==
    [r |-> [m.r EXCEPT !["sp"] = (@ - Len(vs)) % WORDS],
     s |-> [a \in Ring |-> LET k == (m.r["sp"] - a) % WORDS
                           IN  IF k \in 1 .. Len(vs) THEN vs[k] ELSE m.s[a]]]
Push(m, v) == PushAll(m, <<v>>)
Word(m, i) == m.s[(m.r["sp"] + i) % WORDS]
Drop(m, n) == [m EXCEPT !.r["sp"] = (@ + n) % WORDS]
Becomes(m) == r' = m.r /\ stack' = m.s

\* Where PUSHA puts a register.
Slot(reg) == CHOOSE i \in 1 .. 8 : Order[i] = reg

\* A mistake it could have made: POPA does not step over the word of SP.
PopaOverSp(m) ==
    [m EXCEPT !.r = [x \in DOMAIN @ |->
        IF x = "sp" THEN (@["sp"] + 7) % WORDS
        ELSE Word(m, (IF Slot(x) > Slot("sp") THEN 8 ELSE 7) - Slot(x))]]

\* PUSHA, and POPA of every register but SP, whose word it steps over.
Pusha(m) == PushAll(m, [i \in 1 .. 8 |-> m.r[Order[i]]])
Popa(m) == [m EXCEPT !.r = [x \in DOMAIN @ |->
               IF x = "sp" THEN (@["sp"] + 8) % WORDS ELSE Word(m, 8 - Slot(x))]]

\* ENTER: the frame, the enclosing frames' pointers for a level above one, read
\* under BP from words that may be those just pushed, and room for locals; and
\* LEAVE.
Enter(m, alloc, level) ==
    LET first == Push(m, m.r["bp"])
        gap == ((m.r["bp"] - first.r["sp"] - 1) % WORDS) + 1
        display == [i \in 1 .. level - 1 |->
                       first.s[(m.r["bp"] - 1 - ((i - 1) % gap)) % WORDS]]
        full == PushAll(first, display)
    IN  Drop([full EXCEPT !.r["bp"] = first.r["sp"]], -alloc)
Leave(m) ==
    LET n == [m EXCEPT !.r["sp"] = m.r["bp"]] IN [Drop(n, 1) EXCEPT !.r["bp"] = Word(n, 0)]

\* RET, RETF and IRET: where they go.
Target(m, far) == [cs |-> IF far THEN Word(m, 1) ELSE at.cs, ip |-> Word(m, 0)]

---------------------------------------------------------------------------
(* A guest that calls and returns as compiled code does *)

F == Last(frames)
WithF(f) == [frames EXCEPT ![Len(frames)] = f]
\* The guest keeps its stack within the segment.
Room(n) == ((frames[1].caller.sp - r["sp"]) % WORDS) + n < WORDS
Free == F.pushed = <<>>

\* CALL near or far, of a register, memory or a number, its arguments pushed
\* before it; with the flags pushed first, for a return by IRET.
Call(far, args, iret) ==
    LET return == IF far THEN <<at.cs, at.ip>> ELSE <<at.ip>>
        put == [i \in 1 .. args |-> 0] \o (IF iret THEN <<flags>> ELSE <<>>) \o return
    IN  /\ Len(frames) <= MostFrames /\ Room(Len(put))
        /\ iret => far
        /\ \E to \in Places : (far \/ to.cs = at.cs) /\ at' = to
        /\ Becomes(PushAll(Now, put))
        /\ frames' = Append(frames,
               [far |-> far, args |-> args, iret |-> iret, entered |-> FALSE, pushed |-> <<>>,
                caller |-> [at |-> at, sp |-> r["sp"], bp |-> r["bp"], flags |-> flags]])
        /\ UNCHANGED <<flags, back>>

Drops(m, n, args) == Drop(m, n + args)

Return ==
    /\ Len(frames) > 1 /\ ~F.entered /\ Free
    /\ at' = Target(Now, F.far)
    /\ flags' = IF F.iret THEN Word(Now, 2) ELSE flags
    /\ LET m == Drops(Now, (IF F.far THEN 2 ELSE 1) + (IF F.iret THEN 1 ELSE 0), F.args)
       IN  Becomes(m) /\ back' = [is |-> [at |-> at', sp |-> m.r["sp"], bp |-> m.r["bp"], flags |-> flags'],
                                  was |-> IF F.iret THEN F.caller ELSE [F.caller EXCEPT !.flags = flags]]
    /\ frames' = Front(frames)

EnterFrame ==
    /\ ~F.entered /\ Free
    /\ \E alloc \in Locals, level \in Nestings :
          /\ Room(1 + alloc + level)
          /\ Becomes(Enter(Now, alloc, level))
          /\ frames' = WithF([F EXCEPT !.entered = TRUE])
    /\ UNCHANGED <<at, flags, back>>

\* LEAVE throws away what the procedure still has pushed.
LeaveFrame ==
    /\ F.entered
    /\ Becomes(Leave(Now))
    /\ frames' = WithF([F EXCEPT !.entered = FALSE, !.pushed = <<>>])
    /\ UNCHANGED <<at, flags, back>>

KeptWords(what, held) ==
    WithF([F EXCEPT !.pushed = Append(@, [what |-> what, held |-> held, sp |-> r["sp"]])])
Begun == F.entered /\ Len(F.pushed) < MostPushed

\* PUSHA, PUSHF and PUSH of a register, and after each something else in what it saved.
Save ==
    /\ Begun
    /\ \/ /\ Room(8 + 1) /\ LET m == Pusha(Now) IN
             Becomes([m EXCEPT !.r = [x \in DOMAIN @ |-> IF x \in {"sp", "bp"} THEN @[x] ELSE 0]])
          /\ frames' = KeptWords("all", r) /\ UNCHANGED flags
       \/ /\ Room(1 + 1) /\ Becomes(Push(Now, flags)) /\ flags' = 1 - flags
          /\ frames' = KeptWords("flags", flags)
    /\ UNCHANGED <<at, back>>

\* POPA, POPF.
Restore ==
    /\ F.entered /\ F.pushed # <<>>
    /\ LET k == Last(F.pushed)
       IN  /\ IF k.what = "all" THEN Becomes(Popa(Now)) /\ UNCHANGED flags
              ELSE Becomes(Drop(Now, 1)) /\ flags' = Word(Now, 0)
           /\ back' = IF k.what = "all" THEN [is |-> r', was |-> k.held]
                      ELSE [is |-> flags', was |-> k.held]
    /\ frames' = WithF([F EXCEPT !.pushed = Front(@)])
    /\ UNCHANGED at

StackInit(start) ==
    /\ r \in start /\ flags = 0 /\ at \in Places
    /\ stack = [w \in Ring |-> 0]
    /\ frames = <<[far |-> FALSE, args |-> 0, iret |-> FALSE, entered |-> FALSE, pushed |-> <<>>,
                   caller |-> [at |-> at, sp |-> r["sp"], bp |-> r["bp"], flags |-> flags]]>>
    /\ steps = 0 /\ back = [is |-> 0, was |-> 0]

StackNext ==
    /\ steps < MostSteps /\ steps' = steps + 1
    /\ \/ \E far, iret \in BOOLEAN, args \in 0 .. MostArgs : Call(far, args, iret)
       \/ Return \/ EnterFrame \/ LeaveFrame \/ Save \/ Restore

---------------------------------------------------------------------------

\* A return puts control, SP and BP where the call was made, whatever the
\* procedure called and saved in between and wherever SP wraps; and what was
\* saved comes back as it was.
ReturnsToItsCaller == back.is = back.was

=============================================================================
